----------------------------- MODULE RetryBudget -----------------------------
(***************************************************************************)
(* RetryBudget (budget.go): Allow, called concurrently.  Only the reset of *)
(* an expired window holds rb.mu; every load, store and add of the atomic  *)
(* counters is a step of its own that other callers interleave with, even  *)
(* with the three stores of a reset.                                       *)
(*                                                                         *)
(* time.Now and the load of windowStart are one step: a start that is      *)
(* later than the time read is not expired, as it would not be then.       *)
(***************************************************************************)
EXTENDS Integers, FiniteSets

CONSTANTS Callers,     \* the goroutines that call Allow
          Num, Den,    \* rb.budget = Num / Den
          Window,      \* rb.window, in ticks
          MaxTime      \* bound: the clock stops here

ASSUME BudgetAssumption ==
  /\ IsFiniteSet(Callers) /\ Callers # {}
  /\ Num \in Nat \ {0} /\ Den \in Nat \ {0} /\ Num <= Den
  /\ Window \in Nat \ {0}
  /\ MaxTime \in Nat

VARIABLES total,        \* rb.total
          retries,      \* rb.retries
          windowStart,  \* rb.windowStart
          mu,           \* is rb.mu held
          clock,        \* the time
          apc,          \* where each caller is in Allow
          now, start,   \* its locals of these names, 0 when no longer needed
          share,        \* its local total, 0 when no longer needed
          verdict,      \* what Allow last returned to it
          granted       \* auxiliary: how often Allow said yes since ZeroTotal

budgetVars == <<total, retries, windowStart, mu, clock, apc, now, start, share, verdict, granted>>
locals == <<now, start, share, verdict>>
counters == <<total, retries, windowStart>>

BudgetInit ==
  /\ total = 0
  /\ retries = 0
  /\ windowStart = 0
  /\ mu = FALSE
  /\ clock = 0
  /\ apc = [c \in Callers |-> "out"]
  /\ now = [c \in Callers |-> 0]
  /\ start = [c \in Callers |-> 0]
  /\ share = [c \in Callers |-> 0]
  /\ verdict = [c \in Callers |-> "none"]
  /\ granted = 0

-----------------------------------------------------------------------------
Goto(c, to) == apc' = [apc EXCEPT ![c] = to]

\* Allow returns v to c; the locals are cleared.
Verdict(c, v) ==
  /\ Goto(c, "out")
  /\ verdict' = [verdict EXCEPT ![c] = v]
  /\ share' = [share EXCEPT ![c] = 0]
  /\ granted' = IF v = "yes" THEN granted + 1 ELSE granted

\* Allow reads the clock and windowStart, and keeps them for the reset.
Allow(c) ==
  /\ apc[c] = "out"
  /\ IF clock - windowStart > Window
     THEN /\ now' = [now EXCEPT ![c] = clock]
          /\ start' = [start EXCEPT ![c] = windowStart]
          /\ Goto(c, "lock")
     ELSE Goto(c, "add") /\ UNCHANGED <<now, start>>
  /\ UNCHANGED <<counters, mu, clock, share, verdict, granted>>

\* Mutant: a caller that waited for rb.mu does not look at windowStart again.
SameWindowUnchecked(c) == TRUE

SameWindow(c) == windowStart = start[c]

\* Mutant: rb.mu is unlocked only by the caller that resets.
LockKept(c) ==
  /\ apc[c] = "lock"
  /\ ~mu
  /\ mu' = TRUE
  /\ Goto(c, IF SameWindow(c) THEN "zeroTotal" ELSE "add")
  /\ start' = [start EXCEPT ![c] = 0]
  /\ UNCHANGED <<counters, clock, now, share, verdict, granted>>

\* rb.mu.Lock(); without a reset to do it is unlocked at once.
Lock(c) ==
  /\ apc[c] = "lock"
  /\ ~mu
  /\ mu' = SameWindow(c)
  /\ IF SameWindow(c)
     THEN Goto(c, "zeroTotal") /\ UNCHANGED now
     ELSE Goto(c, "add") /\ now' = [now EXCEPT ![c] = 0]
  /\ start' = [start EXCEPT ![c] = 0]
  /\ UNCHANGED <<counters, clock, share, verdict, granted>>

ZeroTotal(c) ==
  /\ apc[c] = "zeroTotal"
  /\ total' = 0
  /\ granted' = 0
  /\ Goto(c, "zeroRetries")
  /\ UNCHANGED <<retries, windowStart, mu, clock, locals>>

ZeroRetries(c) ==
  /\ apc[c] = "zeroRetries"
  /\ retries' = 0
  /\ Goto(c, "moveWindow")
  /\ UNCHANGED <<total, windowStart, mu, clock, locals, granted>>

\* Mutant: rb.mu is not unlocked after a reset.
MoveWindowLocked(c) ==
  /\ apc[c] = "moveWindow"
  /\ windowStart' = now[c]
  /\ now' = [now EXCEPT ![c] = 0]
  /\ Goto(c, "add")
  /\ UNCHANGED <<total, retries, mu, clock, start, share, verdict, granted>>

MoveWindow(c) ==
  /\ apc[c] = "moveWindow"
  /\ windowStart' = now[c]
  /\ now' = [now EXCEPT ![c] = 0]
  /\ mu' = FALSE
  /\ Goto(c, "add")
  /\ UNCHANGED <<total, retries, clock, start, share, verdict, granted>>

AddTotal(c) ==
  /\ apc[c] = "add"
  /\ total' = total + 1
  /\ Goto(c, "loadTotal")
  /\ UNCHANGED <<retries, windowStart, mu, clock, locals, granted>>

\* total <= 0: a reset came in between; allowed, and not counted.
LoadTotal(c) ==
  /\ apc[c] = "loadTotal"
  /\ IF total <= 0
     THEN Verdict(c, "yes")
     ELSE /\ share' = [share EXCEPT ![c] = total]
          /\ Goto(c, "loadRetries")
          /\ UNCHANGED <<verdict, granted>>
  /\ UNCHANGED <<counters, mu, clock, now, start>>

\* Mutant: the ratio is a quotient of integers, zero until every outcome was retried.
SpentTruncated(c) == (retries \div share[c]) * Den >= Num

\* ratio >= rb.budget
Spent(c) == retries * Den >= Num * share[c]

LoadRetries(c) ==
  /\ apc[c] = "loadRetries"
  /\ IF Spent(c)
     THEN Verdict(c, "no")
     ELSE Goto(c, "addRetry") /\ UNCHANGED <<share, verdict, granted>>
  /\ UNCHANGED <<counters, mu, clock, now, start>>

AddRetry(c) ==
  /\ apc[c] = "addRetry"
  /\ retries' = retries + 1
  /\ Verdict(c, "yes")
  /\ UNCHANGED <<total, windowStart, mu, clock, now, start>>

AllowStep(c) ==
  \/ Lock(c) \/ ZeroTotal(c) \/ ZeroRetries(c) \/ MoveWindow(c)
  \/ AddTotal(c) \/ LoadTotal(c) \/ LoadRetries(c) \/ AddRetry(c)

Tick ==
  /\ clock < MaxTime
  /\ clock' = clock + 1
  /\ UNCHANGED <<counters, mu, apc, locals, granted>>

-----------------------------------------------------------------------------
(* Properties *)

\* The types; the budget's mutex is held exactly by a caller that resets the window.
BudgetTypeOK ==
  /\ {total, retries, windowStart, clock, granted} \subseteq Nat
  /\ mu \in BOOLEAN
  /\ apc \in [Callers -> {"out", "lock", "zeroTotal", "zeroRetries", "moveWindow",
                          "add", "loadTotal", "loadRetries", "addRetry"}]
  /\ {now, start, share} \subseteq [Callers -> Nat]
  /\ verdict \in [Callers -> {"none", "yes", "no"}]
  /\ mu <=> \E c \in Callers : apc[c] \in {"zeroTotal", "zeroRetries", "moveWindow"}

\* A window is only reset when it has expired, however many callers have seen
\* it expire and wait for rb.mu; its start never goes back.
FreshWindowKept ==
  [][/\ windowStart' >= windowStart
     /\ (total' < total => clock - windowStart > Window)]_budgetVars
=============================================================================
