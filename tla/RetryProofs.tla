----------------------------- MODULE RetryProofs -----------------------------
(***************************************************************************)
(* Invariants of RetryPolicy with its RetryBudget, and their proofs.       *)
(***************************************************************************)
EXTENDS Retry, RetryBudgetProofs, DelaysProofs

\* A body is held exactly while it is judged and during the pause after it.
BodyHeld ==
  \A c \in Callers :
    held[c] = IF pc[c] \in {"judge", "backoff"} /\ outcome[c] \in {"ok", "bad"} THEN 1 ELSE 0

\* The inductive invariant of Execute: what a caller pauses for is a further attempt.
ExecuteInv ==
  /\ TypeOK
  /\ cfg \in Configs
  /\ BodyHeld
  /\ \A c \in Callers : pc[c] = "backoff" => attempt[c] < MaxRetries

\* The retries that the budget has counted and Execute has not sent yet.
Pending(c) ==
  \/ pc[c] = "judge" /\ apc[c] = "out" /\ verdict[c] = "yes"
  \/ pc[c] = "backoff"
PendingCallers == {c \in Callers : Pending(c)}

\* The inductive invariant of the retries sent: before the first window can have
\* expired, each of them, and each that is pending, is in the counter.
SentInv ==
  cfg.budgeted /\ clock <= Window =>
    /\ \A c \in Callers : apc[c] = "loadTotal" => total >= 1
    /\ resent + Cardinality(PendingCallers) <= retries

-----------------------------------------------------------------------------
(* Every step of Execute is one of the budget, or leaves the budget alone. *)

LEMMA CfgCallers == cfg \in Configs => cfg.callers \subseteq Callers
  BY RetryAssumption

LEMMA NextIsBudgetNext ==
  cfg \in Configs /\ [Next]_vars => [BudgetNext]_budgetVars
<1> SUFFICES ASSUME cfg \in Configs, [Next]_vars PROVE [BudgetNext]_budgetVars
  OBVIOUS
<1>1. CASE UNCHANGED vars \/ Terminating
  BY <1>1 DEF vars, Terminating
<1>2. CASE Tick /\ UNCHANGED retryVars
  BY <1>2 DEF BudgetNext
<1>3. ASSUME NEW c \in cfg.callers, Start(c) \/ Execute(c) \/ Cancel(c)
      PROVE  [BudgetNext]_budgetVars
  <2>1. c \in Callers
    BY CfgCallers
  <2>2. UNCHANGED budgetVars \/ Allow(c) \/ AllowStep(c)
    BY <1>3 DEF Start, Execute, Cancel, NextReturns, ReturnLast, Exhausted, BackOff,
                TimerFires, CtxDone
  <2> QED BY <2>1, <2>2 DEF BudgetNext
<1> QED BY <1>1, <1>2, <1>3 DEF Next

LEMMA CfgKept == cfg \in Configs /\ [Next]_vars => (cfg \in Configs)'
<1> SUFFICES ASSUME cfg \in Configs, [Next]_vars PROVE cfg' = cfg
  OBVIOUS
<1> QED
  BY DEF vars, retryVars, Next, Terminating, Start, Execute, Cancel, NextReturns, ReturnLast,
         Exhausted, BackOff, TimerFires, CtxDone

\* RetryPolicy uses its budget as BudgetSpec allows.
THEOREM UsesBudget == Spec => BudgetSpec /\ [](cfg \in Configs)
<1>1. Init => BudgetInit /\ cfg \in Configs
  BY DEF Init
<1>2. cfg \in Configs /\ [Next]_vars => (cfg \in Configs)'
  BY CfgKept
<1>3. cfg \in Configs /\ [Next]_vars => [BudgetNext]_budgetVars
  BY NextIsBudgetNext
<1> QED BY <1>1, <1>2, <1>3, PTL DEF Spec, BudgetSpec

-----------------------------------------------------------------------------
(* Execute. *)

LEMMA ExecuteInit == Init => ExecuteInv
<1> SUFFICES ASSUME Init PROVE ExecuteInv
  OBVIOUS
<1>1. BudgetTypeOK
  BY WindowInit DEF Init, WindowInv
<1>2. TypeOK
  BY <1>1, RetryAssumption DEF Init, TypeOK
<1>3. BodyHeld /\ cfg \in Configs /\ \A c \in Callers : pc[c] # "backoff"
  BY DEF Init, BodyHeld
<1> QED BY <1>2, <1>3 DEF ExecuteInv

\* The headers and delays that BackOff chooses from.
LEMMA PauseChosen ==
  ASSUME ExecuteInv, NEW c \in Callers,
         NEW h \in HeadersOf(c), NEW d \in NextDelay(cfg.backoff, attempt[c], h)
  PROVE  /\ h \in {NoHeader} \cup UNION {f.headers : f \in Configs}
         /\ d \in Int
         /\ IF Asked(h) > 0
            THEN d = Least(Asked(h), Longest)
            ELSE Representable(cfg.backoff) => d \in 0 .. Highest(cfg.backoff)
<1>1. cfg \in Configs /\ attempt[c] \in Nat
  BY RetryAssumption DEF ExecuteInv, TypeOK
<1>2. h \in cfg.headers \/ h = NoHeader
  BY DEF HeadersOf
<1>3. NoHeader \in Header
  BY DEF NoHeader, Header
<1>4. cfg.backoff \in Backoff /\ h \in Header
  BY <1>1, <1>2, <1>3, RetryAssumption
<1>5. /\ d \in Int
      /\ IF Asked(h) > 0
         THEN d = Least(Asked(h), Longest)
         ELSE Representable(cfg.backoff) => d \in 0 .. Highest(cfg.backoff)
  BY <1>1, <1>4, DelayHonoured
<1> QED BY <1>1, <1>2, <1>5

\* The invariant of Execute is kept by every step.
LEMMA ExecuteStep == ExecuteInv /\ BudgetTypeOK' /\ [Next]_vars => ExecuteInv'
<1> SUFFICES ASSUME ExecuteInv, BudgetTypeOK', [Next]_vars PROVE ExecuteInv'
  OBVIOUS
<1>0. cfg.callers \subseteq Callers
  BY CfgCallers DEF ExecuteInv
<1> USE RetryAssumption
<1> USE DEF ExecuteInv, TypeOK, BodyHeld
<1>1. CASE UNCHANGED retryVars
  BY <1>1 DEF retryVars, delays
<1>2. ASSUME NEW c \in Callers, Start(c) PROVE ExecuteInv'
  BY <1>2 DEF Start, Move, delays
<1>3. ASSUME NEW c \in Callers, NextReturns(c) PROVE ExecuteInv'
  BY <1>3 DEF NextReturns, Move, delays
<1>4. ASSUME NEW c \in Callers, ReturnLast(c) PROVE ExecuteInv'
  BY <1>4 DEF ReturnLast, Judged, Move, CloseBody, delays
<1>5. ASSUME NEW c \in Callers, Exhausted(c) PROVE ExecuteInv'
  BY <1>5 DEF Exhausted, Judged, Move, CloseBody, delays
<1>6. ASSUME NEW c \in Callers, BackOff(c) PROVE ExecuteInv'
  <2>1. PICK h \in HeadersOf(c) : \E d \in NextDelay(cfg.backoff, attempt[c], h) :
          /\ asked' = [asked EXCEPT ![c] = h]
          /\ pause' = [pause EXCEPT ![c] = d]
    BY <1>6 DEF BackOff
  <2>2. PICK d \in NextDelay(cfg.backoff, attempt[c], h) :
          /\ asked' = [asked EXCEPT ![c] = h]
          /\ pause' = [pause EXCEPT ![c] = d]
    BY <2>1
  <2>3. h \in {NoHeader} \cup UNION {f.headers : f \in Configs} /\ d \in Int
    BY PauseChosen
  <2> QED BY <1>6, <2>2, <2>3 DEF BackOff, Judged, Move
<1>7. ASSUME NEW c \in Callers, TimerFires(c) PROVE ExecuteInv'
  BY <1>7 DEF TimerFires, Move, CloseBody, EndPause
<1>8. ASSUME NEW c \in Callers, CtxDone(c) PROVE ExecuteInv'
  BY <1>8 DEF CtxDone, Move, CloseBody, EndPause
<1>9. ASSUME NEW c \in Callers, Cancel(c) PROVE ExecuteInv'
  BY <1>9 DEF Cancel, delays
<1> QED
  BY <1>0, <1>1, <1>2, <1>3, <1>4, <1>5, <1>6, <1>7, <1>8, <1>9
     DEF Next, Execute, Terminating, vars

\* Execute and its budget keep their invariants.
THEOREM ExecuteInvariant == Spec => [](WindowInv /\ ExecuteInv)
<1>1. Init => ExecuteInv
  BY ExecuteInit
<1>2. WindowInv => BudgetTypeOK
  BY DEF WindowInv
<1>3. ExecuteInv /\ BudgetTypeOK' /\ [Next]_vars => ExecuteInv'
  BY ExecuteStep
<1> QED BY <1>1, <1>2, <1>3, UsesBudget, WindowInvariant, PTL DEF Spec

\* The types, and that rb.mu is held exactly by the caller that resets.
THEOREM TypeCorrect == Spec => []TypeOK
<1>1. ExecuteInv => TypeOK
  BY DEF ExecuteInv
<1> QED BY <1>1, ExecuteInvariant, PTL

\* No response body stays open, on whichever path Execute goes on or returns.
THEOREM BodiesClosed == Spec => []NoBodyLeft
<1>1. ExecuteInv => NoBodyLeft
  BY DEF ExecuteInv, BodyHeld, NoBodyLeft
<1> QED BY <1>1, ExecuteInvariant, PTL

-----------------------------------------------------------------------------
(* The pauses. *)

\* A pause is chosen as DelayHonoured says, and stays as chosen.
LEMMA PauseStep ==
  WindowInv /\ ExecuteInv /\ PauseHonoured /\ [Next]_vars => PauseHonoured'
<1> SUFFICES ASSUME ExecuteInv, PauseHonoured, [Next]_vars,
                    NEW c \in Callers, pc'[c] = "backoff"
             PROVE  IF Asked(asked'[c]) > 0
                    THEN pause'[c] = Least(Asked(asked'[c]), Longest)
                    ELSE Representable(cfg'.backoff) => pause'[c] \in 0 .. Highest(cfg'.backoff)
  BY DEF PauseHonoured
<1>0. /\ cfg.callers \subseteq Callers
      /\ DOMAIN pc = Callers /\ DOMAIN asked = Callers /\ DOMAIN pause = Callers
  BY CfgCallers DEF ExecuteInv, TypeOK
<1>1. cfg' = cfg
  BY DEF vars, retryVars, Next, Terminating, Start, Execute, Cancel, NextReturns, ReturnLast,
         Exhausted, BackOff, TimerFires, CtxDone
<1>2. CASE BackOff(c)
  <2>1. PICK h \in HeadersOf(c) : \E d \in NextDelay(cfg.backoff, attempt[c], h) :
          asked' = [asked EXCEPT ![c] = h] /\ pause' = [pause EXCEPT ![c] = d]
    BY <1>2 DEF BackOff
  <2>2. PICK d \in NextDelay(cfg.backoff, attempt[c], h) :
          asked' = [asked EXCEPT ![c] = h] /\ pause' = [pause EXCEPT ![c] = d]
    BY <2>1
  <2>3. asked'[c] = h /\ pause'[c] = d
    BY <1>0, <2>2
  <2> QED BY <1>1, <2>3, PauseChosen
<1>3. CASE ~BackOff(c)
  <2> DEFINE Kept == pc[c] = "backoff" /\ asked'[c] = asked[c] /\ pause'[c] = pause[c]
  <2>1. ASSUME UNCHANGED retryVars PROVE Kept
    BY <2>1 DEF retryVars, delays
  <2>2. ASSUME NEW d \in Callers,
               Start(d) \/ NextReturns(d) \/ ReturnLast(d) \/ Exhausted(d) \/ Cancel(d)
        PROVE  Kept
    BY <1>0, <2>2 DEF Start, NextReturns, ReturnLast, Exhausted, Cancel, Move, delays
  <2>3. ASSUME NEW d \in Callers, BackOff(d) PROVE Kept
    <3>1. d # c /\ pc' = [pc EXCEPT ![d] = "backoff"]
      BY <1>3, <2>3 DEF BackOff, Move
    <3>2. PICK h : \E e :
            asked' = [asked EXCEPT ![d] = h] /\ pause' = [pause EXCEPT ![d] = e]
      BY <2>3 DEF BackOff
    <3> QED BY <1>0, <3>1, <3>2
  <2>4. ASSUME NEW d \in Callers, TimerFires(d) \/ CtxDone(d) PROVE Kept
    BY <1>0, <2>4 DEF TimerFires, CtxDone, Move, EndPause
  <2>5. Kept
    BY <1>0, <2>1, <2>2, <2>3, <2>4 DEF vars, Next, Execute, Terminating
  <2> QED BY <1>1, <2>5 DEF PauseHonoured
<1> QED BY <1>2, <1>3

\* Every pause honours the Retry-After header or, without one, what the parameters
\* of the strategy in use allow, for any strategy, attempts and headers.
THEOREM PausesCorrect == Spec => []PauseHonoured
<1>1. Init => PauseHonoured
  BY DEF Init, PauseHonoured
<1>2. WindowInv /\ ExecuteInv /\ PauseHonoured /\ [Next]_vars => PauseHonoured'
  BY PauseStep
<1> QED BY <1>1, <1>2, ExecuteInvariant, PTL DEF Spec

-----------------------------------------------------------------------------
(* The budget, as RetryPolicy uses it. *)

\* A window is only reset when it has expired, and its start never goes back.
THEOREM WindowsCorrect == Spec => FreshWindowKept
  BY UsesBudget, FreshWindow, PTL

\* Outside of a reset, the counters exceed the budgeted share by less than one
\* per caller.
THEOREM CountersCorrect == Spec => []CountersBounded
<1>1. WindowInv /\ CountersInv => CountersBounded
  <2> SUFFICES ASSUME WindowInv, CountersInv, ~mu
               PROVE  retries * Den < Num * total + Den * Cardinality(Callers)
    BY DEF CountersBounded
  <2>1. ~ \E c \in Callers : apc[c] = "zeroRetries"
    BY DEF WindowInv, BudgetTypeOK
  <2> QED BY <2>1, CountersWithin
<1> QED BY <1>1, UsesBudget, WindowInvariant, CountersInvariant, PTL

\* Before the first window can have expired, nobody resets it.
LEMMA NoResetYet ==
  ASSUME WindowInv, clock <= Window
  PROVE  \A c \in Callers : apc[c] # "lock" /\ ~Resetting(c)
<1> SUFFICES ASSUME NEW c \in Callers PROVE apc[c] # "lock" /\ ~Resetting(c)
  OBVIOUS
<1>1. {clock, windowStart, now[c], start[c]} \subseteq Nat
  BY DEF WindowInv, BudgetTypeOK
<1> QED BY <1>1, BudgetAssumption DEF WindowInv, ExpirySeen

\* A step with which no more attempts are sent or pending than are counted.
LEMMA SentKept ==
  ASSUME ExecuteInv, ExecuteInv', SentInv, clock' >= clock,
         cfg.budgeted, UNCHANGED cfg,
         clock <= Window => \A c \in Callers : apc'[c] = "loadTotal" => total' >= 1,
         clock <= Window =>
           resent' + Cardinality(PendingCallers') - retries'
             <= resent + Cardinality(PendingCallers) - retries
  PROVE  SentInv'
<1>1. /\ Cardinality(PendingCallers) \in Nat /\ Cardinality(PendingCallers') \in Nat
  BY CallersFinite DEF PendingCallers
<1>2. {clock, clock', resent, resent', retries, retries'} \subseteq Nat
  BY DEF ExecuteInv, TypeOK, BudgetTypeOK
<1> QED BY <1>1, <1>2, BudgetAssumption DEF SentInv

LEMMA SentStep == WindowInv /\ ExecuteInv /\ ExecuteInv' /\ SentInv /\ [Next]_vars => SentInv'
<1>a. ASSUME ExecuteInv, [Next]_vars PROVE cfg' = cfg
  BY <1>a DEF vars, retryVars, Next, Terminating, Start, Execute, Cancel, NextReturns, ReturnLast,
              Exhausted, BackOff, TimerFires, CtxDone
<1> SUFFICES ASSUME WindowInv, ExecuteInv, ExecuteInv', SentInv, [Next]_vars,
                    cfg.budgeted, cfg' = cfg
             PROVE SentInv'
  BY <1>a DEF SentInv
<1>0. cfg.callers \subseteq Callers
  BY CfgCallers DEF ExecuteInv
<1>1. /\ {clock, total, retries, resent} \subseteq Nat
      /\ DOMAIN pc = Callers /\ DOMAIN apc = Callers /\ DOMAIN verdict = Callers
  BY DEF ExecuteInv, TypeOK, BudgetTypeOK
<1>2. /\ PendingCallers \in SUBSET Callers
      /\ Cardinality(PendingCallers) \in Nat
      /\ \A T \in SUBSET PendingCallers :
           Cardinality(T) \in Nat /\ Cardinality(T) <= Cardinality(PendingCallers)
      /\ \A c \in PendingCallers : Cardinality(PendingCallers \ {c}) = Cardinality(PendingCallers) - 1
      /\ \A c \in Callers : Cardinality(PendingCallers \cup {c}) <= Cardinality(PendingCallers) + 1
  BY CallersFinite DEF PendingCallers
<1>3. clock <= Window =>
        /\ \A c \in Callers : apc[c] # "lock" /\ ~Resetting(c)
        /\ \A c \in Callers : apc[c] = "loadTotal" => total >= 1
  BY NoResetYet DEF SentInv
\* Steps that neither send nor count a retry.
<1>4. ASSUME clock' >= clock, UNCHANGED <<resent, retries>>,
             clock <= Window =>
               /\ PendingCallers' \subseteq PendingCallers
               /\ total' \in {total, total + 1}
               /\ \A c \in Callers : apc'[c] = "loadTotal" => apc[c] = "loadTotal" \/ total' = total + 1
      PROVE  SentInv'
  BY <1>1, <1>2, <1>3, <1>4, SentKept
<1>5. CASE UNCHANGED vars
  BY <1>1, <1>4, <1>5 DEF vars, budgetVars, retryVars, PendingCallers, Pending
<1>6. CASE Tick /\ UNCHANGED retryVars
  BY <1>1, <1>4, <1>6 DEF Tick, retryVars, counters, locals, PendingCallers, Pending
<1>7. ASSUME NEW c \in Callers,
             Start(c) \/ NextReturns(c) \/ ReturnLast(c) \/ Exhausted(c) \/ CtxDone(c) \/ Cancel(c)
      PROVE  SentInv'
  <2>1. CASE NextReturns(c) /\ ~UNCHANGED budgetVars
    <3>1. /\ pc[c] = "next" /\ UNCHANGED resent
          /\ pc' = [pc EXCEPT ![c] = "judge"] /\ Allow(c)
      BY <2>1 DEF NextReturns, Move
    <3>2. /\ UNCHANGED <<clock, retries, total, verdict>>
          /\ apc' = [apc EXCEPT ![c] = "lock"] \/ apc' = [apc EXCEPT ![c] = "add"]
      BY <3>1 DEF Allow, Goto, counters
    <3>3. PendingCallers' \subseteq PendingCallers
      BY <1>1, <3>1, <3>2 DEF PendingCallers, Pending
    <3>4. \A d \in Callers : apc'[d] = "loadTotal" => apc[d] = "loadTotal"
      BY <1>1, <3>2
    <3> QED BY <1>1, <1>4, <3>1, <3>2, <3>3, <3>4
  <2>2. CASE UNCHANGED budgetVars
    <3>1. UNCHANGED <<clock, retries, total, verdict, apc>>
      BY <2>2 DEF budgetVars, counters
    <3>2. PICK to \in {"next", "judge", "backoff", "returned"} :
            /\ pc' = [pc EXCEPT ![c] = to]
            /\ to = "backoff" => pc[c] = "backoff"
            /\ to # "judge"
      <4>1. CASE NextReturns(c)
        BY <2>2, <4>1, <1>1 DEF NextReturns, Move, Allow, Goto, budgetVars
      <4>2. CASE Start(c) \/ ReturnLast(c) \/ Exhausted(c) \/ CtxDone(c)
        BY <4>2 DEF Start, ReturnLast, Exhausted, CtxDone, Move
      <4>3. CASE Cancel(c)
        BY <1>1, <4>3 DEF Cancel, ExecuteInv, TypeOK
      <4> QED BY <1>7, <4>1, <4>2, <4>3
    <3>3. PendingCallers' \subseteq PendingCallers
      BY <1>1, <3>1, <3>2 DEF PendingCallers, Pending
    <3>4. UNCHANGED resent
      BY <1>7 DEF Start, NextReturns, ReturnLast, Exhausted, CtxDone, Cancel
    <3> QED BY <1>1, <1>4, <3>1, <3>3, <3>4
  <2>3. UNCHANGED budgetVars \/ NextReturns(c)
    BY <1>7 DEF Start, ReturnLast, Exhausted, CtxDone, Cancel
  <2> QED BY <2>1, <2>2, <2>3
\* The verdict of the budget becomes a pause, and the pause an attempt.
<1>8. ASSUME NEW c \in Callers, BackOff(c) PROVE SentInv'
  <2>1. verdict[c] = "yes" /\ pc[c] = "judge" /\ apc[c] = "out" /\ pc' = [pc EXCEPT ![c] = "backoff"]
        /\ UNCHANGED <<budgetVars, resent>>
    BY <1>8 DEF BackOff, Judged, Verdicts, Move
  <2>2. PendingCallers' \subseteq PendingCallers
    BY <1>1, <2>1 DEF PendingCallers, Pending, budgetVars
  <2> QED BY <1>1, <1>4, <2>1, <2>2 DEF budgetVars
<1>9. ASSUME NEW c \in Callers, TimerFires(c) PROVE SentInv'
  <2>1. c \in PendingCallers /\ resent' = resent + 1 /\ UNCHANGED budgetVars
    BY <1>9 DEF TimerFires, PendingCallers, Pending
  <2>2. PendingCallers' \subseteq PendingCallers \ {c}
    BY <1>1, <1>9 DEF TimerFires, Move, PendingCallers, Pending, budgetVars
  <2>3. /\ Cardinality(PendingCallers') \in Nat
        /\ Cardinality(PendingCallers') <= Cardinality(PendingCallers) - 1
    BY <1>2, <2>1, <2>2, CallersFinite
  <2>4. UNCHANGED <<clock, total, retries, apc>>
    BY <2>1 DEF budgetVars
  <2> QED BY <1>1, <1>2, <1>3, <2>1, <2>3, <2>4, SentKept
\* The budget's own steps.
<1>10. ASSUME NEW c \in Callers, UNCHANGED retryVars,
              \/ Lock(c) \/ ZeroTotal(c) \/ ZeroRetries(c) \/ MoveWindow(c)
       PROVE  SentInv'
  <2>1. clock' = clock /\ (apc[c] = "lock" \/ Resetting(c))
    BY <1>10 DEF Lock, ZeroTotal, ZeroRetries, MoveWindow, Resetting
  <2> QED BY <1>3, <2>1 DEF SentInv
<1>11. ASSUME NEW c \in Callers, AddTotal(c), UNCHANGED retryVars PROVE SentInv'
  <2>1. /\ UNCHANGED <<clock, resent, retries, verdict, pc>> /\ total' = total + 1
        /\ apc' = [apc EXCEPT ![c] = "loadTotal"]
    BY <1>11 DEF AddTotal, Goto, locals, retryVars
  <2>2. PendingCallers' \subseteq PendingCallers
    BY <1>1, <2>1 DEF PendingCallers, Pending
  <2> QED BY <1>1, <1>4, <2>1, <2>2
<1>12. ASSUME NEW c \in Callers, LoadTotal(c), UNCHANGED retryVars PROVE SentInv'
  <2>1. UNCHANGED <<clock, resent, retries, total, pc>> /\ apc[c] = "loadTotal"
    BY <1>12 DEF LoadTotal, retryVars, counters
  <2>2. CASE clock <= Window
    <3>1. ~(total <= 0)
      BY <1>1, <1>3, <2>1, <2>2
    <3>2. apc' = [apc EXCEPT ![c] = "loadRetries"] /\ verdict' = verdict
      BY <1>12, <3>1 DEF LoadTotal, Goto
    <3>3. PendingCallers' \subseteq PendingCallers
      BY <1>1, <2>1, <3>2 DEF PendingCallers, Pending
    <3>4. \A d \in Callers : apc'[d] = "loadTotal" => apc[d] = "loadTotal"
      BY <1>1, <3>2
    <3> QED BY <1>1, <1>4, <2>1, <3>3, <3>4
  <2>3. CASE ~(clock <= Window)
    BY <2>1, <2>3 DEF SentInv
  <2> QED BY <2>2, <2>3
<1>13. ASSUME NEW c \in Callers, LoadRetries(c), UNCHANGED retryVars PROVE SentInv'
  <2>1. /\ UNCHANGED <<clock, resent, retries, total, pc>> /\ apc[c] = "loadRetries"
        /\ \A d \in Callers : apc'[d] = "loadTotal" => apc[d] = "loadTotal"
    BY <1>1, <1>13 DEF LoadRetries, Verdict, Goto, retryVars, counters
  <2>2. PendingCallers' \subseteq PendingCallers
    BY <1>1, <1>13 DEF LoadRetries, Verdict, Goto, retryVars, PendingCallers, Pending
  <2> QED BY <1>1, <1>4, <2>1, <2>2
<1>14. ASSUME NEW c \in Callers, AddRetry(c), UNCHANGED retryVars PROVE SentInv'
  <2>1. /\ UNCHANGED <<clock, resent, total, pc>> /\ retries' = retries + 1
        /\ \A d \in Callers : apc'[d] = "loadTotal" => apc[d] = "loadTotal"
    BY <1>1, <1>14 DEF AddRetry, Verdict, Goto, retryVars
  <2>2. PendingCallers' \subseteq PendingCallers \cup {c}
    BY <1>1, <1>14 DEF AddRetry, Verdict, Goto, retryVars, PendingCallers, Pending
  <2>3. PendingCallers \cup {c} \in SUBSET Callers
    BY <1>2
  <2>4. Cardinality(PendingCallers') \in Nat
        /\ Cardinality(PendingCallers') <= Cardinality(PendingCallers \cup {c})
        /\ Cardinality(PendingCallers \cup {c}) \in Nat
    BY <2>2, <2>3, CallersFinite
  <2>5. Cardinality(PendingCallers \cup {c}) <= Cardinality(PendingCallers) + 1
    BY <1>2
  <2> QED BY <1>1, <1>2, <1>3, <2>1, <2>4, <2>5, SentKept
<1> QED
  BY <1>0, <1>5, <1>6, <1>7, <1>8, <1>9, <1>10, <1>11, <1>12, <1>13, <1>14
     DEF Next, Execute, AllowStep, Terminating

\* Until the first window can have expired, the retries sent exceed the budgeted
\* share of the outcomes by less than one per caller.
THEOREM OvershootCorrect == Spec => []OvershootBounded
<1>1. Init => SentInv
  <2> SUFFICES ASSUME Init PROVE SentInv
    OBVIOUS
  <2>1. PendingCallers = {} /\ resent = 0 /\ retries = 0 /\ \A c \in Callers : apc[c] = "out"
    BY DEF Init, BudgetInit, PendingCallers, Pending
  <2> QED BY <2>1, FS_EmptySet DEF SentInv
<1>2. WindowInv /\ ExecuteInv /\ ExecuteInv' /\ SentInv /\ [Next]_vars => SentInv'
  BY SentStep
<1>3. WindowInv /\ ExecuteInv /\ CountersInv /\ SentInv => OvershootBounded
  <2> SUFFICES ASSUME WindowInv, ExecuteInv, CountersInv, SentInv, cfg.budgeted, clock <= Window
               PROVE  resent * Den < Num * total + Den * Cardinality(Callers)
    BY DEF OvershootBounded
  <2>1. retries * Den < Num * total + Den * Cardinality(Callers)
    BY NoResetYet, CountersWithin DEF Resetting
  <2>2. Cardinality(PendingCallers) \in Nat /\ Cardinality(Callers) \in Nat
    BY CallersFinite DEF PendingCallers
  <2>3. {total, retries, resent} \subseteq Nat
    BY DEF ExecuteInv, TypeOK, BudgetTypeOK
  <2>4. resent <= retries
    BY <2>2, <2>3 DEF SentInv
  <2> QED BY <2>1, <2>2, <2>3, <2>4, RatioKept
<1> QED BY <1>1, <1>2, <1>3, UsesBudget, CountersInvariant, ExecuteInvariant, PTL DEF Spec

\* In every window, the retries that the budget grants exceed its share of the
\* outcomes by less than two per caller, of which a reset hides one.
THEOREM GrantsCorrect == Spec => []GrantsBounded
<1>1. WindowInv /\ CountersInv /\ GrantsInv => GrantsBounded
  BY GrantsWithin DEF GrantsBounded
<1> QED BY <1>1, UsesBudget, WindowInvariant, CountersInvariant, GrantsInvariant, PTL
=============================================================================
