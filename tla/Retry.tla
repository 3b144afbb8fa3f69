-------------------------------- MODULE Retry --------------------------------
(***************************************************************************)
(* RetryPolicy (retry.go) with a RetryBudget shared by its callers, as     *)
(* Client installs it.  Each caller runs Execute once: attempts of         *)
(* next(ctx, req), each judged by shouldRetry, which asks the budget, and  *)
(* a pause between two attempts, as long as Delays says.                   *)
(*                                                                         *)
(* The timer of a pause is not measured: it fires at any time.  held       *)
(* counts the response bodies that Execute has to close or to return.      *)
(***************************************************************************)
EXTENDS RetryBudget, Delays

CONSTANTS MaxRetries,  \* RetryConfig.MaxRetries
          Idempotent,  \* the callers whose method isIdempotent
          Configs,     \* the uses considered, see Config
          MayCancel    \* may a context end

\* The goroutines that call Execute, the backoff, whether there are a budget and a
\* ShouldRetry, and the Retry-After headers that responses have.
Config == [callers : SUBSET Callers, backoff : Backoff, budgeted : BOOLEAN, custom : BOOLEAN,
           headers : SUBSET Header]

ASSUME RetryAssumption ==
  /\ MaxRetries \in Nat
  /\ Idempotent \subseteq Callers
  /\ \A f \in Configs : /\ f.callers \subseteq Callers /\ f.backoff \in Backoff
                        /\ {f.budgeted, f.custom} \subseteq BOOLEAN
                        /\ \A h \in f.headers : h \in Header
  /\ MayCancel \in BOOLEAN

VARIABLES cfg,        \* the configuration, never changed
          pc,         \* where each caller is in Execute
          attempt,    \* its local attempt
          outcome,    \* resp and err of its last attempt
          held,       \* the response bodies it holds open
          cancelled,  \* has its ctx ended
          asked,      \* during a pause: the Retry-After header before it
          pause,      \* and delay
          resent      \* auxiliary: attempts after a first one, of all callers

delays == <<asked, pause>>
retryVars == <<cfg, pc, attempt, outcome, held, cancelled, delays, resent>>
vars == <<budgetVars, retryVars>>

Init ==
  /\ BudgetInit
  /\ cfg \in Configs
  /\ pc = [c \in Callers |-> "idle"]
  /\ attempt = [c \in Callers |-> 0]
  /\ outcome = [c \in Callers |-> "none"]
  /\ held = [c \in Callers |-> 0]
  /\ cancelled = [c \in Callers |-> FALSE]
  /\ asked = [c \in Callers |-> NoHeader]
  /\ pause = [c \in Callers |-> 0]
  /\ resent = 0

-----------------------------------------------------------------------------
Move(c, to) == pc' = [pc EXCEPT ![c] = to]

\* resp.Body.Close(), if there is a response.
CloseBody(c) == held' = [held EXCEPT ![c] = IF outcome[c] \in {"ok", "bad"} THEN @ - 1 ELSE @]

\* The request's body is read into memory; that may fail, or exceed MaxBodySize.
Start(c) ==
  /\ pc[c] = "idle"
  /\ Move(c, "next") \/ Move(c, "returned")
  /\ UNCHANGED <<budgetVars, cfg, attempt, outcome, held, cancelled, delays, resent>>

\* next returns: a response, one with a status to retry, an error, neither, or a
\* PermanentError, which is returned without asking the budget.
NextReturns(c) ==
  /\ pc[c] = "next"
  /\ \E o \in {"ok", "bad", "err", "nil", "perm"} :
       /\ outcome' = [outcome EXCEPT ![c] = o]
       /\ held' = [held EXCEPT ![c] = IF o \in {"ok", "bad"} THEN @ + 1 ELSE @]
       /\ IF o = "perm"
          THEN Move(c, "returned") /\ UNCHANGED budgetVars
          ELSE Move(c, "judge") /\ IF cfg.budgeted THEN Allow(c) ELSE UNCHANGED budgetVars
  /\ UNCHANGED <<cfg, attempt, cancelled, delays, resent>>

DefaultRule(c) == c \in Idempotent /\ outcome[c] \in {"bad", "err"}

\* Mutant: the budget's answer is not looked at.
VerdictsUnpaid(c) == IF cfg.custom THEN BOOLEAN ELSE {DefaultRule(c)}

\* What shouldRetry may return, once Allow, if there is a budget, has answered: a
\* ShouldRetry of the user says what it likes.
Verdicts(c) ==
  IF cfg.budgeted /\ verdict[c] # "yes" THEN {FALSE}
  ELSE IF cfg.custom THEN BOOLEAN ELSE {DefaultRule(c)}

Judged(c) == pc[c] = "judge" /\ apc[c] = "out"

\* The response, if any, is the caller's now.
ReturnLast(c) ==
  /\ Judged(c)
  /\ FALSE \in Verdicts(c)
  /\ Move(c, "returned")
  /\ CloseBody(c)
  /\ UNCHANGED <<budgetVars, cfg, attempt, outcome, cancelled, delays, resent>>

\* Mutant: the body of the last response stays open.
ExhaustedOpen(c) ==
  /\ Judged(c)
  /\ TRUE \in Verdicts(c)
  /\ attempt[c] = MaxRetries
  /\ Move(c, "returned")
  /\ UNCHANGED <<budgetVars, cfg, attempt, outcome, held, cancelled, delays, resent>>

\* The last attempt has failed: RequestError, and the body is closed.
Exhausted(c) ==
  /\ Judged(c)
  /\ TRUE \in Verdicts(c)
  /\ attempt[c] = MaxRetries
  /\ Move(c, "returned")
  /\ CloseBody(c)
  /\ UNCHANGED <<budgetVars, cfg, attempt, outcome, cancelled, delays, resent>>

HeadersOf(c) == IF outcome[c] = "bad" THEN cfg.headers \cup {NoHeader} ELSE {NoHeader}

\* nextDelay and the start of the timer.
BackOff(c) ==
  /\ Judged(c)
  /\ TRUE \in Verdicts(c)
  /\ attempt[c] < MaxRetries
  /\ Move(c, "backoff")
  /\ \E h \in HeadersOf(c) : \E d \in NextDelay(cfg.backoff, attempt[c], h) :
       /\ asked' = [asked EXCEPT ![c] = h]
       /\ pause' = [pause EXCEPT ![c] = d]
  /\ UNCHANGED <<budgetVars, cfg, attempt, outcome, held, cancelled, resent>>

\* The pause is over, and the variables that describe it mean nothing.
EndPause(c) ==
  /\ asked' = [asked EXCEPT ![c] = NoHeader]
  /\ pause' = [pause EXCEPT ![c] = 0]

\* The timer is ready; it may be chosen although ctx has ended too.
TimerFires(c) ==
  /\ pc[c] = "backoff"
  /\ Move(c, "next")
  /\ CloseBody(c)
  /\ attempt' = [attempt EXCEPT ![c] = @ + 1]
  /\ resent' = resent + 1
  /\ EndPause(c)
  /\ UNCHANGED <<budgetVars, cfg, outcome, cancelled>>

CtxDone(c) ==
  /\ pc[c] = "backoff"
  /\ cancelled[c]
  /\ Move(c, "returned")
  /\ CloseBody(c)
  /\ EndPause(c)
  /\ UNCHANGED <<budgetVars, cfg, attempt, outcome, cancelled, resent>>

\* ctx ends.  Execute looks at it in the pause only, so that an earlier end is
\* taken for one at the start of the pause.
Cancel(c) ==
  /\ MayCancel
  /\ pc[c] = "backoff"
  /\ ~cancelled[c]
  /\ cancelled' = [cancelled EXCEPT ![c] = TRUE]
  /\ UNCHANGED <<budgetVars, cfg, pc, attempt, outcome, held, delays, resent>>

Terminating ==
  /\ \A c \in cfg.callers : pc[c] = "returned"
  /\ UNCHANGED vars

Execute(c) ==
  \/ NextReturns(c) \/ ReturnLast(c) \/ Exhausted(c) \/ BackOff(c)
  \/ TimerFires(c) \/ CtxDone(c)
  \/ AllowStep(c) /\ UNCHANGED retryVars

Next ==
  \/ \E c \in cfg.callers : Start(c) \/ Execute(c) \/ Cancel(c)
  \/ Tick /\ UNCHANGED retryVars
  \/ Terminating

Spec == Init /\ [][Next]_vars

(* Goroutines are scheduled, next returns, timers fire and rb.mu is not      *)
(* withheld from a waiter for ever (Go's mutex hands itself over to a waiter *)
(* that has waited long: its starvation mode).                               *)
FairSpec == Spec /\ \A c \in Callers : SF_vars(Execute(c))

-----------------------------------------------------------------------------
(* Properties *)

\* The types of the variables; rb.mu is held exactly by the caller that resets.
TypeOK ==
  /\ BudgetTypeOK
  /\ pc \in [Callers -> {"idle", "next", "judge", "backoff", "returned"}]
  /\ attempt \in [Callers -> 0 .. MaxRetries]
  /\ outcome \in [Callers -> {"none", "ok", "bad", "err", "nil", "perm"}]
  /\ held \in [Callers -> {0, 1}]
  /\ cancelled \in [Callers -> BOOLEAN]
  /\ asked \in [Callers -> {NoHeader} \cup UNION {f.headers : f \in Configs}]
  /\ pause \in [Callers -> Int]
  /\ resent \in Nat

\* No response body stays open: neither while the next attempt runs, nor after
\* Execute, on whichever path it returned.
NoBodyLeft ==
  \A c \in Callers : pc[c] \in {"next", "returned"} => held[c] = 0

\* A pause is as long as the Retry-After header of the response asks for, up to
\* MaxBackoff and 365 days, whatever number or date it holds.  Without one, or with
\* one in the past, it is not negative and at most what the parameters of the
\* strategy itself allow, whatever overflows on the way, unless a Duration is too
\* small for those.
PauseHonoured ==
  \A c \in Callers : pc[c] = "backoff" =>
    IF Asked(asked[c]) > 0
    THEN pause[c] = Least(Asked(asked[c]), Longest)
    ELSE Representable(cfg.backoff) => pause[c] \in 0 .. Highest(cfg.backoff)

\* README: "max 10% retries".  Until the window moves, the retries sent exceed
\* the budgeted share of the outcomes by less than one per concurrent caller.
OvershootBounded ==
  cfg.budgeted /\ clock <= Window =>
    resent * Den < Num * total + Den * Cardinality(Callers)

\* The same of the counters in every window: the callers that come late from the
\* window before add no more.  A reset in progress stores them one by one and is
\* not looked at.
CountersBounded ==
  ~mu => retries * Den < Num * total + Den * Cardinality(Callers)

\* README: "max 10% retries", of what Allow grants and of every window.  It may be up
\* to one retry per caller more than the counters show: a reset forgets those that it
\* overtakes, all but the caller that resets.
GrantsBounded ==
  granted * Den < Num * total + Den * (2 * Cardinality(Callers) - 1)

\* Every Execute returns: rb.mu is always given back, and the attempts end.
Returns == \A c \in Callers : pc[c] = "next" ~> pc[c] = "returned"

\* FAQ: "ambatukam respects context cancellation and will not retry after ctx is
\* done."
NoRetryAfterDone ==
  [][\A c \in Callers : pc[c] = "backoff" /\ pc'[c] = "next" => ~cancelled[c]]_vars
=============================================================================
