------------------------------ MODULE RateLimit ------------------------------
(***************************************************************************)
(* RateLimitPolicy (ratelimit.go): a channel of Burst tokens, filled by    *)
(* refillLoop at every tick of a time.Ticker, emptied by Execute.          *)
(*                                                                         *)
(* The ticker's channel holds one tick and drops those that do not fit.  A *)
(* token sent while callers are parked on the channel goes to the first of *)
(* them, not into the buffer.  Time is the ticks and, for each caller, its *)
(* deadline: ahead, due (not yet After, but the timer fires), then past.   *)
(***************************************************************************)
EXTENDS Integers, Sequences, FiniteSets

CONSTANTS Callers,    \* goroutines, one Execute each
          Burst,      \* RateLimitConfig.Burst, after NewRateLimit's default
          MaxTicks    \* bound: ticks of the ticker

ASSUME RateLimitAssumption ==
  /\ IsFiniteSet(Callers)
  /\ Burst \in Nat \ {0}
  /\ MaxTicks \in Nat

VARIABLES rate,      \* the sign of cfg.Rate, never written
          waits,     \* cfg.WaitTimeout > 0, never written
          tokens,    \* len(r.tokens)
          tick,      \* ticks in ticker.C
          loop,      \* refillLoop: "running" or "exited"
          closed,    \* r.closed, and r.stop closed
          parked,    \* the callers parked on r.tokens, first come first served
          pc,        \* where each caller is in Execute
          deadline,  \* where each caller's deadline is
          ticks,     \* ticks so far, for MaxTicks
          excess     \* auxiliary: see RateHolds

config == <<rate, waits>>
bucket == <<tokens, tick, loop, closed>>
vars == <<rate, waits, tokens, tick, loop, closed, parked, pc, deadline, ticks, excess>>

\* Mutant: the channel has room for one token more than it is filled with.
CapacityPlusOne == Burst + 1

Capacity == Burst

Init ==
  /\ rate \in {"zero", "negative", "positive"}
  /\ waits \in BOOLEAN
  /\ tokens = IF rate = "positive" THEN Burst ELSE 0
  /\ tick = 0
  /\ loop = IF rate = "positive" THEN "running" ELSE "exited"
  /\ closed = FALSE
  /\ parked = <<>>
  /\ pc = [c \in Callers |-> "idle"]
  /\ deadline = [c \in Callers |-> "ahead"]
  /\ ticks = 0
  /\ excess = 0

-----------------------------------------------------------------------------
(* Execute. *)

Goto(c, to) == pc' = [pc EXCEPT ![c] = to]

\* c goes on to next(ctx, req).
Pass(c) == Goto(c, "passed") /\ excess' = excess + 1

\* Rate = 0: no limit, no token.
Disabled(c) ==
  /\ pc[c] = "idle"
  /\ rate = "zero"
  /\ Goto(c, "passed")
  /\ UNCHANGED <<config, bucket, parked, deadline, ticks, excess>>

\* Rate < 0: no request passes.
DenyAll(c) ==
  /\ pc[c] = "idle"
  /\ rate = "negative"
  /\ Goto(c, "denied")
  /\ UNCHANGED <<config, bucket, parked, deadline, ticks, excess>>

Call(c) ==
  /\ pc[c] = "idle"
  /\ rate = "positive"
  /\ Goto(c, "try")
  /\ UNCHANGED <<config, bucket, parked, deadline, ticks, excess>>

\* The first select: a token, or default.
Try(c) ==
  /\ pc[c] = "try"
  /\ IF tokens > 0
     THEN Pass(c) /\ tokens' = tokens - 1
     ELSE Goto(c, "check") /\ UNCHANGED <<tokens, excess>>
  /\ UNCHANGED <<config, tick, loop, closed, parked, deadline, ticks>>

\* Mutant: a caller is denied at its deadline, and not only after it.
DenyWhenDue(c) ==
  /\ pc[c] = "check"
  /\ ~waits \/ deadline[c] # "ahead"
  /\ Goto(c, "denied")
  /\ UNCHANGED <<config, bucket, parked, deadline, ticks, excess>>

\* No wait allowed, or time.Now().After(deadline).
Deny(c) ==
  /\ pc[c] = "check"
  /\ ~waits \/ deadline[c] = "past"
  /\ Goto(c, "denied")
  /\ UNCHANGED <<config, bucket, parked, deadline, ticks, excess>>

\* The second select takes a token that has come, or the caller parks.  With
\* several cases ready it takes any: see TimerFirst and CtxFirst.
Wait(c) ==
  /\ pc[c] = "check"
  /\ waits
  /\ deadline[c] # "past"
  /\ IF tokens > 0
     THEN Pass(c) /\ tokens' = tokens - 1 /\ UNCHANGED parked
     ELSE /\ Goto(c, "parked")
          /\ parked' = Append(parked, c)
          /\ UNCHANGED <<tokens, excess>>
  /\ UNCHANGED <<config, tick, loop, closed, deadline, ticks>>

\* The second select with its timer due, whether or not a token has come.
TimerFirst(c) ==
  /\ pc[c] = "check"
  /\ waits
  /\ deadline[c] = "due"
  /\ Goto(c, "try")
  /\ UNCHANGED <<config, bucket, parked, deadline, ticks, excess>>

\* The second select with the context ended, whether or not a token has come.
CtxFirst(c) ==
  /\ pc[c] = "check"
  /\ waits
  /\ deadline[c] # "past"
  /\ Goto(c, "ctx")
  /\ UNCHANGED <<config, bucket, parked, deadline, ticks, excess>>

\* c leaves its place among the parked callers.
Leave(c) ==
  \E i \in 1 .. Len(parked) :
    /\ parked[i] = c
    /\ parked' = SubSeq(parked, 1, i - 1) \o SubSeq(parked, i + 1, Len(parked))

\* Mutant: a caller waits for a token, however long it takes.
TimeoutNever(c) == FALSE /\ UNCHANGED vars

\* time.After(remaining): the caller looks for a token once more.
Timeout(c) ==
  /\ pc[c] = "parked"
  /\ deadline[c] # "ahead"
  /\ Goto(c, "try")
  /\ Leave(c)
  /\ UNCHANGED <<config, bucket, deadline, ticks, excess>>

\* ctx.Done(): neither passed nor counted as denied.
CtxDone(c) ==
  /\ pc[c] = "parked"
  /\ Goto(c, "ctx")
  /\ Leave(c)
  /\ UNCHANGED <<config, bucket, deadline, ticks, excess>>

-----------------------------------------------------------------------------
(* refillLoop and time. *)

\* Mutant: tokens go to the buffer only, callers see them when they look again.
RefillUnsignalled ==
  /\ loop = "running"
  /\ tick > 0
  /\ tick' = tick - 1
  /\ tokens' = IF tokens < Capacity THEN tokens + 1 ELSE tokens
  /\ UNCHANGED <<config, loop, closed, parked, pc, deadline, ticks, excess>>

\* A tick is taken and a token sent: to the first parked caller, into the
\* buffer, or (the default case) nowhere.  Possible after Close too: a select
\* with r.stop and ticker.C both ready takes either.
Refill ==
  /\ loop = "running"
  /\ tick > 0
  /\ tick' = tick - 1
  /\ IF parked # <<>>
     THEN Pass(Head(parked)) /\ parked' = Tail(parked) /\ UNCHANGED tokens
     ELSE /\ tokens' = IF tokens < Capacity THEN tokens + 1 ELSE tokens
          /\ UNCHANGED <<parked, pc, excess>>
  /\ UNCHANGED <<config, loop, closed, deadline, ticks>>

Stop ==
  /\ loop = "running"
  /\ closed
  /\ loop' = "exited"
  /\ UNCHANGED <<config, tokens, tick, closed, parked, pc, deadline, ticks, excess>>

Close ==
  /\ rate = "positive"
  /\ ~closed
  /\ closed' = TRUE
  /\ UNCHANGED <<config, tokens, tick, loop, parked, pc, deadline, ticks, excess>>

\* The ticker ticks, unless its loop has stopped it.
Tick ==
  /\ loop = "running"
  /\ ticks < MaxTicks
  /\ ticks' = ticks + 1
  /\ tick' = 1
  /\ excess' = IF excess > 0 THEN excess - 1 ELSE 0
  /\ UNCHANGED <<config, tokens, loop, closed, parked, pc, deadline>>

\* Time reaches, then passes, the deadline of c.
TimePasses(c) ==
  /\ waits
  /\ pc[c] \in {"try", "check", "parked"}
  /\ deadline[c] # "past"
  /\ deadline' = [deadline EXCEPT ![c] = IF @ = "ahead" THEN "due" ELSE "past"]
  /\ UNCHANGED <<config, bucket, parked, pc, ticks, excess>>

\* Every caller has its answer; the loop may run on.
Terminating ==
  /\ \A c \in Callers : pc[c] \in {"passed", "denied", "ctx"}
  /\ UNCHANGED vars

Execute(c) == Try(c) \/ Deny(c) \/ Wait(c) \/ TimerFirst(c) \/ Timeout(c)

Next ==
  \/ \E c \in Callers : \/ Disabled(c) \/ DenyAll(c) \/ Call(c)
                        \/ Execute(c) \/ CtxFirst(c) \/ CtxDone(c)
                        \/ TimePasses(c)
  \/ Refill \/ Stop \/ Close \/ Tick
  \/ Terminating

Spec == Init /\ [][Next]_vars

(* Goroutines are scheduled and time passes; the ticks, Close and the end of *)
(* a context are not relied on.                                              *)
FairSpec ==
  /\ Spec
  /\ \A c \in Callers : WF_vars(Execute(c)) /\ WF_vars(TimePasses(c))

-----------------------------------------------------------------------------
(* Properties *)

\* The types of the variables; parked lists the callers in the second select.
TypeOK ==
  /\ rate \in {"zero", "negative", "positive"}
  /\ waits \in BOOLEAN
  /\ tokens \in 0 .. Burst
  /\ tick \in {0, 1}
  /\ loop \in {"running", "exited"}
  /\ closed \in BOOLEAN
  /\ parked \in Seq(Callers)
  /\ pc \in [Callers -> {"idle", "try", "check", "parked", "passed", "denied", "ctx"}]
  /\ deadline \in [Callers -> {"ahead", "due", "past"}]
  /\ ticks \in Nat
  /\ excess \in Nat

\* Rate and burst: between any two moments at most Burst requests pass, one per
\* tick between them, and one for a tick still in the ticker's channel.  excess
\* is the largest number of passes, less ticks, over all intervals up to now.
RateHolds == excess <= Burst + 1

\* No caller sleeps for a token while one is to be had (no lost wake-up).
NoIdleToken == tokens > 0 => parked = <<>>

\* How far Execute of c is, wherever it waits.
Stage(c) ==
  CASE pc[c] = "try" -> "asking"
    [] pc[c] \in {"check", "parked"} -> "short"
    [] OTHER -> pc[c]

Abstract == INSTANCE RateLimitSpec WITH
  kind <- rate,
  patient <- waits,
  credit <- tokens + tick,
  stage <- [c \in Callers |-> Stage(c)],
  late <- {c \in Callers : deadline[c] = "past"}

\* The two channels, the ticker and the parked callers implement a rate limiter:
\* each request that passes takes a token or a tick of its own, and only from
\* among those that still wait.
ImplementsRateLimitSpec == Abstract!ASpec

\* With WaitTimeout every caller gets an answer, also when Close has ended the
\* refills it waits for, or a token comes just as its timer fires.
Answered ==
  \A c \in Callers : pc[c] = "try" ~> pc[c] \in {"passed", "denied", "ctx"}

\* What may pass at once is what is left of the burst and of the last tick.
ExcessPaid == excess + tokens + tick <= Burst + 1

\* The inductive invariant.
RateInv == TypeOK /\ ExcessPaid /\ NoIdleToken
=============================================================================
