---------------------------- MODULE BreakerSpec ----------------------------
(***************************************************************************)
(* What the circuit breaker promises, without its lock, its generation     *)
(* counter or its permits: a set `live' of the calls whose outcome still   *)
(* counts.  A call is live from its admission to its return, unless the    *)
(* breaker changes state meanwhile: every change of state disowns the      *)
(* calls admitted before it.                                               *)
(***************************************************************************)
EXTENDS Naturals, FiniteSets

CONSTANTS Callers, FailureThreshold, HalfOpenMaxReqs, OpenDuration, MayPanic

VARIABLES state,     \* "closed", "open" or "half-open"
          failures,  \* consecutive failures counted while closed
          openAge,   \* ticks since the breaker opened, at most OpenDuration
          live       \* the callers whose outcome the breaker will count

avars == <<state, failures, openAge, live>>

Init ==
  /\ state = "closed"
  /\ failures = 0
  /\ openAge = OpenDuration
  /\ live = {}

\* While closed every call is admitted.
Admit(c) ==
  /\ state = "closed"
  /\ c \notin live
  /\ live' = live \union {c}
  /\ UNCHANGED <<state, failures, openAge>>

\* The first trial: only after the breaker has been open for OpenDuration.
FirstTrial(c) ==
  /\ state = "open"
  /\ openAge = OpenDuration
  /\ state' = "half-open"
  /\ live' = {c}
  /\ UNCHANGED <<failures, openAge>>

\* Further trials, never more than HalfOpenMaxReqs at once.
FurtherTrial(c) ==
  /\ state = "half-open"
  /\ c \notin live
  /\ Cardinality(live) < HalfOpenMaxReqs
  /\ live' = live \union {c}
  /\ UNCHANGED <<state, failures, openAge>>

\* A counted success resets the count, and closes a half-open breaker.
Succeed(c) ==
  /\ c \in live
  /\ failures' = 0
  /\ \/ /\ state = "closed"
        /\ live' = live \ {c}
        /\ UNCHANGED <<state, openAge>>
     \/ /\ state = "half-open"
        /\ state' = "closed"
        /\ openAge' = OpenDuration
        /\ live' = {}

\* A counted failure below the threshold.
Fail(c) ==
  /\ c \in live
  /\ state = "closed"
  /\ failures + 1 < FailureThreshold
  /\ failures' = failures + 1
  /\ live' = live \ {c}
  /\ UNCHANGED <<state, openAge>>

\* A counted failure that opens the breaker: the threshold, or a trial.
Trip(c) ==
  /\ c \in live
  /\ \/ /\ state = "closed"
        /\ failures + 1 >= FailureThreshold
        /\ failures' = failures + 1
     \/ /\ state = "half-open"
        /\ UNCHANGED failures
  /\ state' = "open"
  /\ openAge' = 0
  /\ live' = {}

\* A live call that ends without an outcome (its goroutine panicked).
Vanish(c) ==
  /\ MayPanic
  /\ c \in live
  /\ live' = live \ {c}
  /\ UNCHANGED <<state, failures, openAge>>

Tick ==
  /\ openAge < OpenDuration
  /\ openAge' = openAge + 1
  /\ UNCHANGED <<state, failures, live>>

Next ==
  \/ \E c \in Callers : \/ Admit(c) \/ FirstTrial(c) \/ FurtherTrial(c)
                        \/ Succeed(c) \/ Fail(c) \/ Trip(c) \/ Vanish(c)
  \/ Tick

ASpec == Init /\ [][Next]_avars
=============================================================================
