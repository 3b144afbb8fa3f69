--------------------------- MODULE CircuitBreaker ---------------------------
(***************************************************************************)
(* CircuitBreakerPolicy (circuit.go).  Callers run Execute concurrently.   *)
(* allowRequest reads the state under mu.RLock and, when it may change     *)
(* something, releases the lock and takes mu.Lock: other callers, and time,*)
(* run in between.  next(ctx, req) runs without the lock.  onSuccess and   *)
(* onFailure run under mu.Lock; nothing but local values lies between the  *)
(* return of next and that lock, so one action stands for both.            *)
(*                                                                         *)
(* Time: openAge counts ticks since openedAt and stops at OpenDuration,    *)
(* where time.Since(openedAt) >= OpenDuration; the zero openedAt of a      *)
(* closed breaker is infinitely old, so OpenDuration as well.              *)
(***************************************************************************)
EXTENDS Integers, FiniteSets

CONSTANTS Callers,           \* the goroutines that call Execute
          FailureThreshold,  \* CircuitConfig, after NewCircuitBreaker's defaults
          HalfOpenMaxReqs,
          OpenDuration,      \* in ticks
          MaxCalls,          \* bound: calls of Execute, of all callers together
          MayPanic           \* may next panic (the callers above recover it)

ASSUME CircuitAssumption ==
  /\ IsFiniteSet(Callers)
  /\ FailureThreshold \in Nat \ {0}
  /\ HalfOpenMaxReqs \in Nat \ {0}
  /\ OpenDuration \in Nat \ {0}
  /\ MaxCalls \in Nat
  /\ MayPanic \in BOOLEAN

VARIABLES state,       \* cb.state
          failures,    \* cb.failures
          generation,  \* cb.generation
          openAge,     \* time since cb.openedAt
          permits,     \* cb.halfOpenPermits
          inFlight,    \* cb.halfOpenInFlight
          pc,          \* where each caller is in Execute
          gen,         \* its genAtEntry
          admitGen,    \* auxiliary: the generation when it was admitted
          lostIn,      \* auxiliary: the generation whose outcome last panicked
          calls        \* calls of Execute begun, for MaxCalls

breaker == <<state, failures, generation, openAge, permits, inFlight>>
vars == <<state, failures, generation, openAge, permits, inFlight,
          pc, gen, admitGen, lostIn, calls>>

Closed == "closed"
Open == "open"
HalfOpen == "half-open"

Expired == openAge = OpenDuration

Init ==
  /\ state = Closed
  /\ failures = 0
  /\ generation = 0
  /\ openAge = OpenDuration
  /\ permits = 0
  /\ inFlight = 0
  /\ pc = [c \in Callers |-> "idle"]
  /\ gen = [c \in Callers |-> 0]
  /\ admitGen = [c \in Callers |-> 0]
  /\ lostIn = 0
  /\ calls = 0

-----------------------------------------------------------------------------
(* The caller's side of a step. *)

\* Caller c begins a call of Execute.
Begin(c) ==
  /\ pc[c] = "idle"
  /\ calls < MaxCalls
  /\ calls' = calls + 1
  /\ UNCHANGED lostIn

\* Caller c goes on to next(ctx, req) holding generation g.
Admitted(c, g) ==
  /\ pc' = [pc EXCEPT ![c] = "calling"]
  /\ gen' = [gen EXCEPT ![c] = g]
  /\ admitGen' = [admitGen EXCEPT ![c] = generation']

\* Caller c returns from Execute.
Finished(c) ==
  /\ pc' = [pc EXCEPT ![c] = "idle"]
  /\ gen' = [gen EXCEPT ![c] = 0]
  /\ admitGen' = [admitGen EXCEPT ![c] = 0]

\* Caller c has read g under RLock and goes to wait for mu.Lock.
Upgrading(c, lock, g) ==
  /\ pc' = [pc EXCEPT ![c] = lock]
  /\ gen' = [gen EXCEPT ![c] = g]
  /\ UNCHANGED admitGen

-----------------------------------------------------------------------------
(* allowRequest, the part under mu.RLock. *)

AdmitClosed(c) ==
  /\ Begin(c)
  /\ state = Closed
  /\ UNCHANGED breaker
  /\ Admitted(c, generation)

RejectOpen(c) ==
  /\ Begin(c)
  /\ state = Open
  /\ ~Expired
  /\ UNCHANGED breaker
  /\ Finished(c)

ReadExpired(c) ==
  /\ Begin(c)
  /\ state = Open
  /\ Expired
  /\ UNCHANGED breaker
  /\ Upgrading(c, "lockOpen", 0)

ReadPermit(c) ==
  /\ Begin(c)
  /\ state = HalfOpen
  /\ permits > 0
  /\ UNCHANGED breaker
  /\ Upgrading(c, "lockHalf", generation)

RejectHalfOpen(c) ==
  /\ Begin(c)
  /\ state = HalfOpen
  /\ permits = 0
  /\ UNCHANGED breaker
  /\ Finished(c)

-----------------------------------------------------------------------------
(* allowRequest, the parts under mu.Lock.                                  *)

MayEnterHalfOpen == state = Open /\ Expired

\* Mutant: the generation is loaded before the transition adds to it.
EnterHalfOpenEarlyGen(c) ==
  /\ pc[c] = "lockOpen"
  /\ MayEnterHalfOpen
  /\ state' = HalfOpen
  /\ generation' = generation + 1
  /\ permits' = HalfOpenMaxReqs - 1
  /\ inFlight' = 1
  /\ UNCHANGED <<failures, openAge, lostIn, calls>>
  /\ Admitted(c, generation)

\* Open -> half-open; HalfOpenMaxReqs > 0, so the caller takes a permit too.
EnterHalfOpen(c) ==
  /\ pc[c] = "lockOpen"
  /\ MayEnterHalfOpen
  /\ state' = HalfOpen
  /\ generation' = generation + 1
  /\ permits' = HalfOpenMaxReqs - 1
  /\ inFlight' = 1
  /\ UNCHANGED <<failures, openAge, lostIn, calls>>
  /\ Admitted(c, generation + 1)

\* Someone else changed the state since the read: whatever the state is now,
\* a permit is enough, and the generation is read here, under the lock.
TakePermitLate(c) ==
  /\ pc[c] = "lockOpen"
  /\ ~MayEnterHalfOpen
  /\ permits > 0
  /\ permits' = permits - 1
  /\ inFlight' = inFlight + 1
  /\ UNCHANGED <<state, failures, generation, openAge, lostIn, calls>>
  /\ Admitted(c, generation)

RejectLate(c) ==
  /\ pc[c] = "lockOpen"
  /\ ~MayEnterHalfOpen
  /\ permits = 0
  /\ UNCHANGED <<breaker, lostIn, calls>>
  /\ Finished(c)

\* Mutants: the permit, or everything, is not checked again under mu.Lock.
PermitUnchecked == state = HalfOpen
NothingRechecked == TRUE

PermitLeft == state = HalfOpen /\ permits > 0

\* The half-open branch: the generation is the one read under RLock.
TakePermit(c) ==
  /\ pc[c] = "lockHalf"
  /\ PermitLeft
  /\ permits' = permits - 1
  /\ inFlight' = inFlight + 1
  /\ UNCHANGED <<state, failures, generation, openAge, lostIn, calls>>
  /\ Admitted(c, gen[c])

RejectPermit(c) ==
  /\ pc[c] = "lockHalf"
  /\ ~PermitLeft
  /\ UNCHANGED <<breaker, lostIn, calls>>
  /\ Finished(c)

-----------------------------------------------------------------------------
(* onSuccess, onFailure: next has returned, the caller holds mu.Lock.      *)

\* Mutant: outcomes are not matched with the generation of their admission.
CountsAlways(c) == TRUE

Counts(c) == gen[c] = generation
Ignored(c) == ~Counts(c) \/ state = Open

\* Mutant: closing forgets to reset the failure count.
CloseKeepsCount ==
  /\ state' = Closed
  /\ generation' = generation + 1
  /\ openAge' = OpenDuration
  /\ permits' = 0
  /\ inFlight' = 0
  /\ UNCHANGED failures

Close ==
  /\ state' = Closed
  /\ failures' = 0
  /\ generation' = generation + 1
  /\ openAge' = OpenDuration
  /\ permits' = 0
  /\ inFlight' = 0

Reopen ==
  /\ state' = Open
  /\ generation' = generation + 1
  /\ openAge' = 0
  /\ permits' = 0
  /\ inFlight' = 0

OnSuccess(c) ==
  /\ pc[c] = "calling"
  /\ \/ Ignored(c) /\ UNCHANGED breaker
     \/ /\ Counts(c)
        /\ state = Closed
        /\ failures' = 0
        /\ UNCHANGED <<state, generation, openAge, permits, inFlight>>
     \/ Counts(c) /\ state = HalfOpen /\ Close
  /\ UNCHANGED <<lostIn, calls>>
  /\ Finished(c)

OnFailure(c) ==
  /\ pc[c] = "calling"
  /\ \/ Ignored(c) /\ UNCHANGED breaker
     \/ /\ Counts(c)
        /\ state = Closed
        /\ failures' = failures + 1
        /\ \/ failures' >= FailureThreshold /\ Reopen
           \/ /\ failures' < FailureThreshold
              /\ UNCHANGED <<state, generation, openAge, permits, inFlight>>
     \/ Counts(c) /\ state = HalfOpen /\ Reopen /\ UNCHANGED failures
  /\ UNCHANGED <<lostIn, calls>>
  /\ Finished(c)

\* next panics: Execute has no recover, so neither handler runs.
Panic(c) ==
  /\ MayPanic
  /\ pc[c] = "calling"
  /\ lostIn' = IF Counts(c) THEN generation ELSE lostIn
  /\ UNCHANGED <<breaker, calls>>
  /\ Finished(c)

-----------------------------------------------------------------------------
Tick ==
  /\ ~Expired
  /\ openAge' = openAge + 1
  /\ UNCHANGED <<state, failures, generation, permits, inFlight,
                 pc, gen, admitGen, lostIn, calls>>

\* MaxCalls calls have been made and have returned: the end of a bounded run.
Terminating ==
  /\ \A c \in Callers : pc[c] = "idle"
  /\ calls = MaxCalls
  /\ Expired
  /\ UNCHANGED vars

Upgrade(c) ==
  \/ EnterHalfOpen(c) \/ TakePermitLate(c) \/ RejectLate(c)
  \/ TakePermit(c) \/ RejectPermit(c)

Return(c) == OnSuccess(c) \/ OnFailure(c) \/ Panic(c)

Next ==
  \/ \E c \in Callers :
       \/ AdmitClosed(c) \/ RejectOpen(c) \/ ReadExpired(c)
       \/ ReadPermit(c) \/ RejectHalfOpen(c)
       \/ Upgrade(c) \/ Return(c)
  \/ Tick
  \/ Terminating

Spec == Init /\ [][Next]_vars

(* Goroutines are scheduled, next returns (http.Client.Do under the        *)
(* caller's or the Timeout policy's deadline), and time passes.            *)
FairSpec ==
  /\ Spec
  /\ \A c \in Callers : WF_vars(Upgrade(c)) /\ WF_vars(Return(c))
  /\ WF_vars(Tick)

-----------------------------------------------------------------------------
(* Properties *)

\* The types of the variables; the permits, unsigned in the code, never
\* underflow, although they are read under one lock and taken under another.
TypeOK ==
  /\ state \in {Closed, Open, HalfOpen}
  /\ failures \in Nat
  /\ generation \in Nat
  /\ openAge \in 0 .. OpenDuration
  /\ permits \in 0 .. HalfOpenMaxReqs
  /\ inFlight \in 0 .. HalfOpenMaxReqs
  /\ pc \in [Callers -> {"idle", "lockOpen", "lockHalf", "calling"}]
  /\ gen \in [Callers -> Nat]
  /\ admitGen \in [Callers -> Nat]
  /\ lostIn \in Nat
  /\ calls \in Nat

\* A closed breaker always tolerates at least one more failure: onFailure
\* trips at the threshold and nothing closes the breaker with an old count.
ClosedBelowThreshold == state = Closed => failures < FailureThreshold

\* Permits exist only in a half-open period, and every one of them is either
\* free or taken: no transition leaks permits into the next period.
PermitsConserved ==
  permits + inFlight = IF state = HalfOpen THEN HalfOpenMaxReqs ELSE 0

\* The calls in next that were admitted since the last change of state.
CurrentCalls == {c \in Callers : pc[c] = "calling" /\ admitGen[c] = generation}

\* A half-open period lets at most HalfOpenMaxReqs trials through, however
\* many callers wait for mu.Lock with a permit they saw under mu.RLock.
TrialsBounded ==
  state = HalfOpen => Cardinality(CurrentCalls) <= HalfOpenMaxReqs

\* The calls in next whose outcome the breaker will count.
Live == {c \in Callers : pc[c] = "calling" /\ gen[c] = generation}

\* Unless a trial of the period has panicked, a half-open breaker waits for one
\* that can still decide: no clock ends the period, so without such a trial it
\* would reject for ever.
HalfOpenHasLiveTrial == state = HalfOpen /\ lostIn # generation => Live # {}

\* allowRequest never lets a call through an open breaker, even when the
\* breaker opened between the caller's two locks.
NoAdmissionWhileOpen ==
  [][\A c \in Callers :
       pc[c] # "calling" /\ pc'[c] = "calling" => state' # Open]_vars

\* README: "stale probe protection".  The outcome of a call admitted before
\* the last change of state changes nothing.
StaleOutcomeIgnored ==
  [][\A c \in Callers :
       pc[c] = "calling" /\ pc'[c] = "idle" /\ admitGen[c] # generation
         => UNCHANGED breaker]_vars

\* An open breaker stays open for all of OpenDuration, although a caller may
\* have seen an earlier open period expire before it got mu.Lock.
OpenHoldsForDuration ==
  [][state = Open /\ state' # Open => Expired]_vars

\* FAQ: "If the trial fails, it goes back to open."  A trial that returns in
\* the half-open period that admitted it ends that period.
TrialDecides ==
  [][\A c \in Callers :
       /\ pc[c] = "calling" /\ pc'[c] = "idle"
       /\ state = HalfOpen /\ admitGen[c] = generation
       => state' # HalfOpen]_vars

\* A half-open breaker does not stay half-open, whatever became of trials with
\* a stale generation, unless one of its trials panics.
HalfOpenResolves == state = HalfOpen ~> (state # HalfOpen \/ lostIn = generation)

\* A caller's generation was read no later than its admission, and both in
\* the past: a generation never comes back.
GenerationsPast ==
  \A c \in Callers : /\ gen[c] <= generation
                     /\ admitGen[c] <= generation
                     /\ pc[c] = "calling" => gen[c] <= admitGen[c]

\* The permits taken bound the trials admitted in this half-open period, and
\* the caller that opened the period has one of them.
TrialsHoldPermits ==
  state = HalfOpen => inFlight > 0 /\ Cardinality(CurrentCalls) <= inFlight

\* An open breaker counts nobody's outcome.
OpenHasNoLive == state = Open => Live = {}

\* With a single permit, the caller that opens the half-open period takes it,
\* so no other caller is ever admitted with a generation read earlier.
SoleTrialFresh ==
  HalfOpenMaxReqs = 1 =>
    \A c \in Callers : pc[c] = "calling" => gen[c] = admitGen[c]

\* The inductive invariant: what the three locked sections of the code keep.
CircuitInv ==
  /\ TypeOK
  /\ ClosedBelowThreshold
  /\ PermitsConserved
  /\ GenerationsPast
  /\ TrialsHoldPermits
  /\ OpenHasNoLive
  /\ SoleTrialFresh
  /\ HalfOpenHasLiveTrial

Abstract == INSTANCE BreakerSpec WITH live <- Live

\* The lock upgrades, permits and generations implement the abstract breaker:
\* each outcome is counted at most once, in the state that admitted it.
ImplementsBreakerSpec == Abstract!ASpec
=============================================================================
