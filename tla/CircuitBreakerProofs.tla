------------------------ MODULE CircuitBreakerProofs ------------------------
(* Proofs about CircuitBreaker, for any number of callers, thresholds,     *)
(* permits and durations.                                                  *)
EXTENDS CircuitBreaker, FiniteSetTheorems, TLAPS

USE CircuitAssumption DEF Closed, Open, HalfOpen

\* Every step of a caller keeps the types of the caller's own variables.
LEMMA CallerTypes ==
  ASSUME TypeOK, NEW c \in Callers,
         \/ \E g \in Nat : generation' \in Nat /\ Admitted(c, g)
         \/ Finished(c)
         \/ \E g \in Nat, l \in {"lockOpen", "lockHalf"} : Upgrading(c, l, g)
  PROVE  /\ pc' \in [Callers -> {"idle", "lockOpen", "lockHalf", "calling"}]
         /\ gen' \in [Callers -> Nat]
         /\ admitGen' \in [Callers -> Nat]
  BY DEF TypeOK, Admitted, Finished, Upgrading

\* TypeOK is inductive only with PermitsConserved: a free permit implies that
\* inFlight is below HalfOpenMaxReqs.
LEMMA TypesAndPermits ==
  ASSUME TypeOK, PermitsConserved, [Next]_vars
  PROVE  TypeOK' /\ PermitsConserved'
<1> USE DEF breaker, Begin
<1>1. CASE \E c \in Callers : AdmitClosed(c)
  <2> PICK c \in Callers : AdmitClosed(c)  BY <1>1
  <2> QED  BY CallerTypes DEF AdmitClosed, TypeOK, PermitsConserved
<1>2. CASE \E c \in Callers : RejectOpen(c)
  <2> PICK c \in Callers : RejectOpen(c)  BY <1>2
  <2> QED  BY CallerTypes DEF RejectOpen, TypeOK, PermitsConserved
<1>3. CASE \E c \in Callers : ReadExpired(c)
  <2> PICK c \in Callers : ReadExpired(c)  BY <1>3
  <2> QED  BY CallerTypes DEF ReadExpired, TypeOK, PermitsConserved
<1>4. CASE \E c \in Callers : ReadPermit(c)
  <2> PICK c \in Callers : ReadPermit(c)  BY <1>4
  <2> QED  BY CallerTypes DEF ReadPermit, TypeOK, PermitsConserved
<1>5. CASE \E c \in Callers : RejectHalfOpen(c)
  <2> PICK c \in Callers : RejectHalfOpen(c)  BY <1>5
  <2> QED  BY CallerTypes DEF RejectHalfOpen, TypeOK, PermitsConserved
<1>6. CASE \E c \in Callers : EnterHalfOpen(c)
  <2> PICK c \in Callers : EnterHalfOpen(c)  BY <1>6
  <2> QED  BY CallerTypes DEF EnterHalfOpen, TypeOK, PermitsConserved
<1>7. CASE \E c \in Callers : TakePermitLate(c)
  <2> PICK c \in Callers : TakePermitLate(c)  BY <1>7
  <2> QED  BY CallerTypes DEF TakePermitLate, TypeOK, PermitsConserved
<1>8. CASE \E c \in Callers : RejectLate(c)
  <2> PICK c \in Callers : RejectLate(c)  BY <1>8
  <2> QED  BY CallerTypes DEF RejectLate, TypeOK, PermitsConserved
<1>9. CASE \E c \in Callers : TakePermit(c)
  <2> PICK c \in Callers : TakePermit(c)  BY <1>9
  <2>1. gen[c] \in Nat  BY DEF TypeOK
  <2> QED  BY <2>1, CallerTypes DEF TakePermit, PermitLeft, TypeOK, PermitsConserved
<1>10. CASE \E c \in Callers : RejectPermit(c)
  <2> PICK c \in Callers : RejectPermit(c)  BY <1>10
  <2> QED  BY CallerTypes DEF RejectPermit, TypeOK, PermitsConserved
<1>11. CASE \E c \in Callers : OnSuccess(c)
  <2> PICK c \in Callers : OnSuccess(c)  BY <1>11
  <2> QED  BY CallerTypes DEF OnSuccess, Close, TypeOK, PermitsConserved
<1>12. CASE \E c \in Callers : OnFailure(c)
  <2> PICK c \in Callers : OnFailure(c)  BY <1>12
  <2> QED  BY CallerTypes DEF OnFailure, Reopen, TypeOK, PermitsConserved
<1>13. CASE \E c \in Callers : Panic(c)
  <2> PICK c \in Callers : Panic(c)  BY <1>13
  <2> QED  BY CallerTypes DEF Panic, TypeOK, PermitsConserved
<1>14. CASE Tick
  BY <1>14 DEF Tick, Expired, TypeOK, PermitsConserved
<1>15. CASE UNCHANGED vars
  BY <1>15 DEF vars, TypeOK, PermitsConserved
<1> QED
  BY <1>1, <1>2, <1>3, <1>4, <1>5, <1>6, <1>7, <1>8, <1>9, <1>10, <1>11, <1>12,
     <1>13, <1>14, <1>15 DEF Next, Upgrade, Return, Terminating

\* The types hold in every reachable state: in particular the unsigned permit
\* counter of circuit.go never underflows, for any number of racing callers.
THEOREM TypeCorrect == Spec => [](TypeOK /\ PermitsConserved)
<1>1. Init => TypeOK /\ PermitsConserved
  BY DEF Init, TypeOK, PermitsConserved
<1>2. TypeOK /\ PermitsConserved /\ [Next]_vars => (TypeOK /\ PermitsConserved)'
  BY TypesAndPermits
<1> QED  BY <1>1, <1>2, PTL DEF Spec

-----------------------------------------------------------------------------
(* The inductive invariant. *)

\* The four ways allowRequest returns false: nothing shared changes.
Rejected(c) ==
  RejectOpen(c) \/ RejectHalfOpen(c) \/ RejectLate(c) \/ RejectPermit(c)

\* One step of the system, sorted by what it can disturb.
LEMMA Steps ==
  ASSUME [Next]_vars
  PROVE  \/ \E c \in Callers :
              \/ AdmitClosed(c) \/ Rejected(c) \/ ReadExpired(c) \/ ReadPermit(c)
              \/ EnterHalfOpen(c) \/ TakePermitLate(c) \/ TakePermit(c)
              \/ OnSuccess(c) \/ OnFailure(c) \/ Panic(c)
         \/ Tick
         \/ UNCHANGED vars
  BY DEF Next, Upgrade, Return, Rejected, Terminating

\* A rejection ends a call that was not in next, and touches nothing else.
LEMMA RejectedStep ==
  ASSUME NEW c \in Callers, Rejected(c)
  PROVE  pc[c] # "calling" /\ UNCHANGED breaker /\ Finished(c)
  BY DEF Rejected, RejectOpen, RejectHalfOpen, RejectLate, RejectPermit, Begin

\* The trials of a period are finitely many, and one admission adds at most one.
LEMMA CurrentCallsFinite == IsFiniteSet(CurrentCalls)
  BY FS_Subset DEF CurrentCalls

LEMMA OneMoreTrial ==
  ASSUME TypeOK, NEW c \in Callers, NEW g, Admitted(c, g), generation' = generation
  PROVE  /\ CurrentCalls' = CurrentCalls \union {c}
         /\ Cardinality(CurrentCalls') <= Cardinality(CurrentCalls) + 1
         /\ Cardinality(CurrentCalls) \in Nat
         /\ Cardinality(CurrentCalls') \in Nat
<1>1. CurrentCalls' = CurrentCalls \union {c}
  BY DEF CurrentCalls, Admitted, TypeOK
<1>2. Cardinality(CurrentCalls) \in Nat
  BY CurrentCallsFinite, FS_CardinalityType
<1>3. Cardinality(CurrentCalls \union {c}) =
        IF c \in CurrentCalls THEN Cardinality(CurrentCalls) ELSE Cardinality(CurrentCalls) + 1
  BY CurrentCallsFinite, FS_AddElement
<1> QED  BY <1>1, <1>2, <1>3

\* A call that ends takes no trial of this period in.
LEMMA NoMoreTrials ==
  ASSUME TypeOK, NEW c \in Callers, generation' = generation,
         \/ Finished(c)
         \/ \E g, l : l # "calling" /\ Upgrading(c, l, g)
  PROVE  /\ Cardinality(CurrentCalls') <= Cardinality(CurrentCalls)
         /\ Cardinality(CurrentCalls') \in Nat
         /\ Cardinality(CurrentCalls) \in Nat
<1>1. CurrentCalls' \subseteq CurrentCalls
  BY DEF CurrentCalls, Finished, Upgrading, TypeOK
<1>2. IsFiniteSet(CurrentCalls')
  BY <1>1, CurrentCallsFinite, FS_Subset
<1> QED  BY <1>1, <1>2, CurrentCallsFinite, FS_Subset, FS_CardinalityType

\* The caller that opens a half-open period is its only trial.
LEMMA FirstTrialAlone ==
  ASSUME TypeOK, GenerationsPast, NEW c \in Callers, EnterHalfOpen(c)
  PROVE  CurrentCalls' = {c} /\ Cardinality(CurrentCalls') = 1
<1>1. CurrentCalls' = {c}
  BY DEF CurrentCalls, EnterHalfOpen, Admitted, TypeOK, GenerationsPast
<1> QED  BY <1>1, FS_Singleton

\* No closed period starts with the count of an earlier one.
LEMMA ThresholdStep ==
  ASSUME TypeOK, ClosedBelowThreshold, [Next]_vars
  PROVE  ClosedBelowThreshold'
<1> USE DEF breaker, ClosedBelowThreshold
<1>1. CASE \E c \in Callers : OnSuccess(c)
  BY <1>1 DEF OnSuccess, Close, TypeOK
<1>2. CASE \E c \in Callers : OnFailure(c)
  BY <1>2 DEF OnFailure, Reopen, TypeOK
<1>3. CASE UNCHANGED <<state, failures>> \/ \E c \in Callers : EnterHalfOpen(c)
  BY <1>3 DEF EnterHalfOpen
<1> QED
  BY <1>1, <1>2, <1>3, Steps, RejectedStep
  DEF AdmitClosed, ReadExpired, ReadPermit, TakePermitLate, TakePermit, Panic, Tick, vars

\* Generations only grow, and a caller's is copied before or at admission.
LEMMA GenerationsStep ==
  ASSUME TypeOK, GenerationsPast, [Next]_vars
  PROVE  GenerationsPast'
<1> USE DEF breaker, GenerationsPast, TypeOK
<1>1. ASSUME NEW c \in Callers, AdmitClosed(c) \/ EnterHalfOpen(c) \/ TakePermitLate(c)
      PROVE  GenerationsPast'
  BY <1>1 DEF AdmitClosed, EnterHalfOpen, TakePermitLate, Admitted
<1>2. ASSUME NEW c \in Callers, TakePermit(c)
      PROVE  GenerationsPast'
  BY <1>2 DEF TakePermit, Admitted
<1>3. ASSUME NEW c \in Callers, ReadExpired(c) \/ ReadPermit(c)
      PROVE  GenerationsPast'
  BY <1>3 DEF ReadExpired, ReadPermit, Upgrading
<1>4. ASSUME NEW c \in Callers, Finished(c), generation' \in Nat, generation <= generation'
      PROVE  GenerationsPast'
  BY <1>4 DEF Finished
<1>5. ASSUME NEW c \in Callers, Rejected(c) \/ OnSuccess(c) \/ OnFailure(c) \/ Panic(c)
      PROVE  Finished(c) /\ generation' \in Nat /\ generation <= generation'
  BY <1>5, RejectedStep DEF OnSuccess, Close, OnFailure, Reopen, Panic
<1>6. CASE Tick \/ UNCHANGED vars
  BY <1>6 DEF Tick, vars
<1> QED  BY <1>1, <1>2, <1>3, <1>4, <1>5, <1>6, Steps

\* Whoever leaves next in a half-open period leaves it by a counted outcome,
\* or by a stale one that keeps the permit taken.
LEMMA TrialsStep ==
  ASSUME TypeOK, GenerationsPast, TrialsHoldPermits, [Next]_vars
  PROVE  TrialsHoldPermits'
<1> USE DEF breaker, TypeOK, TrialsHoldPermits
<1>1. ASSUME NEW c \in Callers, EnterHalfOpen(c)
      PROVE  TrialsHoldPermits'
  BY <1>1, FirstTrialAlone DEF EnterHalfOpen
<1>2. ASSUME NEW c \in Callers, TakePermitLate(c) \/ TakePermit(c)
      PROVE  TrialsHoldPermits'
  <2>1. PICK g : Admitted(c, g) /\ generation' = generation
    BY <1>2 DEF TakePermitLate, TakePermit
  <2>2. state' = state /\ inFlight' = inFlight + 1
    BY <1>2 DEF TakePermitLate, TakePermit
  <2> QED  BY <2>1, <2>2, OneMoreTrial
<1>3. ASSUME NEW c \in Callers,
             AdmitClosed(c) \/ state' # HalfOpen
      PROVE  TrialsHoldPermits'
  BY <1>3 DEF AdmitClosed
<1>4. ASSUME NEW c \in Callers, UNCHANGED breaker,
             \/ Finished(c)
             \/ \E g, l : l # "calling" /\ Upgrading(c, l, g)
      PROVE  TrialsHoldPermits'
  BY <1>4, NoMoreTrials
<1>5. ASSUME NEW c \in Callers, ReadExpired(c) \/ ReadPermit(c)
      PROVE  UNCHANGED breaker /\ \E g, l : l # "calling" /\ Upgrading(c, l, g)
  BY <1>5 DEF ReadExpired, ReadPermit
<1>6. ASSUME NEW c \in Callers, OnSuccess(c) \/ OnFailure(c) \/ Panic(c)
      PROVE  Finished(c) /\ (state' # HalfOpen \/ UNCHANGED breaker)
  BY <1>6 DEF OnSuccess, Close, OnFailure, Reopen, Panic, Ignored
<1>7. CASE Tick \/ UNCHANGED vars
  BY <1>7 DEF Tick, vars, CurrentCalls
<1> QED  BY <1>1, <1>2, <1>3, <1>4, <1>5, <1>6, <1>7, Steps, RejectedStep

\* A counted return ends the half-open period, an ignored one was not live,
\* and a live one that panics is remembered in lostIn.
LEMMA LiveTrialStep ==
  ASSUME TypeOK, HalfOpenHasLiveTrial, [Next]_vars
  PROVE  HalfOpenHasLiveTrial'
<1> USE DEF breaker, TypeOK, HalfOpenHasLiveTrial, Live
<1>1. ASSUME NEW c \in Callers, EnterHalfOpen(c)
      PROVE  HalfOpenHasLiveTrial'
  BY <1>1 DEF EnterHalfOpen, Admitted
<1>2. ASSUME NEW c \in Callers,
             AdmitClosed(c) \/ TakePermitLate(c) \/ TakePermit(c)
      PROVE  HalfOpenHasLiveTrial'
  <2>1. UNCHANGED <<state, generation, lostIn>>
    BY <1>2 DEF AdmitClosed, Begin, TakePermitLate, TakePermit
  <2>2. pc[c] # "calling" /\ \E g : Admitted(c, g)
    BY <1>2 DEF AdmitClosed, Begin, TakePermitLate, TakePermit
  <2>3. Live \subseteq Live'
    BY <2>1, <2>2 DEF Admitted
  <2> QED  BY <2>1, <2>3
<1>3. ASSUME NEW c \in Callers, UNCHANGED <<breaker, lostIn>>, c \notin Live,
             \/ Finished(c)
             \/ \E g, l : Upgrading(c, l, g)
      PROVE  HalfOpenHasLiveTrial'
  <2>1. Live \subseteq Live'
    BY <1>3 DEF Finished, Upgrading
  <2> QED  BY <1>3, <2>1
<1>4. ASSUME NEW c \in Callers, Rejected(c) \/ ReadExpired(c) \/ ReadPermit(c)
      PROVE  /\ UNCHANGED <<breaker, lostIn>> /\ c \notin Live
             /\ Finished(c) \/ \E g, l : Upgrading(c, l, g)
  BY <1>4 DEF ReadExpired, ReadPermit, Begin, Rejected, RejectOpen,
              RejectHalfOpen, RejectLate, RejectPermit
<1>5. ASSUME NEW c \in Callers, OnSuccess(c) \/ OnFailure(c)
      PROVE  \/ state' # HalfOpen
             \/ UNCHANGED <<breaker, lostIn>> /\ c \notin Live /\ Finished(c)
             \/ state # HalfOpen /\ state' = state
  BY <1>5 DEF OnSuccess, Close, OnFailure, Reopen, Ignored, Counts
<1>6. ASSUME NEW c \in Callers, Panic(c)
      PROVE  \/ lostIn' = generation'
             \/ UNCHANGED <<breaker, lostIn>> /\ c \notin Live /\ Finished(c)
  BY <1>6 DEF Panic, Counts
<1>7. CASE Tick \/ UNCHANGED vars
  BY <1>7 DEF Tick, vars
<1> QED  BY <1>1, <1>2, <1>3, <1>4, <1>5, <1>6, <1>7, Steps

\* Opening starts a new generation; nobody is admitted before the next one.
LEMMA OpenStep ==
  ASSUME TypeOK, PermitsConserved, GenerationsPast, OpenHasNoLive, [Next]_vars
  PROVE  OpenHasNoLive'
<1> USE DEF breaker, TypeOK, OpenHasNoLive, Live
<1>1. ASSUME NEW c \in Callers,
             AdmitClosed(c) \/ EnterHalfOpen(c) \/ TakePermitLate(c) \/ TakePermit(c)
      PROVE  state' # Open
  BY <1>1 DEF AdmitClosed, EnterHalfOpen, TakePermitLate, TakePermit, PermitLeft,
              PermitsConserved
<1>2. ASSUME NEW c \in Callers, UNCHANGED breaker,
             \/ Finished(c)
             \/ \E g, l : l # "calling" /\ Upgrading(c, l, g)
      PROVE  OpenHasNoLive'
  BY <1>2 DEF Finished, Upgrading
<1>3. ASSUME NEW c \in Callers, ReadExpired(c) \/ ReadPermit(c)
      PROVE  UNCHANGED breaker /\ \E g, l : l # "calling" /\ Upgrading(c, l, g)
  BY <1>3 DEF ReadExpired, ReadPermit
<1>4. ASSUME NEW c \in Callers, OnFailure(c), Reopen
      PROVE  OpenHasNoLive'
  <2>1. generation' = generation + 1 /\ Finished(c)
    BY <1>4 DEF OnFailure, Reopen
  <2> QED  BY <2>1 DEF Finished, GenerationsPast
<1>5. ASSUME NEW c \in Callers, OnSuccess(c) \/ OnFailure(c) \/ Panic(c)
      PROVE  \/ state' # Open
             \/ UNCHANGED breaker /\ Finished(c)
             \/ OnFailure(c) /\ Reopen
  BY <1>5 DEF OnSuccess, Close, OnFailure, Panic, Ignored
<1>6. CASE Tick \/ UNCHANGED vars
  BY <1>6 DEF Tick, vars
<1> QED  BY <1>1, <1>2, <1>3, <1>4, <1>5, <1>6, Steps, RejectedStep

\* With one permit TakePermit is never enabled: the period's permit is gone.
LEMMA SoleTrialStep ==
  ASSUME TypeOK, PermitsConserved, TrialsHoldPermits, SoleTrialFresh, [Next]_vars
  PROVE  SoleTrialFresh'
<1> SUFFICES ASSUME HalfOpenMaxReqs = 1
             PROVE  (\A c \in Callers : pc[c] = "calling" => gen[c] = admitGen[c])'
  BY DEF SoleTrialFresh
<1> USE DEF breaker, TypeOK, SoleTrialFresh
<1>1. ASSUME NEW c \in Callers, TakePermit(c)
      PROVE  FALSE
  BY <1>1 DEF TakePermit, PermitLeft, PermitsConserved, TrialsHoldPermits
<1>2. ASSUME NEW c \in Callers,
             AdmitClosed(c) \/ EnterHalfOpen(c) \/ TakePermitLate(c)
      PROVE  Admitted(c, generation')
  BY <1>2 DEF AdmitClosed, EnterHalfOpen, TakePermitLate
<1>3. ASSUME NEW c \in Callers, ReadExpired(c) \/ ReadPermit(c)
      PROVE  \E g, l : l # "calling" /\ Upgrading(c, l, g)
  BY <1>3 DEF ReadExpired, ReadPermit
<1>4. ASSUME NEW c \in Callers, OnSuccess(c) \/ OnFailure(c) \/ Panic(c)
      PROVE  Finished(c)
  BY <1>4 DEF OnSuccess, OnFailure, Panic
<1>5. CASE Tick \/ UNCHANGED vars
  BY <1>5 DEF Tick, vars
<1> QED  BY <1>1, <1>2, <1>3, <1>4, <1>5, Steps, RejectedStep
         DEF Admitted, Upgrading, Finished

\* The inductive invariant of the three locked sections holds in every reachable
\* state; the properties below follow from it.
THEOREM CircuitInvariant == Spec => []CircuitInv
<1>1. Init => CircuitInv
  BY DEF Init, CircuitInv, TypeOK, ClosedBelowThreshold, PermitsConserved,
         GenerationsPast, TrialsHoldPermits, OpenHasNoLive, Live,
         SoleTrialFresh, HalfOpenHasLiveTrial
<1>2. CircuitInv /\ [Next]_vars => CircuitInv'
  BY TypesAndPermits, ThresholdStep, GenerationsStep, TrialsStep, LiveTrialStep,
     OpenStep, SoleTrialStep
  DEF CircuitInv
<1> QED  BY <1>1, <1>2, PTL DEF Spec

-----------------------------------------------------------------------------
(* The properties, from the invariant. *)

\* A closed breaker always has at least one failure left before it trips.
THEOREM ThresholdCorrect == Spec => []ClosedBelowThreshold
<1>1. CircuitInv => ClosedBelowThreshold
  BY DEF CircuitInv
<1> QED  BY <1>1, CircuitInvariant, PTL

\* At most HalfOpenMaxReqs trials of a half-open period are ever in flight.
THEOREM TrialsBoundedCorrect == Spec => []TrialsBounded
<1>1. CircuitInv => TrialsBounded
  <2>1. Cardinality(CurrentCalls) \in Nat
    BY CurrentCallsFinite, FS_CardinalityType
  <2> QED  BY <2>1 DEF CircuitInv, TypeOK, TrialsHoldPermits, TrialsBounded
<1> QED  BY <1>1, CircuitInvariant, PTL

\* Unless calls panic, a half-open breaker waits for a trial that can decide.
THEOREM LiveTrialCorrect == Spec => []HalfOpenHasLiveTrial
<1>1. CircuitInv => HalfOpenHasLiveTrial
  BY DEF CircuitInv
<1> QED  BY <1>1, CircuitInvariant, PTL

\* An outcome from before the last change of state changes nothing.
THEOREM StaleOutcomes == Spec => StaleOutcomeIgnored
<1> DEFINE Stale == \A c \in Callers :
             pc[c] = "calling" /\ pc'[c] = "idle" /\ admitGen[c] # generation
               => UNCHANGED breaker
<1>1. ASSUME CircuitInv, [Next]_vars  PROVE Stale
  <2> SUFFICES ASSUME NEW c \in Callers, pc[c] = "calling", pc'[c] = "idle",
                      admitGen[c] # generation
               PROVE  UNCHANGED breaker
    OBVIOUS
  <2> USE <1>1 DEF CircuitInv, TypeOK, breaker
  <2>1. ~Counts(c)
    BY DEF Counts, GenerationsPast
  <2>2. ASSUME NEW d \in Callers, OnSuccess(d) \/ OnFailure(d) \/ Panic(d)
        PROVE  UNCHANGED breaker
    <3>1. d = c
      BY <2>2 DEF OnSuccess, OnFailure, Panic, Finished
    <3> QED  BY <2>1, <2>2, <3>1 DEF OnSuccess, OnFailure, Panic
  <2>3. ASSUME NEW d \in Callers,
               \/ AdmitClosed(d) \/ ReadExpired(d) \/ ReadPermit(d)
               \/ EnterHalfOpen(d) \/ TakePermitLate(d) \/ TakePermit(d)
        PROVE  pc'[c] = "calling"
    BY <2>3 DEF AdmitClosed, ReadExpired, ReadPermit, EnterHalfOpen, TakePermitLate,
                TakePermit, Begin, Admitted, Upgrading
  <2>4. CASE Tick \/ UNCHANGED vars
    BY <2>4 DEF Tick, vars
  <2> QED  BY <1>1, <2>2, <2>3, <2>4, Steps, RejectedStep
<1> QED  BY <1>1, CircuitInvariant, PTL DEF Spec, StaleOutcomeIgnored

\* No step takes a call past an open breaker.
THEOREM NoAdmission == Spec => NoAdmissionWhileOpen
<1> DEFINE NoneAdmitted == \A c \in Callers :
             pc[c] # "calling" /\ pc'[c] = "calling" => state' # Open
<1>1. ASSUME CircuitInv, [Next]_vars  PROVE NoneAdmitted
  <2> USE <1>1 DEF CircuitInv, TypeOK
  <2>1. ASSUME NEW d \in Callers,
               AdmitClosed(d) \/ EnterHalfOpen(d) \/ TakePermitLate(d) \/ TakePermit(d)
        PROVE  state' # Open
    BY <2>1 DEF AdmitClosed, EnterHalfOpen, TakePermitLate, TakePermit, PermitLeft,
                PermitsConserved, breaker
  <2>2. ASSUME NEW d \in Callers,
               \/ Rejected(d) \/ ReadExpired(d) \/ ReadPermit(d)
               \/ OnSuccess(d) \/ OnFailure(d) \/ Panic(d)
        PROVE  NoneAdmitted
    BY <2>2, RejectedStep DEF ReadExpired, ReadPermit, OnSuccess, OnFailure, Panic,
                              Finished, Upgrading
  <2>3. CASE Tick \/ UNCHANGED vars
    BY <2>3 DEF Tick, vars
  <2> QED  BY <1>1, <2>1, <2>2, <2>3, Steps
<1> QED  BY <1>1, CircuitInvariant, PTL DEF Spec, NoAdmissionWhileOpen

\* The breaker leaves the open state only when OpenDuration is over.
THEOREM OpenHolds == Spec => OpenHoldsForDuration
<1>1. ASSUME CircuitInv, [Next]_vars, state = Open, state' # Open  PROVE Expired
  <2> USE <1>1 DEF breaker
  <2>1. PICK c \in Callers : EnterHalfOpen(c)
    BY Steps, RejectedStep
    DEF AdmitClosed, ReadExpired, ReadPermit, TakePermitLate, TakePermit,
        OnSuccess, OnFailure, Ignored, Panic, Tick, vars
  <2> QED  BY <2>1 DEF EnterHalfOpen, MayEnterHalfOpen
<1> QED  BY <1>1, CircuitInvariant, PTL DEF Spec, OpenHoldsForDuration

\* With one permit, the default, every trial that returns in its half-open
\* period decides it.
THEOREM SoleTrialDecides ==
  ASSUME HalfOpenMaxReqs = 1, MayPanic = FALSE
  PROVE  Spec => TrialDecides
<1> DEFINE Decides == \A c \in Callers :
             /\ pc[c] = "calling" /\ pc'[c] = "idle"
             /\ state = HalfOpen /\ admitGen[c] = generation
             => state' # HalfOpen
<1>1. ASSUME CircuitInv, [Next]_vars  PROVE Decides
  <2> SUFFICES ASSUME NEW c \in Callers, pc[c] = "calling", pc'[c] = "idle",
                      state = HalfOpen, admitGen[c] = generation
               PROVE  state' # HalfOpen
    OBVIOUS
  <2> USE <1>1 DEF CircuitInv, TypeOK
  <2>1. Counts(c)
    BY DEF Counts, SoleTrialFresh
  <2>2. ASSUME NEW d \in Callers, OnSuccess(d) \/ OnFailure(d)
        PROVE  state' # HalfOpen
    <3>1. d = c
      BY <2>2 DEF OnSuccess, OnFailure, Finished
    <3> QED  BY <2>1, <2>2, <3>1 DEF OnSuccess, OnFailure, Close, Reopen, Ignored
  <2>3. ASSUME NEW d \in Callers,
               \/ AdmitClosed(d) \/ ReadExpired(d) \/ ReadPermit(d)
               \/ EnterHalfOpen(d) \/ TakePermitLate(d) \/ TakePermit(d)
        PROVE  pc'[c] = "calling"
    BY <2>3 DEF AdmitClosed, ReadExpired, ReadPermit, EnterHalfOpen, TakePermitLate,
                TakePermit, Begin, Admitted, Upgrading
  <2>4. ASSUME NEW d \in Callers, Rejected(d)
        PROVE  pc'[c] = "calling"
    BY <2>4, RejectedStep DEF Finished
  <2>5. CASE Tick \/ UNCHANGED vars
    BY <2>5 DEF Tick, vars
  <2>6. \A d \in Callers : ~Panic(d)
    BY DEF Panic
  <2> QED  BY <1>1, <2>2, <2>3, <2>4, <2>5, <2>6, Steps
<1> QED  BY <1>1, CircuitInvariant, PTL DEF Spec, TrialDecides

-----------------------------------------------------------------------------
(* CircuitBreaker implements BreakerSpec. *)

\* Only trials of this period are live, so a free permit is a free place.
LEMMA LiveTrialsBounded ==
  ASSUME CircuitInv, permits > 0
  PROVE  state = HalfOpen /\ Cardinality(Live) < HalfOpenMaxReqs
<1> USE DEF CircuitInv, TypeOK
<1>1. state = HalfOpen
  BY DEF PermitsConserved
<1>2. Live \subseteq CurrentCalls
  BY DEF Live, CurrentCalls, GenerationsPast
<1>3. Cardinality(Live) \in Nat /\ Cardinality(CurrentCalls) \in Nat
  BY <1>2, CurrentCallsFinite, FS_Subset, FS_CardinalityType
<1>4. Cardinality(Live) <= Cardinality(CurrentCalls)
  BY <1>2, CurrentCallsFinite, FS_Subset
<1> QED  BY <1>1, <1>3, <1>4 DEF TrialsHoldPermits, PermitsConserved

\* BreakerSpec's instance of FiniteSets counts as ours does.
LEMMA SameCardinality == ASSUME NEW S PROVE Abstract!Cardinality(S) = Cardinality(S)
  BY DEF Abstract!Cardinality, Cardinality

\* A step of a caller that is not live, and is not admitted, changes nothing
\* that BreakerSpec sees.
LEMMA Unseen ==
  ASSUME TypeOK, NEW c \in Callers, c \notin Live, UNCHANGED breaker,
         \/ Finished(c)
         \/ \E g, l : l # "calling" /\ Upgrading(c, l, g)
  PROVE  UNCHANGED <<state, failures, openAge, Live>>
  BY DEF TypeOK, Live, Finished, Upgrading, breaker

\* Admission makes a caller live exactly when its generation is current.
LEMMA AdmittedLive ==
  ASSUME TypeOK, NEW c \in Callers, NEW g \in Nat, pc[c] # "calling",
         Admitted(c, g), generation' = generation
  PROVE  /\ c \notin Live
         /\ Live' = IF g = generation THEN Live \union {c} ELSE Live
  BY DEF TypeOK, Live, Admitted

\* Every step of an admission is an abstract admission or invisible.
LEMMA AdmissionImplements ==
  ASSUME CircuitInv, NEW c \in Callers,
         AdmitClosed(c) \/ EnterHalfOpen(c) \/ TakePermitLate(c) \/ TakePermit(c)
  PROVE  [Abstract!Next]_(Abstract!avars)
<1> USE DEF CircuitInv, TypeOK, breaker
<1>1. CASE AdmitClosed(c)
  <2>1. Live' = Live \union {c} /\ c \notin Live
    BY <1>1, AdmittedLive DEF AdmitClosed, Begin
  <2>2. Abstract!Admit(c)
    BY <1>1, <2>1 DEF AdmitClosed, Abstract!Admit
  <2> QED  BY <2>2 DEF Abstract!Next
<1>2. CASE EnterHalfOpen(c)
  <2>1. Live' = {c}
    BY <1>2 DEF EnterHalfOpen, Admitted, Live, GenerationsPast
  <2>2. Abstract!FirstTrial(c)
    BY <1>2, <2>1 DEF EnterHalfOpen, MayEnterHalfOpen, Expired, Abstract!FirstTrial
  <2> QED  BY <2>2 DEF Abstract!Next
<1>3. CASE TakePermitLate(c)
  <2>1. Live' = Live \union {c} /\ c \notin Live
    BY <1>3, AdmittedLive DEF TakePermitLate
  <2>2. Abstract!FurtherTrial(c)
    BY <1>3, <2>1, LiveTrialsBounded, SameCardinality
    DEF TakePermitLate, Abstract!FurtherTrial
  <2> QED  BY <2>2 DEF Abstract!Next
<1>4. CASE TakePermit(c)
  <2>1. c \notin Live /\ Live' = IF Counts(c) THEN Live \union {c} ELSE Live
    BY <1>4, AdmittedLive DEF TakePermit, Counts
  <2>2. CASE Counts(c)
    <3>1. Abstract!FurtherTrial(c)
      BY <1>4, <2>1, <2>2, LiveTrialsBounded, SameCardinality
      DEF TakePermit, PermitLeft, Abstract!FurtherTrial
    <3> QED  BY <3>1 DEF Abstract!Next
  <2>3. CASE ~Counts(c)
    BY <1>4, <2>1, <2>3 DEF TakePermit, Abstract!avars
  <2> QED  BY <2>2, <2>3
<1> QED  BY <1>1, <1>2, <1>3, <1>4

\* Every return from next is a counted outcome of a live call, its loss in a
\* panic, or invisible.
LEMMA ReturnImplements ==
  ASSUME CircuitInv, NEW c \in Callers, OnSuccess(c) \/ OnFailure(c) \/ Panic(c)
  PROVE  [Abstract!Next]_(Abstract!avars)
<1> USE DEF CircuitInv, TypeOK, breaker
<1>1. pc[c] = "calling" /\ Finished(c)
  BY DEF OnSuccess, OnFailure, Panic
<1>2. Counts(c) <=> c \in Live
  BY <1>1 DEF Counts, Live
<1>3. Ignored(c) => c \notin Live
  BY <1>2 DEF Ignored, OpenHasNoLive
<1>4. ASSUME UNCHANGED breaker, c \notin Live
      PROVE  UNCHANGED Abstract!avars
  BY <1>1, <1>4, Unseen DEF Abstract!avars
<1>5. ASSUME generation' = generation
      PROVE  Live' = Live \ {c}
  BY <1>1, <1>5 DEF Live, Finished
<1>6. ASSUME generation' = generation + 1
      PROVE  Live' = {}
  BY <1>1, <1>6 DEF Live, Finished, GenerationsPast
<1>7. CASE OnSuccess(c) /\ ~Ignored(c)
  <2>1. c \in Live /\ Counts(c) /\ state # Open
    BY <1>2, <1>7 DEF Ignored
  <2>2. Abstract!Succeed(c)
    BY <1>5, <1>6, <1>7, <2>1 DEF OnSuccess, Close, Abstract!Succeed
  <2> QED  BY <2>2 DEF Abstract!Next
<1>8. CASE OnFailure(c) /\ ~Ignored(c)
  <2>1. c \in Live /\ Counts(c) /\ state # Open
    BY <1>2, <1>8 DEF Ignored
  <2>2. CASE Reopen
    <3>1. Abstract!Trip(c)
      BY <1>6, <1>8, <2>1, <2>2 DEF OnFailure, Reopen, Abstract!Trip
    <3> QED  BY <3>1 DEF Abstract!Next
  <2>3. CASE ~Reopen
    <3>1. Abstract!Fail(c)
      BY <1>5, <1>8, <2>1, <2>3 DEF OnFailure, Abstract!Fail
    <3> QED  BY <3>1 DEF Abstract!Next
  <2> QED  BY <2>2, <2>3
<1>9. CASE Ignored(c) /\ (OnSuccess(c) \/ OnFailure(c))
  <2>1. UNCHANGED breaker
    BY <1>9 DEF OnSuccess, OnFailure, Ignored
  <2> QED  BY <1>3, <1>4, <1>9, <2>1
<1>10. CASE Panic(c)
  <2>1. UNCHANGED breaker /\ MayPanic
    BY <1>10 DEF Panic
  <2>2. CASE c \notin Live
    BY <1>4, <2>1, <2>2
  <2>3. CASE c \in Live
    <3>1. Abstract!Vanish(c)
      BY <1>5, <2>1, <2>3 DEF Abstract!Vanish
    <3> QED  BY <3>1 DEF Abstract!Next
  <2> QED  BY <2>2, <2>3
<1> QED  BY <1>7, <1>8, <1>9, <1>10

\* The breaker of circuit.go, with its lock upgrades and stale generations,
\* implements the abstract breaker.
THEOREM Refinement == Spec => ImplementsBreakerSpec
<1>1. Init => Abstract!Init
  BY DEF Init, Live, Abstract!Init
<1>2. ASSUME CircuitInv, [Next]_vars
      PROVE  [Abstract!Next]_(Abstract!avars)
  <2> USE <1>2
  <2>1. ASSUME NEW c \in Callers, Rejected(c)
        PROVE  UNCHANGED Abstract!avars
    BY <2>1, RejectedStep, Unseen DEF CircuitInv, Live, Abstract!avars
  <2>2. ASSUME NEW c \in Callers, ReadExpired(c) \/ ReadPermit(c)
        PROVE  UNCHANGED Abstract!avars
    BY <2>2, Unseen
    DEF ReadExpired, ReadPermit, Begin, CircuitInv, Live, Abstract!avars
  <2>3. CASE Tick
    <3>1. Abstract!Tick
      BY <2>3 DEF Tick, Expired, Live, Abstract!Tick, CircuitInv, TypeOK
    <3> QED  BY <3>1 DEF Abstract!Next
  <2>4. CASE UNCHANGED vars
    BY <2>4 DEF vars, Live, Abstract!avars
  <2> QED  BY <2>1, <2>2, <2>3, <2>4, AdmissionImplements, ReturnImplements, Steps
<1> QED  BY <1>1, <1>2, CircuitInvariant, PTL
         DEF Spec, ImplementsBreakerSpec, Abstract!ASpec
=============================================================================
