---------------------------- MODULE RateLimitSpec ----------------------------
(***************************************************************************)
(* What a rate limiter promises, without its channels, its ticker and its  *)
(* goroutine: a credit of at most Burst requests, and one that is still on *)
(* its way, which time adds to.  Each request that passes takes one, and   *)
(* none is refused that has not found the credit as good as used up nor,   *)
(* if callers may wait, before its own deadline.                           *)
(***************************************************************************)
EXTENDS Naturals

CONSTANTS Callers, Burst

VARIABLES kind,     \* "zero": no limit, "negative": nothing passes, "positive"
          patient,  \* may callers wait
          credit,   \* how many requests may pass now
          stage,    \* how far each caller is
          late      \* the callers whose deadlines have passed

avars == <<kind, patient, credit, stage, late>>

Enter(c, s) == stage' = [stage EXCEPT ![c] = s]

Init ==
  /\ kind \in {"zero", "negative", "positive"}
  /\ patient \in BOOLEAN
  /\ credit = IF kind = "positive" THEN Burst ELSE 0
  /\ stage = [c \in Callers |-> "idle"]
  /\ late = {}

\* Without a limit everything passes, below it nothing does.
Decide(c) ==
  /\ stage[c] = "idle"
  /\ \/ kind = "zero" /\ Enter(c, "passed")
     \/ kind = "negative" /\ Enter(c, "denied")
     \/ kind = "positive" /\ Enter(c, "asking")
  /\ UNCHANGED <<kind, patient, credit, late>>

Pass(c) ==
  /\ stage[c] \in {"asking", "short"}
  /\ credit > 0
  /\ credit' = credit - 1
  /\ Enter(c, "passed")
  /\ UNCHANGED <<kind, patient, late>>

\* c finds no credit, but perhaps the one that is on its way.
Miss(c) ==
  /\ stage[c] = "asking"
  /\ credit <= 1
  /\ Enter(c, "short")
  /\ UNCHANGED <<kind, patient, credit, late>>

\* It has waited and asks again.
Again(c) ==
  /\ patient
  /\ stage[c] = "short"
  /\ Enter(c, "asking")
  /\ UNCHANGED <<kind, patient, credit, late>>

Refuse(c) ==
  /\ stage[c] = "short"
  /\ patient => c \in late
  /\ Enter(c, "denied")
  /\ UNCHANGED <<kind, patient, credit, late>>

\* Its context ends while it waits.
GiveUp(c) ==
  /\ patient
  /\ stage[c] = "short"
  /\ Enter(c, "ctx")
  /\ UNCHANGED <<kind, patient, credit, late>>

Expire(c) ==
  /\ patient
  /\ stage[c] \in {"asking", "short"}
  /\ late' = late \cup {c}
  /\ UNCHANGED <<kind, patient, credit, stage>>

Earn ==
  /\ kind = "positive"
  /\ credit <= Burst
  /\ credit' = credit + 1
  /\ UNCHANGED <<kind, patient, stage, late>>

\* What the bucket has no room for is lost when it arrives.
Spill ==
  /\ credit > Burst
  /\ credit' = credit - 1
  /\ UNCHANGED <<kind, patient, stage, late>>

Next ==
  \/ \E c \in Callers : \/ Decide(c) \/ Pass(c) \/ Miss(c) \/ Again(c)
                        \/ Refuse(c) \/ GiveUp(c) \/ Expire(c)
  \/ Earn \/ Spill

ASpec == Init /\ [][Next]_avars
=============================================================================
