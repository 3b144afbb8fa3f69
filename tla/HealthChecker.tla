---------------------------- MODULE HealthChecker ----------------------------
(***************************************************************************)
(* Client.HealthChecker (client.go), the goroutine that NewHealthChecker   *)
(* starts (health.go), and Client.Close, called up to MaxCloses times by   *)
(* another goroutine.  What the goroutine refreshes, and what getStatus    *)
(* reads, is left out; Close first closes the bulkheads and the rate       *)
(* limiters, which have modules of their own.                              *)
(***************************************************************************)
EXTENDS Chain

CONSTANT MaxCloses  \* bound

ASSUME HealthAssumption == MaxCloses \in Nat

VARIABLES checker,  \* HealthChecker: not called, made, and stored in c.hcRef
          loop,     \* the goroutine refreshMemStatsLoop
          stopCh,   \* is h.stopCh closed
          closer,   \* the goroutine that calls Close
          closes    \* how often it has called it

healthVars == <<checker, loop, stopCh, closer, closes>>

HealthInit ==
  /\ checker = "none"
  /\ loop = "none"
  /\ stopCh = FALSE
  /\ closer = "idle"
  /\ closes = 0

Watched == cfg.watch = "HealthChecker"

\* hcOnce.Do: NewHealthChecker starts the goroutine ...
NewHealthChecker ==
  /\ Watched /\ checker = "none"
  /\ checker' = "made"
  /\ loop' = "running"
  /\ UNCHANGED <<chainVars, stopCh, closer, closes>>

\* ... before c.hcRef is assigned, which no lock protects from Close.
SetRef ==
  /\ checker = "made"
  /\ checker' = "set"
  /\ UNCHANGED <<chainVars, loop, stopCh, closer, closes>>

CloseBegins ==
  /\ Watched /\ closer = "idle" /\ closes < MaxCloses
  /\ closer' = "closing"
  /\ closes' = closes + 1
  /\ UNCHANGED <<chainVars, checker, loop, stopCh>>

\* Mutant: Close does nothing for a health checker.
CloseLeavesIt ==
  /\ closer = "closing"
  /\ closer' = "idle"
  /\ UNCHANGED <<chainVars, checker, loop, stopCh, closes>>

\* if c.hcRef # nil, close(h.stopCh): a second close panics.
CloseChecker ==
  /\ closer = "closing"
  /\ closer' = IF checker = "set" /\ stopCh THEN "panicked" ELSE "idle"
  /\ stopCh' = (stopCh \/ checker = "set")
  /\ UNCHANGED <<chainVars, checker, loop, closes>>

\* The select of refreshMemStatsLoop takes the closed channel.
LoopStops ==
  /\ loop = "running" /\ stopCh
  /\ loop' = "ended"
  /\ UNCHANGED <<chainVars, checker, stopCh, closer, closes>>

HealthStep == NewHealthChecker \/ SetRef \/ CloseBegins \/ CloseChecker \/ LoopStops
=============================================================================
