------------------------------ MODULE Bulkhead ------------------------------
(***************************************************************************)
(* BulkheadPolicy (bulkhead.go): MaxConcurrent worker goroutines take      *)
(* requests from a channel and run them; Execute hands its request over    *)
(* and waits for the answer, its queue timeout or its context.             *)
(*                                                                         *)
(* A channel is a sequence of requests: its first QueueSize elements are   *)
(* in the buffer, the others are senders blocked in Go's FIFO of senders.  *)
(* A select with several ready cases takes any of them.  A worker that     *)
(* finds nothing ready parks, and a sender hands its request directly to a *)
(* parked worker.  Timers are not measured: a queue timeout may fire at    *)
(* any time while its caller waits, which includes the code's              *)
(* remaining <= 0 between the two waits.                                   *)
(***************************************************************************)
EXTENDS Integers, FiniteSets, SequencesExt

CONSTANTS Workers,    \* the MaxConcurrent worker goroutines
          Reqs,       \* the calls of Execute, each by a goroutine of its own
          HighReqs,   \* those whose context carries WithPriority
          NoReq,      \* no request
          Configs,    \* the BulkheadConfigs considered: MaxQueue and Priority
          MayCancel,  \* may a caller's context end
          MayClose    \* may Close be called

ASSUME BulkheadAssumption ==
  /\ IsFiniteSet(Workers) /\ Workers # {}
  /\ IsFiniteSet(Reqs) /\ HighReqs \subseteq Reqs /\ NoReq \notin Reqs
  /\ Configs \subseteq [maxQueue : Nat, priority : BOOLEAN]
  /\ {MayCancel, MayClose} \subseteq BOOLEAN

VARIABLES cfg,       \* b.cfg, never written
          line,      \* line[q]: buffer and blocked senders of channel q
          closed,    \* b.closed, and b.quit closed
          inFlight,  \* b.inFlight
          denied,    \* b.denied
          wpc,       \* where each worker is
          job,       \* its wr
          pc,        \* where each caller is in Execute
          outcome,   \* what Execute returned
          delivered, \* is a result in wr.resultCh
          started,   \* has a worker taken wr (and closed wr.dequeued)
          overtaken  \* auxiliary: the normal requests that each worker has taken
                     \* while it stood in highQ

workerVars == <<wpc, job, inFlight, started>>
callerVars == <<pc, outcome, denied>>
vars == <<cfg, line, closed, inFlight, denied, wpc, job, pc, outcome, delivered, started, overtaken>>

MaxQueue == cfg.maxQueue
Priority == cfg.priority

Queues == {"high", "normal"}

\* Mutant: the unbuffered channel of MaxQueue = 0 gets one place.
QueueSizeAtLeastOne == IF MaxQueue < 1 THEN 1 ELSE MaxQueue

QueueSize == MaxQueue

\* Only the queueing branch of Execute uses highQ.
Target(r) ==
  IF Priority /\ MaxQueue > 0 /\ r \in HighReqs THEN "high" ELSE "normal"

\* Mutant: the inner select of a priority worker watches the normal queue only.
WatchedNormal == {"normal"}

\* The channels of the select a worker parks in.
Watched == Queues

Init ==
  /\ cfg \in Configs
  /\ line = [q \in Queues |-> <<>>]
  /\ closed = FALSE
  /\ inFlight = 0
  /\ denied = 0
  /\ wpc = [w \in Workers |-> "look"]
  /\ job = [w \in Workers |-> NoReq]
  /\ pc = [r \in Reqs |-> "idle"]
  /\ outcome = [r \in Reqs |-> "none"]
  /\ delivered = [r \in Reqs |-> FALSE]
  /\ started = [r \in Reqs |-> FALSE]
  /\ overtaken = [r \in Reqs |-> [w \in Workers |-> 0]]

-----------------------------------------------------------------------------
(* Shared parts of the steps. *)

\* Worker w receives r, closes r's dequeued channel and enters next.  Whether
\* the caller sees the closed channel first is left to its select.
Start(w, r) ==
  /\ wpc' = [wpc EXCEPT ![w] = "run"]
  /\ job' = [job EXCEPT ![w] = r]
  /\ started' = [started EXCEPT ![r] = TRUE]
  /\ inFlight' = inFlight + 1
  /\ overtaken' = [h \in Reqs |->
       IF Target(r) = "normal" /\ Contains(line["high"], h)
       THEN [overtaken[h] EXCEPT ![w] = @ + 1]
       ELSE overtaken[h]]

Move(r, to) == pc' = [pc EXCEPT ![r] = to] /\ UNCHANGED <<outcome, denied>>

Answer(r, result, d) ==
  /\ pc' = [pc EXCEPT ![r] = "returned"]
  /\ outcome' = [outcome EXCEPT ![r] = result]
  /\ denied' = denied + d

ParkedOn(q) == {w \in Workers : wpc[w] = "parked" /\ ~closed /\ q \in Watched}

\* The caller is blocked in the send itself, at i: its request is not in the buffer.
BlockedAt(r, i) == i > QueueSize /\ line[Target(r)][i] = r

Blocked(r) == \E i \in 1 .. Len(line[Target(r)]) : BlockedAt(r, i)

\* After the send: MaxQueue = 0 goes on to the last select at once.
Sent == IF MaxQueue = 0 THEN "result" ELSE "queued"

-----------------------------------------------------------------------------
(* Execute. *)

\* b.closed.Load()
Call(r) ==
  /\ pc[r] = "idle"
  /\ IF closed THEN Answer(r, "closed", 0) ELSE Move(r, "send")
  /\ UNCHANGED <<line, cfg, closed, workerVars, delivered, overtaken>>

\* The send finds a worker waiting in its select.
HandOver(r, w) ==
  /\ pc[r] = "send"
  /\ w \in ParkedOn(Target(r))
  /\ Move(r, Sent)
  /\ Start(w, r)
  /\ UNCHANGED <<line, cfg, closed, delivered>>

\* The send goes into the buffer, or (MaxQueue > 0 only) blocks behind it.
Enqueue(r) ==
  /\ pc[r] = "send"
  /\ ParkedOn(Target(r)) = {}
  /\ MaxQueue > 0 \/ Len(line[Target(r)]) < QueueSize
  /\ line' = [line EXCEPT ![Target(r)] = Append(@, r)]
  /\ Move(r, Sent)
  /\ UNCHANGED <<cfg, closed, workerVars, delivered, overtaken>>

\* MaxQueue = 0: the select's default case.
FailFast(r) ==
  /\ pc[r] = "send"
  /\ MaxQueue = 0
  /\ ParkedOn(Target(r)) = {}
  /\ Len(line[Target(r)]) >= QueueSize
  /\ Answer(r, "full", 1)
  /\ UNCHANGED <<line, cfg, closed, workerVars, delivered, overtaken>>

\* <-wr.dequeued
SeeDequeued(r) ==
  /\ pc[r] = "queued"
  /\ started[r]
  /\ Move(r, "result")
  /\ UNCHANGED <<line, cfg, closed, workerVars, delivered, overtaken>>

\* Mutant: a sender that gives up leaves its request in the channel.
LeaveNothing(r) == UNCHANGED line

\* A sender that gives up leaves the channel; a request in the buffer stays.
LeaveLine(r) ==
  \/ ~Blocked(r) /\ UNCHANGED line
  \/ \E i \in 1 .. Len(line[Target(r)]) :
       BlockedAt(r, i) /\ line' = [line EXCEPT ![Target(r)] = RemoveAt(@, i)]

\* Mutant: only the send has a timeout, the wait for dequeued has none.
QueueTimeoutSendOnly(r) ==
  /\ pc[r] = "queued"
  /\ Blocked(r)
  /\ LeaveLine(r)
  /\ Answer(r, "full", 1)
  /\ UNCHANGED <<cfg, closed, workerVars, delivered, overtaken>>

\* Either time.After of the queueing branch, even with dequeued closed too.
QueueTimeout(r) ==
  /\ pc[r] = "queued"
  /\ LeaveLine(r)
  /\ Answer(r, "full", 1)
  /\ UNCHANGED <<cfg, closed, workerVars, delivered, overtaken>>

\* ctx ends, in any of the three selects of Execute.
CtxDone(r) ==
  /\ pc[r] \in {"queued", "result"} \/ (pc[r] = "send" /\ MaxQueue > 0)
  /\ MayCancel
  /\ LeaveLine(r)
  /\ Answer(r, "ctx", 1)
  /\ UNCHANGED <<cfg, closed, workerVars, delivered, overtaken>>

\* Mutant: the caller goes on as soon as its request is taken off the channel.
ReceiveStarted(r) ==
  /\ pc[r] = "result"
  /\ started[r]
  /\ delivered' = [delivered EXCEPT ![r] = FALSE]
  /\ Answer(r, "result", 0)
  /\ UNCHANGED <<line, cfg, closed, workerVars, overtaken>>

\* <-wr.resultCh
Receive(r) ==
  /\ pc[r] = "result"
  /\ delivered[r]
  /\ delivered' = [delivered EXCEPT ![r] = FALSE]
  /\ Answer(r, "result", 0)
  /\ UNCHANGED <<line, cfg, closed, workerVars, overtaken>>

-----------------------------------------------------------------------------
(* worker. *)

Take(w, q) ==
  /\ line[q] # <<>>
  /\ Start(w, Head(line[q]))
  /\ line' = [line EXCEPT ![q] = Tail(@)]
  /\ UNCHANGED <<cfg, closed, callerVars, delivered>>

Goto(w, to) ==
  /\ wpc' = [wpc EXCEPT ![w] = to]
  /\ UNCHANGED <<line, cfg, closed, inFlight, job, callerVars, delivered,
                 started, overtaken>>

\* Mutant: the outer select, which looks at highQ alone, is left out.
LookUnprioritised(w) ==
  /\ wpc[w] = "look"
  /\ Goto(w, "inner")

\* Priority: the outer select, whose default case is the inner one.
Look(w) ==
  /\ wpc[w] = "look"
  /\ Priority
  /\ \/ Take(w, "high")
     \/ line["high"] = <<>> /\ ~closed /\ Goto(w, "inner")

\* The select a worker can park in: the inner one, or the only one.
Select(w) ==
  /\ wpc[w] = IF Priority THEN "inner" ELSE "look"
  /\ \/ \E q \in Watched : Take(w, q)
     \/ (\A q \in Watched : line[q] = <<>>) /\ ~closed /\ Goto(w, "parked")

\* Mutant: a parked worker does not watch quit.
QuitUnlessParked(w) ==
  /\ closed
  /\ wpc[w] \in {"look", "inner"}
  /\ Goto(w, "exited")

\* <-b.quit, in whichever select the worker is
Quit(w) ==
  /\ closed
  /\ wpc[w] \in {"look", "inner", "parked"}
  /\ Goto(w, "exited")

\* Mutant: the decrement is skipped when next panics.
FinishLeaky(w) ==
  /\ wpc[w] = "run"
  /\ wpc' = [wpc EXCEPT ![w] = "deliver"]
  /\ inFlight' \in {inFlight, inFlight - 1}
  /\ UNCHANGED <<line, cfg, closed, job, callerVars, delivered, started, overtaken>>

\* next returns, or panics and is recovered.
Finish(w) ==
  /\ wpc[w] = "run"
  /\ wpc' = [wpc EXCEPT ![w] = "deliver"]
  /\ inFlight' = inFlight - 1
  /\ UNCHANGED <<line, cfg, closed, job, callerVars, delivered, started, overtaken>>

\* Mutant: resultCh has no buffer, so the send needs a caller that waits.
DeliverUnbuffered(w) ==
  /\ wpc[w] = "deliver"
  /\ pc[job[w]] = "result"
  /\ wpc' = [wpc EXCEPT ![w] = "look"]
  /\ job' = [job EXCEPT ![w] = NoReq]
  /\ delivered' = [delivered EXCEPT ![job[w]] = TRUE]
  /\ UNCHANGED <<line, cfg, closed, inFlight, callerVars, started, overtaken>>

\* The send to resultCh, whose buffer of one is free.
Deliver(w) ==
  /\ wpc[w] = "deliver"
  /\ wpc' = [wpc EXCEPT ![w] = "look"]
  /\ job' = [job EXCEPT ![w] = NoReq]
  /\ delivered' = [delivered EXCEPT ![job[w]] = TRUE]
  /\ UNCHANGED <<line, cfg, closed, inFlight, callerVars, started, overtaken>>

-----------------------------------------------------------------------------
Close ==
  /\ MayClose
  /\ ~closed
  /\ closed' = TRUE
  /\ UNCHANGED <<cfg, line, workerVars, callerVars, delivered, overtaken>>

\* All callers are answered and no worker has anything left to do.
Terminating ==
  /\ \A r \in Reqs : pc[r] = "returned"
  /\ \A w \in Workers : wpc[w] \in {"parked", "exited"}
  /\ UNCHANGED vars

Caller(r) ==
  \/ Enqueue(r) \/ FailFast(r) \/ (\E w \in Workers : HandOver(r, w))
  \/ SeeDequeued(r) \/ QueueTimeout(r) \/ Receive(r)

Worker(w) == Look(w) \/ Select(w) \/ Quit(w) \/ Finish(w) \/ Deliver(w)

Next ==
  \/ \E r \in Reqs : Call(r) \/ Caller(r) \/ CtxDone(r)
  \/ \E w \in Workers : Worker(w)
  \/ Close
  \/ Terminating

Spec == Init /\ [][Next]_vars

(* Goroutines are scheduled, timers fire and next returns.  No context has *)
(* to end.                                                                 *)
FairSpec ==
  /\ Spec
  /\ \A r \in Reqs : WF_vars(Caller(r))
  /\ \A w \in Workers : WF_vars(Worker(w))

-----------------------------------------------------------------------------
(* Properties *)

\* The types of the variables; the lengths of the channels follow from Reqs.
TypeOK ==
  /\ cfg \in Configs
  /\ line \in [Queues -> Seq(Reqs)]
  /\ closed \in BOOLEAN
  /\ inFlight \in 0 .. Cardinality(Workers)
  /\ denied \in 0 .. Cardinality(Reqs)
  /\ wpc \in [Workers -> {"look", "inner", "parked", "run", "deliver", "exited"}]
  /\ job \in [Workers -> Reqs \union {NoReq}]
  /\ pc \in [Reqs -> {"idle", "send", "queued", "result", "returned"}]
  /\ outcome \in [Reqs -> {"none", "result", "full", "ctx", "closed"}]
  /\ {delivered, started} \subseteq [Reqs -> BOOLEAN]
  /\ overtaken \in [Reqs -> [Workers -> Nat]]

\* InFlight() is the number of requests in next, whichever callers gave up
\* meanwhile and however next ended.
InFlightExact == inFlight = Cardinality({w \in Workers : wpc[w] = "run"})

\* No worker sleeps while a request stands in a channel (no lost wake-up).
NoIdleWhileQueued ==
  (~closed /\ \E w \in Workers : wpc[w] = "parked") => \A q \in Queues : line[q] = <<>>

\* The requests in channel q that nobody waits for: Execute has returned.
Abandoned(q) == {r \in Reqs : pc[r] = "returned" /\ Contains(line[q], r)}

\* Requests whose callers gave up never pile up beyond the buffer of their channel:
\* there they keep their place, but no sender stays behind it for them.
AbandonedBounded == \A q \in Queues : Cardinality(Abandoned(q)) <= QueueSize

\* "MaxQueue=0 for fail-fast mode": an admitted call is being run already,
\* it never waits for a worker.
FailFastNeverQueues ==
  MaxQueue = 0 => \A r \in Reqs : pc[r] = "result" => started[r]

\* A worker takes at most one normal request before a priority request that
\* waits: between its two selects it may not see it, but it looks again after.
BoundedOvertaking == \A r \in Reqs, w \in Workers : overtaken[r][w] <= 1

\* bulkhead_test.go: with MaxConcurrent=2 and MaxQueue=0 "First 2 should pass":
\* a fail-fast bulkhead denies only when every worker is busy with a request.
DeniedOnlyWhenBusy ==
  [][\A r \in Reqs : outcome'[r] = "full" /\ outcome[r] = "none" /\ MaxQueue = 0
       => \A w \in Workers : wpc[w] \in {"run", "deliver"}]_vars

\* What has become of r, whoever still waits for it.
Work(r) ==
  IF \E w \in Workers : wpc[w] = "run" /\ job[w] = r THEN "running"
  ELSE IF started[r] THEN "done"
  ELSE IF \E q \in Queues : Contains(line[q], r) THEN "waiting"
  ELSE "absent"

Abstract == INSTANCE BulkheadSpec WITH
  MaxConcurrent <- Cardinality(Workers),
  work <- [r \in Reqs |-> Work(r)],
  reply <- outcome

\* The workers and channels implement a bulkhead: no request runs twice, none is
\* started that was taken back or refused before it was let in, and a caller is
\* given a result only of a request that was run to its end.
ImplementsBulkheadSpec == Abstract!ASpec

\* Every Execute returns, whether its request is run, abandoned or stranded
\* by Close.
Returns == \A r \in Reqs : pc[r] = "send" ~> pc[r] = "returned"

\* A worker comes back for the next request even when the caller of this one
\* has given up and nobody will read the result.
WorkersComeBack == \A w \in Workers : wpc[w] = "run" ~> wpc[w] # "run" /\ wpc[w] # "deliver"

\* README: "Goroutine cleanup via client.Close()": every worker exits.
CloseStopsWorkers == closed ~> \A w \in Workers : wpc[w] = "exited"
=============================================================================
