---------------------------- MODULE BulkheadSpec ----------------------------
(***************************************************************************)
(* What a bulkhead promises, without its channels and goroutines.  A       *)
(* request and its answer go their own ways: a caller may be told that the *)
(* bulkhead is full, or that its context has ended, while its request      *)
(* waits, runs, or has run.  But no request runs twice, no more than       *)
(* MaxConcurrent run at once, and none is called a success that has not    *)
(* been run to its end.                                                    *)
(***************************************************************************)
EXTENDS Integers, FiniteSets

CONSTANTS Reqs, MaxConcurrent

VARIABLES work,  \* what has become of each request
          reply  \* what its caller was told

avars == <<work, reply>>

Running == {r \in Reqs : work[r] = "running"}

Becomes(r, w) == work' = [work EXCEPT ![r] = w]

Tell(r, answer) ==
  /\ reply[r] = "none"
  /\ reply' = [reply EXCEPT ![r] = answer]

Init ==
  /\ work = [r \in Reqs |-> "absent"]
  /\ reply = [r \in Reqs |-> "none"]

\* A request is let in while its caller waits for the answer.
Admit(r) ==
  /\ work[r] = "absent"
  /\ reply[r] = "none"
  /\ Becomes(r, "waiting")
  /\ UNCHANGED reply

\* It is started, once, when one of the MaxConcurrent places is free.  Its caller
\* may have gone, but not before the request was let in.
Run(r) ==
  /\ work[r] = "waiting" \/ (work[r] = "absent" /\ reply[r] = "none")
  /\ Cardinality(Running) < MaxConcurrent
  /\ Becomes(r, "running")
  /\ UNCHANGED reply

\* It returns or panics.
End(r) ==
  /\ work[r] = "running"
  /\ Becomes(r, "done")
  /\ UNCHANGED reply

Succeed(r) ==
  /\ work[r] = "done"
  /\ Tell(r, "result")
  /\ UNCHANGED work

\* Refused, or given up; a request that still waits may be taken back.
Refuse(r) ==
  /\ \E answer \in {"full", "ctx"} : Tell(r, answer)
  /\ UNCHANGED work \/ (work[r] = "waiting" /\ Becomes(r, "absent"))

\* A call that finds the bulkhead closed is not let in.
Shut(r) ==
  /\ work[r] = "absent"
  /\ Tell(r, "closed")
  /\ UNCHANGED work

Next == \E r \in Reqs : Admit(r) \/ Run(r) \/ End(r) \/ Succeed(r) \/ Refuse(r) \/ Shut(r)

ASpec == Init /\ [][Next]_avars
=============================================================================
