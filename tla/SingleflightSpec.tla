-------------------------- MODULE SingleflightSpec --------------------------
(***************************************************************************)
(* What a singleflight promises, without its map, its lock and its         *)
(* WaitGroups: a caller either makes a call of its own or shares one of a  *)
(* request that it takes for its own, still under way, and then gets what  *)
(* that call returned.  A call starts beside another one like it only      *)
(* after some such call has grown old.  A panic of next reaches the caller *)
(* that made the call, and maybe those that share it; a call that returns  *)
(* neither a response nor an error takes them all down.                    *)
(***************************************************************************)
EXTENDS Naturals

CONSTANTS Callers, NoCall, Bodies, NoBody, Oversized, HasPayload

VARIABLES body,    \* the body of each caller's request
          stage,   \* how far its Execute is
          source,  \* whose call it gets its answer from
          outcome, \* what its own call returned
          old      \* has its call grown old

avars == <<body, stage, source, outcome, old>>

\* Their requests are taken for one: always without a payload, with one if the
\* bodies are equal, or neither is hashed, for its length or for want of a body.
Alike(c, d) ==
  HasPayload =>
    body[c] = body[d] \/ {body[c], body[d]} \subseteq Oversized \union {NoBody}

Enter(c, s) == stage' = [stage EXCEPT ![c] = s]

Init ==
  /\ body \in [Callers -> Bodies]
  /\ stage = [c \in Callers |-> "idle"]
  /\ source = [c \in Callers |-> NoCall]
  /\ outcome = [c \in Callers |-> "none"]
  /\ old = [c \in Callers |-> FALSE]

\* The body of its request cannot be read.
Reject(c) ==
  /\ stage[c] = "idle"
  /\ HasPayload /\ body[c] # NoBody
  /\ Enter(c, "failed")
  /\ UNCHANGED <<body, source, outcome, old>>

Call(c) ==
  /\ stage[c] = "idle"
  /\ \/ \A d \in Callers : stage[d] = "calling" => ~Alike(c, d)
     \/ \E d \in Callers : Alike(c, d) /\ old[d]
  /\ Enter(c, "calling")
  /\ source' = [source EXCEPT ![c] = c]
  /\ UNCHANGED <<body, outcome, old>>

\* A call that a panic ended can still be joined: nobody has removed it.
Share(c, d) ==
  /\ stage[c] = "idle"
  /\ Alike(c, d)
  /\ ~old[d]
  /\ stage[d] \in {"calling", "called"} \/ outcome[d] = "panic"
  /\ Enter(c, "sharing")
  /\ source' = [source EXCEPT ![c] = d]
  /\ UNCHANGED <<body, outcome, old>>

\* next returns or panics.
End(c) ==
  /\ stage[c] = "calling"
  /\ Enter(c, "called")
  /\ \E r \in {"ok", "err", "nil", "panic"} : outcome' = [outcome EXCEPT ![c] = r]
  /\ UNCHANGED <<body, source, old>>

\* Execute returns, to the caller that made the call and to those that share it.
Return(c) ==
  /\ \/ stage[c] = "called" /\ outcome[c] \notin {"nil", "panic"}
     \/ stage[c] = "sharing" /\ outcome[source[c]] \notin {"none", "nil"}
  /\ Enter(c, "returned")
  /\ UNCHANGED <<body, source, outcome, old>>

Crash(c) ==
  /\ stage[c] \in {"called", "sharing"}
  /\ outcome[source[c]] \in {"nil", "panic"}
  /\ Enter(c, "crashed")
  /\ UNCHANGED <<body, source, outcome, old>>

Age(c) ==
  /\ source[c] = c
  /\ old' = [old EXCEPT ![c] = TRUE]
  /\ UNCHANGED <<body, stage, source, outcome>>

Next ==
  \E c \in Callers :
    \/ Reject(c) \/ Call(c) \/ End(c) \/ Return(c) \/ Crash(c) \/ Age(c)
    \/ \E d \in Callers : Share(c, d)

ASpec == Init /\ [][Next]_avars
=============================================================================
