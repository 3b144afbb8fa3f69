----------------------------- MODULE SharedCall -----------------------------
(***************************************************************************)
(* SingleflightPolicy (singleflight.go) as a layer of the chain: what the  *)
(* callers of one key share.  The life of an entry, with its eviction, and *)
(* what a panic of next does to it are the subject of module Singleflight; *)
(* here every call is young.                                               *)
(***************************************************************************)
EXTENDS Chain

VARIABLES calls,     \* sf.calls: the callers, at most one a key, that lead a call
          leaderOf,  \* whose call each caller has waited for; its own at first
          answer     \* c.val with c.bodyBytes, or c.err, once wg.Done was called

sharedVars == <<calls, leaderOf, answer>>

SharedInit ==
  /\ calls = {}
  /\ leaderOf = [c \in Callers |-> c]
  /\ answer = [c \in Callers |-> NoResp]

-----------------------------------------------------------------------------
LeadersOf(k) == {l \in calls : key[l] = k}

\* Its WaitGroup has gone below zero, and its entry stays.
Broken(l) == answer[l] = Panic /\ pc[l] # "again"

\* Under sf.mu: an entry for the key, or a new one.  Only who comes before wg.Done
\* is released by it.
Join(c) ==
  /\ At(c, "singleflight", "in")
  /\ \E l \in LeadersOf(key[c]) :
       /\ leaderOf' = [leaderOf EXCEPT ![c] = l]
       /\ Goto(c, IF answer[l] = NoResp THEN "wait" ELSE "late")
  /\ UNCHANGED <<context, at, resp, calls, answer>>

Lead(c) ==
  /\ At(c, "singleflight", "in")
  /\ LeadersOf(key[c]) = {}
  /\ calls' = calls \cup {c}
  /\ CallNext(c)
  /\ UNCHANGED <<context, leaderOf, answer>>

\* The bodyBytes that a response is copied with: none for a nil Body.
Buffered(c) == IF resp[c].body = "nil" THEN {"whole"} ELSE BodyRead(c)

\* io.ReadAll of a response's body, its error dropped, and wg.Done; or the wg.Done
\* of the recovered panic of next, whose text is c.err.
ShareAnswer(c) ==
  /\ At(c, "singleflight", "out")
  /\ \E b \in Buffered(c) :
       /\ resp' = [resp EXCEPT ![c].body = b]
       /\ answer' = [answer EXCEPT ![c] = resp'[c]]
  /\ Goto(c, IF Panicking(c) THEN "again" ELSE "delete")
  /\ UNCHANGED <<context, at, calls, leaderOf>>

\* The second wg.Done of that call panics.
DoneAgain(c) ==
  /\ pc[c] = "again"
  /\ Return(c, Panic)
  /\ UNCHANGED <<context, sharedVars>>

\* c.err, or a copy of *c.val, which panics without a response.
Copied(r) == CASE r = Panic -> Error("err") [] r = Nil -> Panic [] OTHER -> r

DeleteCall(c) ==
  /\ pc[c] = "delete"
  /\ calls' = calls \ {c}
  /\ Return(c, Copied(resp[c]))
  /\ UNCHANGED <<context, leaderOf, answer>>

\* wg.Wait returns; no context is looked at.
Wake(c) ==
  /\ pc[c] \in {"wait", "late"} /\ answer[leaderOf[c]] # NoResp /\ ~Broken(leaderOf[c])
  /\ Return(c, Copied(answer[leaderOf[c]]))
  /\ UNCHANGED <<context, sharedVars>>

\* A waiter released before finds the counter changed and panics; one that has
\* not called wg.Wait yet is late, and waits for ever.
WakeBroken(c) ==
  /\ pc[c] = "wait" /\ Broken(leaderOf[c])
  /\ \/ Return(c, Panic)
     \/ Goto(c, "late") /\ UNCHANGED <<at, resp>>
  /\ UNCHANGED <<context, sharedVars>>

SharedStep(c) ==
  \/ Join(c) \/ Lead(c) \/ ShareAnswer(c) \/ DoneAgain(c) \/ DeleteCall(c)
  \/ Wake(c) \/ WakeBroken(c)
=============================================================================
