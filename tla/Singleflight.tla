---------------------------- MODULE Singleflight ----------------------------
(***************************************************************************)
(* SingleflightPolicy (singleflight.go): concurrent requests with one key  *)
(* share one call of next.  The map `calls' is guarded by sf.mu; a         *)
(* follower waits on its leader's WaitGroup outside the lock.  Each caller *)
(* runs Execute once, so a singleflightCall is named by its leader.        *)
(*                                                                         *)
(* All requests have one method and URL: others have keys of their own.    *)
(* The WaitGroup is sync's: Done below zero panics and leaves the counter  *)
(* at -1; Wait blocks on every other counter than 0; a woken waiter that   *)
(* finds the counter changed panics ("reused before ... has returned").    *)
(***************************************************************************)
EXTENDS Integers, FiniteSets

CONSTANTS Callers,    \* goroutines, one Execute each
          NoCall,     \* no call
          Bodies,     \* what requests may have as a body
          NoBody,     \* a request without one: req.Body is nil
          Oversized,  \* those longer than maxBodySize (none when it is 0)
          HasPayload, \* a method whose key has the body (not GET, HEAD, ...)
          MayFail,    \* may next return an error, or a body fail to be read
          MayBeNil,   \* may next return neither a response nor an error
          MayPanic,   \* may next panic
          MayExpire   \* may a call outlive singleflightTTL

ASSUME SingleflightAssumption ==
  /\ IsFiniteSet(Callers) /\ NoCall \notin Callers
  /\ Oversized \subseteq Bodies /\ NoBody \notin Oversized
  /\ {HasPayload, MayFail, MayBeNil, MayPanic, MayExpire} \subseteq BOOLEAN

VARIABLES calls,    \* sf.calls: key -> leader
          body,     \* the body of each caller's request
          pc,       \* where each caller is in Execute
          call,     \* the call it leads or waits for
          expired,  \* is this leader's call older than singleflightTTL
          wg,       \* the counter of this leader's WaitGroup
          result    \* val and err of this leader's call

vars == <<calls, body, pc, call, expired, wg, result>>

\* Mutant: buildKey leaves the body out.
BaseKey(b) == {}

\* The bodies that a payload method has no hash of.
Unhashed == Oversized \union {NoBody}

\* buildKey: what the key has besides method and URL, the hash of the body for
\* payload methods with one within the limit.
Key(b) == IF HasPayload /\ b \notin Unhashed THEN {b} ELSE {}

Keys == {{}} \union {{b} : b \in Bodies}

Init ==
  /\ calls = [k \in Keys |-> NoCall]
  /\ body \in [Callers -> Bodies]
  /\ pc = [c \in Callers |-> "idle"]
  /\ call = [c \in Callers |-> NoCall]
  /\ expired = [c \in Callers |-> FALSE]
  /\ wg = [c \in Callers |-> 0]
  /\ result = [c \in Callers |-> "none"]

-----------------------------------------------------------------------------
KeyOf(c) == Key(body[c])
Entry(c) == calls[KeyOf(c)]

\* The entry that c finds under the lock and may join.
Joinable(c) == Entry(c) # NoCall /\ ~expired[Entry(c)]

Goto(c, to) == pc' = [pc EXCEPT ![c] = to]

\* buildKey cannot read the body of the request: Execute returns the error.
KeyFails(c) ==
  /\ MayFail /\ HasPayload /\ body[c] # NoBody
  /\ pc[c] = "idle"
  /\ Goto(c, "failed")
  /\ UNCHANGED <<calls, body, call, expired, wg, result>>

\* c finds a call in flight and goes to wait for it.
Join(c) ==
  /\ pc[c] = "idle"
  /\ Joinable(c)
  /\ call' = [call EXCEPT ![c] = Entry(c)]
  /\ Goto(c, "wait")
  /\ UNCHANGED <<calls, body, expired, wg, result>>

\* Mutant: the lock is released between the lookup and the insertion, so a
\* caller may lead although a call has appeared meanwhile.
LeadUnlocked(c) ==
  /\ pc[c] = "idle"
  /\ calls' = [calls EXCEPT ![KeyOf(c)] = c]
  /\ call' = [call EXCEPT ![c] = c]
  /\ wg' = [wg EXCEPT ![c] = 1]
  /\ Goto(c, "next")
  /\ UNCHANGED <<body, expired, result>>

\* Mutant: wg.Add(1) is left out.
LeadWithoutAdd(c) ==
  /\ pc[c] = "idle"
  /\ ~Joinable(c)
  /\ calls' = [calls EXCEPT ![KeyOf(c)] = c]
  /\ call' = [call EXCEPT ![c] = c]
  /\ Goto(c, "next")
  /\ UNCHANGED <<body, expired, wg, result>>

\* c finds none, or a stale one that it replaces, and leads a call of its own.
Lead(c) ==
  /\ pc[c] = "idle"
  /\ ~Joinable(c)
  /\ calls' = [calls EXCEPT ![KeyOf(c)] = c]
  /\ call' = [call EXCEPT ![c] = c]
  /\ wg' = [wg EXCEPT ![c] = 1]
  /\ Goto(c, "next")
  /\ UNCHANGED <<body, expired, result>>

\* next returns; a response's body is read into memory.
NextReturns(c) ==
  /\ pc[c] = "next"
  /\ \E r \in {"ok", "err", "nil"} :
       /\ r = "err" => MayFail
       /\ r = "nil" => MayBeNil
       /\ result' = [result EXCEPT ![c] = r]
  /\ Goto(c, "done")
  /\ UNCHANGED <<calls, body, call, expired, wg>>

\* wg.Done with the counter at n releases the waiters when it reaches 0.
Release(c) ==
  [d \in Callers |-> IF d = c THEN "done"
                     ELSE IF pc[d] = "wait" /\ call[d] = c THEN "woken" ELSE pc[d]]

\* Mutant: the deferred handler does not set err.
NextPanicsUnset(c) ==
  /\ MayPanic
  /\ pc[c] = "next"
  /\ wg' = [wg EXCEPT ![c] = @ - 1]
  /\ pc' = Release(c)
  /\ UNCHANGED <<calls, body, call, expired, result>>

\* next panics: the deferred handler sets err and calls wg.Done.
NextPanics(c) ==
  /\ MayPanic
  /\ pc[c] = "next"
  /\ result' = [result EXCEPT ![c] = "panic"]
  /\ wg' = [wg EXCEPT ![c] = @ - 1]
  /\ pc' = Release(c)
  /\ UNCHANGED <<calls, body, call, expired>>

\* Mutant: a failed call returns before wg.Done.
DoneUnlessFailed(c) ==
  /\ pc[c] = "done"
  /\ wg[c] = 1
  /\ IF result[c] = "err"
     THEN Goto(c, "delete") /\ UNCHANGED wg
     ELSE /\ wg' = [wg EXCEPT ![c] = 0]
          /\ pc' = [Release(c) EXCEPT ![c] = "delete"]
  /\ UNCHANGED <<calls, body, call, expired, result>>

\* c.wg.Done() after next.
Done(c) ==
  /\ pc[c] = "done"
  /\ wg[c] = 1
  /\ wg' = [wg EXCEPT ![c] = 0]
  /\ pc' = [Release(c) EXCEPT ![c] = "delete"]
  /\ UNCHANGED <<calls, body, call, expired, result>>

\* The same line after a recovered panic: the second Done of this call.  The
\* leader panics here, outside any recover of its own.
DoneTwice(c) ==
  /\ pc[c] = "done"
  /\ wg[c] = 0
  /\ wg' = [wg EXCEPT ![c] = -1]
  /\ Goto(c, "crashed")
  /\ UNCHANGED <<calls, body, call, expired, result>>

\* Mutant: a failed call returns without deleting its entry.
DeleteUnlessFailed(c) ==
  /\ pc[c] = "delete"
  /\ calls' = IF result[c] = "err" THEN calls ELSE [calls EXCEPT ![KeyOf(c)] = NoCall]
  /\ Goto(c, "returned")
  /\ UNCHANGED <<body, call, expired, wg, result>>

\* The response is copied for the caller: without one, *c.val panics.
Copied(r) == IF r = "nil" THEN "crashed" ELSE "returned"

\* delete(sf.calls, key), whoever's entry is there now.
Delete(c) ==
  /\ pc[c] = "delete"
  /\ calls' = [calls EXCEPT ![KeyOf(c)] = NoCall]
  /\ Goto(c, Copied(result[c]))
  /\ UNCHANGED <<body, call, expired, wg, result>>

\* c.wg.Wait() finds the counter at 0 and does not block.
NoWait(c) ==
  /\ pc[c] = "wait"
  /\ wg[call[c]] = 0
  /\ Goto(c, Copied(result[call[c]]))
  /\ UNCHANGED <<calls, body, call, expired, wg, result>>

\* A released waiter goes on, or panics if the counter has changed since.
Woken(c) ==
  /\ pc[c] = "woken"
  /\ Goto(c, IF wg[call[c]] = 0 THEN Copied(result[call[c]]) ELSE "crashed")
  /\ UNCHANGED <<calls, body, call, expired, wg, result>>

\* Time passes singleflightTTL for a call in flight.
Expire(c) ==
  /\ MayExpire
  /\ call[c] = c
  /\ pc[c] # "returned"
  /\ ~expired[c]
  /\ expired' = [expired EXCEPT ![c] = TRUE]
  /\ UNCHANGED <<calls, body, pc, call, wg, result>>

\* Nothing is left to run; the followers of a leader that next's panic took down
\* are stuck.
Terminating ==
  /\ \A c \in Callers :
       \/ pc[c] \in {"failed", "returned", "crashed"}
       \/ pc[c] = "wait" /\ wg[call[c]] < 0
  /\ UNCHANGED vars

Execute(c) ==
  \/ KeyFails(c) \/ Join(c) \/ Lead(c)
  \/ NextReturns(c) \/ NextPanics(c)
  \/ Done(c) \/ DoneTwice(c) \/ Delete(c)
  \/ NoWait(c) \/ Woken(c)

Next ==
  \/ \E c \in Callers : Execute(c) \/ Expire(c)
  \/ Terminating

Spec == Init /\ [][Next]_vars

(* Goroutines are scheduled and next returns.                              *)
FairSpec == Spec /\ \A c \in Callers : WF_vars(Execute(c))

-----------------------------------------------------------------------------
(* Properties *)

\* The types of the variables; a WaitGroup goes below zero only by the second
\* Done of a call that panicked.
TypeOK ==
  /\ calls \in [Keys -> Callers \union {NoCall}]
  /\ body \in [Callers -> Bodies]
  /\ pc \in [Callers -> {"idle", "next", "done", "delete", "wait", "woken",
                         "failed", "returned", "crashed"}]
  /\ call \in [Callers -> Callers \union {NoCall}]
  /\ expired \in [Callers -> BOOLEAN]
  /\ wg \in [Callers -> -1 .. 1]
  /\ result \in [Callers -> {"none", "ok", "err", "nil", "panic"}]
  /\ \A c \in Callers : wg[c] < 0 => result[c] = "panic"

\* c and d are in two calls of next for one key.
Duplicates(c, d) ==
  c # d /\ pc[c] = "next" /\ pc[d] = "next" /\ KeyOf(c) = KeyOf(d)

\* README: "10 goroutines requesting the same data = 1 HTTP call."  One call of
\* next per key at a time, unless some call for that key outlived the TTL.
OneCallUnlessExpired ==
  \A c, d \in Callers :
    Duplicates(c, d) => \E e \in Callers : KeyOf(e) = KeyOf(c) /\ expired[e]

\* The same as the comment on singleflightTTL has it: only a call that is
\* itself older than the TTL has a duplicate.
OneCallPerKey ==
  \A c, d \in Callers : Duplicates(c, d) => expired[c] \/ expired[d]

\* A caller never joins a call that is over, but for the entry that a leader
\* which panicked leaves behind: the result was fetched while Execute ran.
EntriesInFlight ==
  \A k \in Keys : calls[k] # NoCall =>
    LET c == calls[k]
    IN  /\ KeyOf(c) = k
        /\ \/ pc[c] \in {"next", "done", "delete"}
           \/ pc[c] = "crashed" /\ result[c] = "panic"

\* A follower that goes on finds its leader's result there.
ResultReady ==
  \A c \in Callers :
    /\ call[c] # NoCall
    /\ pc[c] = "woken" \/ (pc[c] = "returned" /\ call[c] # c)
    => result[call[c]] # "none"

\* A hashed body is merged with its equals only: what the code keeps of
\* DifferentNeverMerged.  All bodies above the limit, and the requests without
\* one, have one key and are merged with each other.
MergedOnlyWhenEqual ==
  \A c \in Callers : HasPayload /\ call[c] # NoCall =>
    \/ body[call[c]] = body[c]
    \/ {body[c], body[call[c]]} \subseteq Unhashed

\* README: "Requests with different bodies are never merged", of the methods with
\* a payload.
DifferentNeverMerged ==
  \A c \in Callers : HasPayload /\ call[c] # NoCall => body[call[c]] = body[c]

\* How far Execute of c is, without the WaitGroup.
Stage(c) ==
  CASE pc[c] = "next" -> "calling"
    [] pc[c] \in {"done", "delete"} -> "called"
    [] pc[c] \in {"wait", "woken"} -> "sharing"
    [] OTHER -> pc[c]

Abstract == INSTANCE SingleflightSpec WITH
  stage <- [c \in Callers |-> Stage(c)],
  source <- call,
  outcome <- result,
  old <- expired

\* The map, the lock and the WaitGroups implement a singleflight: whoever shares a
\* call shares one with its key that is under way, and is given what it returned.
ImplementsSingleflightSpec == Abstract!ASpec

\* No follower waits for ever, whatever was evicted meanwhile, unless its
\* leader's call panicked.
FollowersReleased ==
  \A c \in Callers :
    pc[c] = "wait" ~> (pc[c] # "wait" \/ result[call[c]] = "panic")

\* singleflight.go: "Panic-safe: always mark the call done so waiters don't
\* deadlock."
WaitersReleased == \A c \in Callers : pc[c] = "wait" ~> pc[c] # "wait"
=============================================================================
