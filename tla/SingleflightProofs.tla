------------------------- MODULE SingleflightProofs -------------------------
(* Proofs about Singleflight, for any number of callers, any bodies and    *)
(* every choice of what may fail, panic or expire.                         *)
EXTENDS Singleflight, TLAPS

Positions == {"idle", "next", "done", "delete", "wait", "woken",
              "failed", "returned", "crashed"}
Results == {"none", "ok", "err", "nil", "panic"}

\* The types of the variables alone.
Types ==
  /\ calls \in [Keys -> Callers \union {NoCall}]
  /\ body \in [Callers -> Bodies]
  /\ pc \in [Callers -> Positions]
  /\ call \in [Callers -> Callers \union {NoCall}]
  /\ expired \in [Callers -> BOOLEAN]
  /\ wg \in [Callers -> -1 .. 1]
  /\ result \in [Callers -> Results]

Leads(c) == pc[c] \in {"next", "done", "delete"}

\* What the position of a caller says of the call that it leads: the WaitGroup
\* counts it until its result is there, twice if next panicked.
LeaderState ==
  \A c \in Callers :
    /\ pc[c] \in {"idle", "failed"} => call[c] = NoCall
    /\ Leads(c) => call[c] = c
    /\ pc[c] = "next" => wg[c] = 1 /\ result[c] = "none"
    /\ pc[c] = "done" => \/ wg[c] = 1 /\ result[c] \in {"ok", "err", "nil"}
                         \/ wg[c] = 0 /\ result[c] = "panic"
    /\ pc[c] = "delete" => wg[c] = 0 /\ result[c] \in {"ok", "err", "nil"}
    /\ call[c] = c /\ pc[c] = "returned" => wg[c] = 0 /\ result[c] # "none"
    /\ call[c] = c /\ pc[c] = "crashed" => \/ wg[c] = -1 /\ result[c] = "panic"
                                           \/ wg[c] = 0 /\ result[c] = "nil"
    /\ call[c] # c => wg[c] = 0 /\ result[c] = "none"

\* A follower's call is one that a caller with its key leads, or has led.
FollowerState ==
  \A c \in Callers :
    /\ pc[c] \in {"wait", "woken"} => call[c] \notin {c, NoCall}
    /\ call[c] # NoCall => call[call[c]] = call[c] /\ KeyOf(call[c]) = KeyOf(c)
    /\ pc[c] = "woken" => result[call[c]] # "none" /\ wg[call[c]] # 1
    /\ pc[c] = "returned" => call[c] # NoCall /\ result[call[c]] # "none"

\* A call in flight is the one in the map, unless one for its key has expired.
KeptInMap ==
  \A c \in Callers : Leads(c) =>
    \/ calls[KeyOf(c)] = c
    \/ \E e \in Callers : KeyOf(e) = KeyOf(c) /\ expired[e]

FlightInv == Types /\ LeaderState /\ FollowerState /\ EntriesInFlight /\ KeptInMap

-----------------------------------------------------------------------------
USE SingleflightAssumption DEF Leads, KeyOf, Entry, Joinable, Goto

\* The key of every request is one that the map may have.
LEMMA KeyType == \A b \in Bodies : Key(b) \in Keys
  BY DEF Key, Keys

\* Done wakes the callers that wait for c, and moves no other than c itself.
LEMMA ReleaseMoves ==
  ASSUME NEW c \in Callers, Types
  PROVE  /\ Release(c) \in [Callers -> Positions]
         /\ Release(c)[c] = "done"
         /\ \A d \in Callers \ {c} :
              \/ pc[d] = "wait" /\ call[d] = c /\ Release(c)[d] = "woken"
              \/ ~(pc[d] = "wait" /\ call[d] = c) /\ Release(c)[d] = pc[d]
  BY DEF Release, Types, Positions

LEMMA FailStep ==
  ASSUME FlightInv, NEW c \in Callers, KeyFails(c)
  PROVE  FlightInv'
<1> USE DEF FlightInv
<1>1. call[c] = NoCall /\ UNCHANGED <<calls, body, call, expired, wg, result>>
  BY DEF KeyFails, LeaderState
<1>2. \A d \in Callers : pc'[d] = IF d = c THEN "failed" ELSE pc[d]
  BY DEF KeyFails, Types
<1>3. Types'
  BY <1>1 DEF KeyFails, Types, Positions
<1>4. LeaderState'
  BY <1>1, <1>2 DEF LeaderState
<1>5. FollowerState'
  BY <1>1, <1>2 DEF FollowerState
<1>6. EntriesInFlight'
  BY <1>1, <1>2 DEF KeyFails, Types, EntriesInFlight
<1>7. KeptInMap'
  BY <1>1, <1>2 DEF KeptInMap
<1> QED  BY <1>3, <1>4, <1>5, <1>6, <1>7

LEMMA JoinStep ==
  ASSUME FlightInv, NEW c \in Callers, Join(c)
  PROVE  FlightInv'
<1> USE DEF FlightInv
<1>1. /\ Key(body[c]) \in Keys
      /\ Entry(c) \in Callers
      /\ KeyOf(Entry(c)) = KeyOf(c) /\ call[Entry(c)] = Entry(c) /\ Entry(c) # c
  BY KeyType DEF Join, Types, EntriesInFlight, LeaderState
<1>2. Types'
  BY <1>1 DEF Join, Types, Positions
<1>3. LeaderState'
  BY <1>1 DEF Join, Types, LeaderState
<1>4. FollowerState'
  BY <1>1 DEF Join, Types, LeaderState, FollowerState
<1>5. EntriesInFlight'
  BY DEF Join, Types, EntriesInFlight
<1>6. KeptInMap'
  BY DEF Join, Types, KeptInMap
<1> QED  BY <1>2, <1>3, <1>4, <1>5, <1>6

LEMMA LeadStep ==
  ASSUME FlightInv, NEW c \in Callers, Lead(c)
  PROVE  FlightInv'
<1> USE DEF FlightInv
<1>1. Key(body[c]) \in Keys /\ wg[c] = 0 /\ result[c] = "none"
  BY KeyType DEF Lead, Types, LeaderState
<1>2. Types'
  BY <1>1 DEF Lead, Types, Positions
<1>3. LeaderState'
  BY <1>1 DEF Lead, Types, LeaderState
<1>4. FollowerState'
  BY <1>1 DEF Lead, Types, LeaderState, FollowerState
<1>5. EntriesInFlight'
  BY <1>1 DEF Lead, Types, EntriesInFlight
<1>6. KeptInMap'
  BY <1>1 DEF Lead, Types, KeptInMap
<1> QED  BY <1>2, <1>3, <1>4, <1>5, <1>6

LEMMA NextStep ==
  ASSUME FlightInv, NEW c \in Callers, NextReturns(c) \/ NextPanics(c)
  PROVE  FlightInv'
<1> USE DEF FlightInv
<1>1. CASE NextReturns(c)
  <2> USE <1>1
  <2>2. Types'
    BY DEF NextReturns, Types, Positions, Results
  <2>3. LeaderState'
    BY DEF NextReturns, Types, LeaderState
  <2>4. FollowerState'
    BY DEF NextReturns, Types, LeaderState, FollowerState
  <2>5. EntriesInFlight'
    BY DEF NextReturns, Types, EntriesInFlight
  <2>6. KeptInMap'
    BY DEF NextReturns, Types, KeptInMap
  <2> QED  BY <2>2, <2>3, <2>4, <2>5, <2>6
<1>2. CASE NextPanics(c)
  <2> USE <1>2, ReleaseMoves
  <2>1. wg[c] = 1 /\ call[c] = c
    BY DEF NextPanics, LeaderState
  <2>2. Types'
    BY <2>1 DEF NextPanics, Types, Results
  <2>3. LeaderState'
    BY <2>1 DEF NextPanics, Types, LeaderState
  <2>4. FollowerState'
    BY <2>1 DEF NextPanics, Types, LeaderState, FollowerState
  <2>5. EntriesInFlight'
    BY <2>1 DEF NextPanics, Types, EntriesInFlight
  <2>6. KeptInMap'
    BY <2>1 DEF NextPanics, Types, KeptInMap
  <2> QED  BY <2>2, <2>3, <2>4, <2>5, <2>6
<1> QED  BY <1>1, <1>2

LEMMA DoneStep ==
  ASSUME FlightInv, NEW c \in Callers, Done(c) \/ DoneTwice(c)
  PROVE  FlightInv'
<1> USE DEF FlightInv
<1>1. CASE Done(c)
  <2> USE <1>1, ReleaseMoves
  <2>1. call[c] = c /\ result[c] # "none"
    BY DEF Done, LeaderState
  <2>2. Types'
    BY <2>1 DEF Done, Types, Positions
  <2>3. LeaderState'
    BY <2>1 DEF Done, Types, LeaderState
  <2>4. FollowerState'
    BY <2>1 DEF Done, Types, LeaderState, FollowerState
  <2>5. EntriesInFlight'
    BY <2>1 DEF Done, Types, EntriesInFlight
  <2>6. KeptInMap'
    BY <2>1 DEF Done, Types, KeptInMap
  <2> QED  BY <2>2, <2>3, <2>4, <2>5, <2>6
<1>2. CASE DoneTwice(c)
  <2> USE <1>2
  <2>1. call[c] = c /\ result[c] = "panic"
    BY DEF DoneTwice, LeaderState
  <2>2. Types'
    BY <2>1 DEF DoneTwice, Types, Positions
  <2>3. LeaderState'
    BY <2>1 DEF DoneTwice, Types, LeaderState
  <2>4. FollowerState'
    BY <2>1 DEF DoneTwice, Types, LeaderState, FollowerState
  <2>5. EntriesInFlight'
    BY <2>1 DEF DoneTwice, Types, EntriesInFlight
  <2>6. KeptInMap'
    BY <2>1 DEF DoneTwice, Types, KeptInMap
  <2> QED  BY <2>2, <2>3, <2>4, <2>5, <2>6
<1> QED  BY <1>1, <1>2

\* The entry that is deleted is the leader's own, or its key has expired.
LEMMA DeleteStep ==
  ASSUME FlightInv, NEW c \in Callers, Delete(c)
  PROVE  FlightInv'
<1> USE DEF FlightInv
<1>1. Key(body[c]) \in Keys /\ call[c] = c
  BY KeyType DEF Delete, Copied, Types, LeaderState
<1>2. Types'
  BY <1>1 DEF Delete, Copied, Types, Positions
<1>3. LeaderState'
  BY <1>1 DEF Delete, Copied, Types, LeaderState
<1>4. FollowerState'
  BY <1>1 DEF Delete, Copied, Types, LeaderState, FollowerState
<1>5. EntriesInFlight'
  BY <1>1 DEF Delete, Types, EntriesInFlight
<1>6. KeptInMap'
  BY <1>1 DEF Delete, Copied, Types, KeptInMap
<1> QED  BY <1>2, <1>3, <1>4, <1>5, <1>6

LEMMA FollowerStep ==
  ASSUME FlightInv, NEW c \in Callers, NoWait(c) \/ Woken(c)
  PROVE  FlightInv'
<1> USE DEF FlightInv
<1>1. /\ call[c] \in Callers \ {c}
      /\ pc'[c] = "returned" => result[call[c]] # "none"
  BY DEF NoWait, Woken, Copied, Types, Positions, LeaderState, FollowerState
<1>2. Types'
  BY <1>1 DEF NoWait, Woken, Copied, Types, Positions
<1>3. LeaderState'
  BY <1>1 DEF NoWait, Woken, Copied, Types, LeaderState
<1>4. FollowerState'
  BY <1>1 DEF NoWait, Woken, Copied, Types, LeaderState, FollowerState
<1>5. EntriesInFlight'
  BY <1>1 DEF NoWait, Woken, Types, EntriesInFlight
<1>6. KeptInMap'
  BY <1>1 DEF NoWait, Woken, Copied, Types, KeptInMap
<1> QED  BY <1>2, <1>3, <1>4, <1>5, <1>6

LEMMA ExpireStep ==
  ASSUME FlightInv, NEW c \in Callers, Expire(c)
  PROVE  FlightInv'
  BY DEF FlightInv, Expire, Types, LeaderState, FollowerState, EntriesInFlight, KeptInMap

\* The inductive invariant holds in every reachable state.
THEOREM FlightInvariant == Spec => []FlightInv
<1>1. Init => FlightInv
  BY DEF Init, FlightInv, Types, LeaderState, FollowerState, EntriesInFlight, KeptInMap, Positions, Results
<1>2. FlightInv /\ [Next]_vars => FlightInv'
  <2> SUFFICES ASSUME FlightInv, [Next]_vars PROVE FlightInv'
    OBVIOUS
  <2>1. CASE UNCHANGED vars
    BY <2>1 DEF vars, FlightInv, Types, LeaderState, FollowerState, EntriesInFlight, KeptInMap
  <2> QED
    BY <2>1, FailStep, JoinStep, LeadStep, NextStep, DoneStep, DeleteStep, FollowerStep, ExpireStep
    DEF Next, Execute, Terminating
<1> QED  BY <1>1, <1>2, PTL DEF Spec

\* The types, and that a WaitGroup below zero belongs to a call that panicked.
THEOREM TypeCorrect == Spec => []TypeOK
<1>1. FlightInv => TypeOK
  BY DEF FlightInv, Types, LeaderState, FollowerState, TypeOK, Positions, Results
<1> QED  BY <1>1, FlightInvariant, PTL

\* At most one call of next per key is in flight at a time, unless a call with
\* that key has outlived the TTL: whoever fails, panics or is released meanwhile.
THEOREM OneCallCorrect == Spec => []OneCallUnlessExpired
<1>1. FlightInv => OneCallUnlessExpired
  BY DEF FlightInv, KeptInMap, OneCallUnlessExpired, Duplicates
<1> QED  BY <1>1, FlightInvariant, PTL

\* Only calls in flight can be joined, but for the entry of one that panicked.
THEOREM EntriesCorrect == Spec => []EntriesInFlight
<1>1. FlightInv => EntriesInFlight
  BY DEF FlightInv
<1> QED  BY <1>1, FlightInvariant, PTL

\* A follower that goes on reads a result, never the fields' zero values.
THEOREM ResultCorrect == Spec => []ResultReady
<1>1. FlightInv => ResultReady
  BY DEF FlightInv, Types, FollowerState, ResultReady
<1> QED  BY <1>1, FlightInvariant, PTL

\* Two requests that share a call have equal bodies, or neither is hashed: each is
\* above the limit, or has no body.
THEOREM MergedCorrect == Spec => []MergedOnlyWhenEqual
<1>1. FlightInv => MergedOnlyWhenEqual
  <2> SUFFICES ASSUME FlightInv, NEW c \in Callers, HasPayload, call[c] # NoCall,
                      ~({body[c], body[call[c]]} \subseteq Unhashed)
               PROVE  body[call[c]] = body[c]
    BY DEF MergedOnlyWhenEqual
  <2>1. Key(body[call[c]]) = Key(body[c])
    BY DEF FlightInv, FollowerState
  <2> QED  BY <2>1 DEF Key
<1> QED  BY <1>1, FlightInvariant, PTL

\* Whoever a follower waits for will still call wg.Done, has done so, or has
\* panicked: no wake-up is lost, which is what liveness needs of the state.
WaitedForRuns ==
  \A c \in Callers : pc[c] = "wait" =>
    \/ pc[call[c]] \in {"next", "done"} /\ wg[call[c]] = 1
    \/ wg[call[c]] = 0
    \/ result[call[c]] = "panic"

\* A follower never waits for a caller that is past its wg.Done.
THEOREM WaitedForCorrect == Spec => []WaitedForRuns
<1>1. FlightInv => WaitedForRuns
  BY DEF FlightInv, Types, LeaderState, FollowerState, WaitedForRuns, Positions
<1> QED  BY <1>1, FlightInvariant, PTL
-----------------------------------------------------------------------------
\* Requests that the abstract specification lets be answered alike are the ones
\* with equal keys.
LEMMA AlikeIsKey ==
  \A c, d \in Callers : Abstract!Alike(c, d) <=> KeyOf(c) = KeyOf(d)
  BY DEF Abstract!Alike, Key, Unhashed

\* What a step of c leaves of the stages, given those of the positions.
LEMMA StageStep ==
  ASSUME Types, NEW c \in Callers, NEW s, Stage(c)' = s,
         \A d \in Callers \ {c} : Stage(d)' = Stage(d)
  PROVE  [d \in Callers |-> Stage(d)]' = [[d \in Callers |-> Stage(d)] EXCEPT ![c] = s]
  OBVIOUS

LEMMA FailRefines ==
  ASSUME FlightInv, NEW c \in Callers, KeyFails(c)
  PROVE  Abstract!Reject(c)
<1>1. Stage(c) = "idle" /\ Stage(c)' = "failed"
  BY DEF FlightInv, KeyFails, Types, Stage
<1>2. \A d \in Callers \ {c} : Stage(d)' = Stage(d)
  BY DEF FlightInv, KeyFails, Types, Stage
<1>3. Abstract!Enter(c, "failed")
  BY <1>1, <1>2, StageStep DEF FlightInv, Abstract!Enter
<1> QED  BY <1>1, <1>3 DEF KeyFails, Abstract!Reject

LEMMA JoinRefines ==
  ASSUME FlightInv, NEW c \in Callers, Join(c)
  PROVE  Abstract!Share(c, Entry(c)) /\ Entry(c) \in Callers
<1> USE DEF FlightInv
<1>1. /\ Key(body[c]) \in Keys
      /\ Entry(c) \in Callers
      /\ KeyOf(Entry(c)) = KeyOf(c) /\ ~expired[Entry(c)]
      /\ \/ pc[Entry(c)] \in {"next", "done", "delete"}
         \/ result[Entry(c)] = "panic"
  BY KeyType DEF Join, Types, EntriesInFlight
<1>2. Stage(c) = "idle" /\ Stage(c)' = "sharing"
  BY DEF Join, Types, Stage
<1>3. \A d \in Callers \ {c} : Stage(d)' = Stage(d)
  BY DEF Join, Types, Stage
<1>4. Stage(Entry(c)) \in {"calling", "called"} \/ result[Entry(c)] = "panic"
  BY <1>1 DEF Stage
<1>5. Abstract!Alike(c, Entry(c))
  BY <1>1, AlikeIsKey
<1>6. Abstract!Enter(c, "sharing")
  BY <1>2, <1>3, StageStep DEF Abstract!Enter
<1> QED
  BY <1>1, <1>2, <1>4, <1>5, <1>6 DEF Join, Abstract!Share

\* A caller finds no call to join only when none of its key is in flight, or one
\* that had its key has expired: here the map's entry must be the right one.
LEMMA LeadRefines ==
  ASSUME FlightInv, NEW c \in Callers, Lead(c)
  PROVE  Abstract!Call(c)
<1> USE DEF FlightInv
<1>1. ASSUME NEW d \in Callers, Stage(d) = "calling", Abstract!Alike(c, d)
      PROVE  \E e \in Callers : Abstract!Alike(c, e) /\ expired[e]
  <2>1. pc[d] = "next" /\ KeyOf(c) = KeyOf(d)
    BY <1>1, AlikeIsKey DEF Stage, Types, Positions
  <2>2. \E e \in Callers : KeyOf(e) = KeyOf(d) /\ expired[e]
    BY <2>1 DEF Lead, KeptInMap
  <2> QED  BY <2>1, <2>2, AlikeIsKey
<1>2. Stage(c) = "idle" /\ Stage(c)' = "calling"
  BY DEF Lead, Types, Stage
<1>3. \A d \in Callers \ {c} : Stage(d)' = Stage(d)
  BY DEF Lead, Types, Stage
<1>4. Abstract!Enter(c, "calling")
  BY <1>2, <1>3, StageStep DEF Abstract!Enter
<1> QED
  BY <1>1, <1>2, <1>4 DEF Lead, Abstract!Call

LEMMA NextRefines ==
  ASSUME FlightInv, NEW c \in Callers, NextReturns(c) \/ NextPanics(c)
  PROVE  Abstract!End(c)
<1> USE DEF FlightInv
<1>1. Stage(c) = "calling" /\ Stage(c)' = "called"
  BY ReleaseMoves DEF NextReturns, NextPanics, Types, Stage
<1>2. \A d \in Callers \ {c} : Stage(d)' = Stage(d)
  BY ReleaseMoves DEF NextReturns, NextPanics, Types, Stage
<1>3. Abstract!Enter(c, "called")
  BY <1>1, <1>2, StageStep DEF Abstract!Enter
<1>4. \E r \in {"ok", "err", "nil", "panic"} : result' = [result EXCEPT ![c] = r]
  BY DEF NextReturns, NextPanics
<1> QED
  BY <1>1, <1>3, <1>4 DEF NextReturns, NextPanics, Abstract!End

\* The first Done of a call is of the WaitGroup alone.
LEMMA DoneRefines ==
  ASSUME FlightInv, NEW c \in Callers, Done(c)
  PROVE  UNCHANGED Abstract!avars
<1> USE DEF FlightInv
<1>1. \A d \in Callers : Stage(d)' = Stage(d)
  BY ReleaseMoves DEF Done, Types, Stage
<1>2. UNCHANGED <<body, call, result, expired>>
  BY DEF Done
<1> QED  BY <1>1, <1>2 DEF Abstract!avars

LEMMA ReturnRefines ==
  ASSUME FlightInv, NEW c \in Callers, result[call[c]] # "nil",
         Delete(c) \/ NoWait(c) \/ (Woken(c) /\ wg[call[c]] = 0)
  PROVE  Abstract!Return(c)
<1> USE DEF FlightInv
<1>1. Stage(c)' = "returned" /\ \A d \in Callers \ {c} : Stage(d)' = Stage(d)
  BY DEF Delete, NoWait, Woken, Copied, LeaderState, Types, Stage
<1>2. Abstract!Enter(c, "returned")
  BY <1>1, StageStep DEF Abstract!Enter
<1>3. CASE Delete(c)
  <2>1. Stage(c) = "called" /\ result[c] \notin {"nil", "panic"}
    BY <1>3 DEF Delete, LeaderState, Stage
  <2> QED  BY <1>2, <1>3, <2>1 DEF Delete, Abstract!Return
<1>4. CASE NoWait(c) \/ (Woken(c) /\ wg[call[c]] = 0)
  <2>1. Stage(c) = "sharing"
    BY <1>4 DEF NoWait, Woken, Stage
  <2>2. call[c] \in Callers /\ call[call[c]] = call[c]
    BY <1>4 DEF NoWait, Woken, Types, FollowerState
  <2>3. result[call[c]] # "none"
    BY <1>4, <2>2 DEF NoWait, Woken, Types, Positions, LeaderState, FollowerState
  <2> QED  BY <1>2, <1>4, <2>1, <2>3 DEF NoWait, Woken, Abstract!Return
<1> QED  BY <1>3, <1>4

\* Only a call that panicked, or returned nothing at all, takes Execute down, its
\* leader's or a waiter's.
LEMMA CrashRefines ==
  ASSUME FlightInv, NEW c \in Callers,
         \/ DoneTwice(c) \/ (Woken(c) /\ wg[call[c]] # 0)
         \/ (Delete(c) \/ NoWait(c) \/ Woken(c)) /\ result[call[c]] = "nil"
  PROVE  Abstract!Crash(c)
<1> USE DEF FlightInv
<1>1. /\ Stage(c) \in {"called", "sharing"} /\ Stage(c)' = "crashed"
      /\ \A d \in Callers \ {c} : Stage(d)' = Stage(d)
  BY DEF DoneTwice, Delete, NoWait, Woken, Copied, LeaderState, Types, Stage
<1>2. Abstract!Enter(c, "crashed")
  BY <1>1, StageStep DEF Abstract!Enter
<1>3. result[call[c]] \in {"nil", "panic"}
  <2>1. CASE DoneTwice(c)
    BY <2>1 DEF DoneTwice, LeaderState
  <2>2. CASE Woken(c) /\ wg[call[c]] # 0
    <3>1. call[c] \in Callers /\ call[call[c]] = call[c] /\ wg[call[c]] = -1
      BY <2>2 DEF Woken, Types, FollowerState
    <3> QED  BY <3>1 DEF Types, Positions, LeaderState, FollowerState
  <2> QED  BY <2>1, <2>2
<1>4. UNCHANGED <<body, call, result, expired>>
  BY DEF DoneTwice, Delete, NoWait, Woken
<1> QED
  BY <1>1, <1>2, <1>3, <1>4 DEF Abstract!Crash

LEMMA ExpireRefines ==
  ASSUME NEW c \in Callers, Expire(c)
  PROVE  Abstract!Age(c)
<1>1. \A d \in Callers : Stage(d)' = Stage(d)
  BY DEF Expire, Stage
<1> QED  BY <1>1 DEF Expire, Abstract!Age

\* The map, the lock and the WaitGroups implement the abstract singleflight.
THEOREM Refinement == Spec => ImplementsSingleflightSpec
<1>1. Init => Abstract!Init
  BY DEF Init, Abstract!Init, Stage
<1>2. FlightInv /\ [Next]_vars => [Abstract!Next]_(Abstract!avars)
  <2> SUFFICES ASSUME FlightInv, [Next]_vars
               PROVE  Abstract!Next \/ UNCHANGED Abstract!avars
    OBVIOUS
  <2>1. ASSUME NEW c \in Callers, Execute(c)
        PROVE  Abstract!Next \/ UNCHANGED Abstract!avars
    <3>0. CASE KeyFails(c)
      BY <3>0, FailRefines DEF Abstract!Next
    <3>1. CASE Join(c)
      BY <3>1, JoinRefines DEF Abstract!Next
    <3>2. CASE Lead(c)
      BY <3>2, LeadRefines DEF Abstract!Next
    <3>3. CASE NextReturns(c) \/ NextPanics(c)
      BY <3>3, NextRefines DEF Abstract!Next
    <3>4. CASE Done(c)
      BY <3>4, DoneRefines
    <3>5. CASE /\ result[call[c]] # "nil"
               /\ Delete(c) \/ NoWait(c) \/ (Woken(c) /\ wg[call[c]] = 0)
      BY <3>5, ReturnRefines DEF Abstract!Next
    <3>6. CASE \/ DoneTwice(c) \/ (Woken(c) /\ wg[call[c]] # 0)
               \/ (Delete(c) \/ NoWait(c) \/ Woken(c)) /\ result[call[c]] = "nil"
      BY <3>6, CrashRefines DEF Abstract!Next
    <3> QED  BY <2>1, <3>0, <3>1, <3>2, <3>3, <3>4, <3>5, <3>6 DEF Execute
  <2>2. ASSUME NEW c \in Callers, Expire(c)
        PROVE  Abstract!Next
    BY <2>2, ExpireRefines DEF Abstract!Next
  <2>3. CASE UNCHANGED vars
    BY <2>3 DEF vars, Abstract!avars, Stage
  <2> QED  BY <2>1, <2>2, <2>3 DEF Next, Terminating
<1> QED
  BY <1>1, <1>2, FlightInvariant, PTL DEF Spec, ImplementsSingleflightSpec, Abstract!ASpec
=============================================================================
