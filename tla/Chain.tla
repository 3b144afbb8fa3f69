-------------------------------- MODULE Chain --------------------------------
(***************************************************************************)
(* Client.Do (client.go) and the chain it runs: buildChain nests the       *)
(* policies around http.Client.Do, in the order of the options.  A caller  *)
(* is at one layer of the chain: "in" at the start of its Execute, "out"   *)
(* when its next has returned.  Layer 0 is Do itself, the layer after the  *)
(* last policy is http.Client.Do.  The two policies without a state of     *)
(* their own, FallbackPolicy and hooksPolicy, are here.                    *)
(*                                                                         *)
(* ended[c] holds the layers whose context has ended: 0 is the caller's    *)
(* own context, i that of a timeout at layer i (the others pass theirs     *)
(* on), Network the connection that a body comes from.  A context has      *)
(* ended when one around it has.                                           *)
(***************************************************************************)
EXTENDS Integers, FiniteSets, Sequences

CONSTANTS Callers,   \* the goroutines that call Client.Do, once each
          Keys,      \* the requests the cache tells apart: method and URL
          NoKey,     \* a request whose method is not cacheable
          Programs,  \* the clients and their use
          MaxTime,   \* bound: the clock stops here
          MaxAtOnce  \* bound: the goroutines in Do at one time

Layers == {"fallback", "hooks", "cache", "singleflight", "timeout", "timeoutMap", "adaptive"}

\* c.policies; which goroutines call Do, with which requests; what may end
\* before the body is read; which other method of Client is called; was the cache
\* added by WithCache, and so given the client's statistics.
Program == [chain : Seq(Layers), callers : SUBSET Callers, keys : SUBSET (Keys \cup {NoKey}),
            faults : SUBSET {"context", "network"}, watch : {"nothing", "Stats", "HealthChecker"},
            counted : BOOLEAN]

ASSUME ChainAssumption ==
  /\ IsFiniteSet(Callers)
  /\ NoKey \notin Keys
  /\ Programs \subseteq Program
  /\ \A p \in Programs : \A i, j \in DOMAIN p.chain :  \* their state is modelled once
       p.chain[i] = p.chain[j] /\ p.chain[i] \in {"cache", "singleflight", "adaptive"} => i = j
  /\ {MaxTime, MaxAtOnce} \subseteq Nat

VARIABLES cfg,          \* the program, never changed
          key,          \* the request of each caller
          at, pc,       \* the layer each caller is at, and where in it
          resp,         \* what the last layer returned: a status and a body
          ended,        \* see above
          callerFirst,  \* auxiliary: its own context ended before any other
          clock         \* the time

context == <<cfg, key, ended, callerFirst, clock>>
chainVars == <<context, at, pc, resp>>

NoResp == [status |-> "none", body |-> "none"]
Error(s) == [status |-> s, body |-> "none"]
OK(b) == [status |-> "ok", body |-> b]  \* body "nil": a response without one
Nil == [status |-> "nil", body |-> "none"]  \* neither a response nor an error
Panic == Error("panic")  \* not returned: next has panicked

\* err # nil
Failed(c) == resp[c].status \in {"err", "timeout", "fallback"}
Panicking(c) == resp[c] = Panic

Network == Len(cfg.chain) + 1
Layer(c) == IF at[c] \in DOMAIN cfg.chain THEN cfg.chain[at[c]] ELSE "none"

ChainInit ==
  /\ cfg \in Programs
  /\ key = [c \in Callers |-> NoKey]
  /\ at = [c \in Callers |-> 0]
  /\ pc = [c \in Callers |-> "idle"]
  /\ resp = [c \in Callers |-> NoResp]
  /\ ended = [c \in Callers |-> {}]
  /\ callerFirst = [c \in Callers |-> FALSE]
  /\ clock = 0

-----------------------------------------------------------------------------
\* ctx.Err() # nil, for the context at layer i.
Ended(c, i) == \E j \in ended[c] : j <= i

At(c, layer, where) == pc[c] = where /\ Layer(c) = layer

Goto(c, to) == pc' = [pc EXCEPT ![c] = to]

\* The layer calls next.
CallNext(c) ==
  /\ at' = [at EXCEPT ![c] = @ + 1]
  /\ Goto(c, "in")
  /\ UNCHANGED resp

\* The layer returns r, or panics.
Return(c, r) ==
  /\ at' = [at EXCEPT ![c] = @ - 1]
  /\ Goto(c, "out")
  /\ resp' = [resp EXCEPT ![c] = r]

-----------------------------------------------------------------------------
\* A panic that nothing recovers leaves Do.
Panicked(c) == at[c] = 0 /\ pc[c] = "out" /\ Panicking(c)

InFlight(c) == pc[c] \notin {"idle", "done"} /\ ~Panicked(c)

Do(c) ==
  /\ pc[c] = "idle"
  /\ Cardinality({d \in Callers : InFlight(d)}) < MaxAtOnce
  /\ \E k \in cfg.keys : key' = [key EXCEPT ![c] = k]
  /\ CallNext(c)
  /\ UNCHANGED <<cfg, ended, callerFirst, clock>>

\* hc.Do: an error at any time, or a response while its context lives.  The
\* body is still to come.
HttpReturns(c) ==
  /\ pc[c] = "in" /\ at[c] = Network
  /\ \/ Return(c, Error("err"))
     \/ ~Ended(c, Network) /\ Return(c, OK("stream"))
  /\ UNCHANGED context

\* BeforeRequest may refuse the request.
HooksBefore(c) ==
  /\ At(c, "hooks", "in")
  /\ CallNext(c) \/ Return(c, Error("err"))
  /\ UNCHANGED context

HooksAfter(c) ==
  /\ At(c, "hooks", "out")
  /\ Return(c, resp[c])
  /\ UNCHANGED context

FallbackNext(c) ==
  /\ At(c, "fallback", "in")
  /\ CallNext(c)
  /\ UNCHANGED context

\* The handler answers for a failure, as it likes: also with a nil Body or a nil
\* response; its own error, or panic, is RequestError.
FallbackReturns(c) ==
  /\ At(c, "fallback", "out")
  /\ IF Failed(c)
     THEN \E r \in {OK("whole"), OK("nil"), Nil, Error("fallback")} : Return(c, r)
     ELSE Return(c, resp[c])
  /\ UNCHANGED context

\* A body that comes from the connection breaks off only if that, or a context
\* of the request, has ended by then; a body in memory is what it was.
BodyRead(c) ==
  IF resp[c].body = "stream"
  THEN {"whole"} \cup (IF ended[c] # {} THEN {"part"} ELSE {})
  ELSE {resp[c].body}

\* The caller reads the body of the response that Do has returned.
ReadBody(c) ==
  /\ pc[c] = "returned"
  /\ Goto(c, "done")
  /\ \E b \in BodyRead(c) : resp' = [resp EXCEPT ![c].body = b]
  /\ UNCHANGED <<context, at>>

\* The caller's context is cancelled or passes its deadline.
ContextEnds(c) ==
  /\ "context" \in cfg.faults /\ InFlight(c)
  /\ 0 \notin ended[c]
  /\ ended' = [ended EXCEPT ![c] = @ \cup {0}]
  /\ callerFirst' = [callerFirst EXCEPT ![c] = ended[c] \subseteq {Network}]
  /\ UNCHANGED <<cfg, key, clock, at, pc, resp>>

\* The connection breaks under a body that is still to come.
NetworkBreaks(c) ==
  /\ "network" \in cfg.faults /\ InFlight(c)
  /\ resp[c].body = "stream"
  /\ ended' = [ended EXCEPT ![c] = @ \cup {Network}]
  /\ UNCHANGED <<cfg, key, callerFirst, clock, at, pc, resp>>

Tick ==
  /\ clock < MaxTime
  /\ clock' = clock + 1
  /\ UNCHANGED <<cfg, key, ended, callerFirst, at, pc, resp>>

ChainStep(c) ==
  \/ Do(c) \/ HttpReturns(c) \/ HooksBefore(c) \/ HooksAfter(c)
  \/ FallbackNext(c) \/ FallbackReturns(c) \/ ReadBody(c)

Fault(c) == ContextEnds(c) \/ NetworkBreaks(c)
=============================================================================
