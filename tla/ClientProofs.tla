---------------------------- MODULE ClientProofs ----------------------------
(***************************************************************************)
(* Invariants of a Client, for any chain of the policies modelled and any  *)
(* number of callers, and their proofs.                                    *)
(***************************************************************************)
EXTENDS Client, FiniteSetTheorems, WellFoundedInduction, TLAPS

Positions == {"idle", "in", "out", "age", "store", "start", "judge", "wait", "late", "again",
              "delete", "recorded", "returned", "done"}

\* A response has a body, and nothing else has.
Responses == {r \in [status : Statuses, body : Bodies] : r.status = "ok" <=> r.body # "none"}

\* On the way in, where nothing has been returned yet.
Inbound(p) == p \in {"idle", "in", "age", "start", "wait", "late"}

\* On the way in, and not in a call that somebody else leads.
Seeking(p) == p \in {"idle", "in", "age", "start"}

\* Behind the call of another.
Parked(p) == p \in {"wait", "late"}

LayerAt(a) == IF a \in DOMAIN cfg.chain THEN cfg.chain[a] ELSE "none"

\* What a caller's place in the chain says of what it is doing, and of what its
\* last layer returned.
Placed(a, p, r) ==
  /\ a \in 0 .. Network /\ p \in Positions /\ r \in Responses
  /\ p = "idle" => a = 0
  /\ p \in {"in", "age", "start", "store", "judge", "wait", "late", "again", "delete"} => a > 0
  /\ p \in {"out", "store", "judge", "again", "delete"} => a < Network
  /\ p \in {"recorded", "returned", "done"} => a = 0
  /\ p \in {"age", "store"} => LayerAt(a) = "cache"
  /\ p \in {"start", "judge"} => LayerAt(a) = "adaptive"
  /\ p \in {"wait", "late", "again", "delete"} => LayerAt(a) = "singleflight"
  /\ Inbound(p) => r = NoResp
  /\ p = "store" => r.body \in {"whole", "part"}

Places ==
  /\ at \in [Callers -> 0 .. Network] /\ pc \in [Callers -> Positions] /\ resp \in [Callers -> Responses]
  /\ \A c \in Callers : Placed(at[c], pc[c], resp[c])

\* The other variables, module by module.
ContextTypes ==
  /\ cfg \in Programs
  /\ key \in [Callers -> Keys \cup {NoKey}]
  /\ ended \in [Callers -> SUBSET (0 .. Network)]
  /\ callerFirst \in [Callers -> BOOLEAN]
  /\ clock \in Nat

CacheTypes ==
  /\ entries \in [Keys -> Entry \cup {NoEntry}]
  /\ found \in [Callers -> Entry \cup {NoEntry}]

SharedTypes ==
  /\ calls \in SUBSET Callers
  /\ leaderOf \in [Callers -> Callers]
  /\ answer \in [Callers -> Responses]

TimeoutTypes ==
  /\ live \in [Callers -> SUBSET DOMAIN cfg.chain]
  /\ {limit, due, begun} \subseteq [Callers -> Int]
  /\ durations \in Seq(Int) /\ Len(durations) <= MaxSamples
  /\ median \in Int

HealthTypes == stopCh \in BOOLEAN /\ (closer = "panicked" => stopCh)

Types == ContextTypes /\ CacheTypes /\ SharedTypes /\ TimeoutTypes /\ HealthTypes

\* The size of the cache.
CacheBounded ==
  /\ ties \in Nat
  /\ IsFiniteSet(Stored)
  /\ Cardinality(Stored) <= MaxEntries + ties

\* A caller that has not begun has no context that could end.
Unbegun == \A c \in Callers : pc[c] = "idle" => ended[c] = {} /\ live[c] = {}

-----------------------------------------------------------------------------
\* A layer of the chain that has not been reached, or has only just been.
Ahead(c, i) == \/ pc[c] = "idle"
               \/ pc[c] \in {"in", "age"} /\ at[c] <= i
               \/ pc[c] = "start" /\ at[c] < i

\* A deadline has passed only where one was set.
NotYet == \A c \in Callers : \A i \in DOMAIN cfg.chain : Ahead(c, i) => i \notin live[c] \cup ended[c]

\* A layer's timeout ended before the context of its caller did.
OwnTimeout(c) == ~callerFirst[c] /\ ~(ended[c] \subseteq {Network})

\* Whom a caller has waited for; nobody, while or after it leads a call of its own.
Following ==
  \A c \in Callers :
    /\ key[leaderOf[c]] = key[c]
    /\ leaderOf[c] # c => pc[leaderOf[c]] # "idle"
    /\ Seeking(pc[c]) => leaderOf[c] = c
    /\ ~Parked(pc[c]) /\ (\E i \in DOMAIN cfg.chain : cfg.chain[i] = "singleflight" /\ i <= at[c])
         => leaderOf[c] = c
    /\ c \in calls \/ answer[c] # NoResp => pc[c] # "idle"

\* The inductive invariant of ParentFirst: whose timeout an answer stands for.
Blamed ==
  \A c \in Callers :
    /\ callerFirst[c] => 0 \in ended[c]
    /\ resp[c].status = "timeout" => OwnTimeout(c) \/ OwnTimeout(leaderOf[c])
    /\ answer[c].status = "timeout" => OwnTimeout(c)

\* The inductive invariant of BodyWhole: some call of the key was cut off.
CutOff(k) == \E d \in Callers : key[d] = k /\ ended[d] # {}

Traced ==
  /\ \A k \in Keys : entries[k] # NoEntry /\ entries[k].body = "part" => CutOff(k)
  /\ \A c \in Callers :
       /\ pc[c] = "idle" => found[c] = NoEntry
       /\ found[c] # NoEntry /\ found[c].body = "part" => CutOff(key[c])
       /\ resp[c].body = "part" => CutOff(key[c])
       /\ answer[c].body = "part" => CutOff(key[c])

-----------------------------------------------------------------------------
\* Requests that Do has counted; of these, some may yet be counted as failed.
Tallied == {c \in Callers : pc[c] \in {"recorded", "returned", "done"}}
Pending == {c \in Callers : pc[c] = "recorded"}

\* The requests that the cache has counted as a hit or a miss, and those it skips.
Judged == {c \in Callers : /\ key[c] # NoKey /\ pc[c] # "idle"
                           /\ ~(at[c] = 1 /\ pc[c] \in {"in", "age"})}
Skipped == {c \in Callers : pc[c] # "idle" /\ key[c] = NoKey}

CacheOutermost == cfg.chain # <<>> /\ Head(cfg.chain) = "cache" /\ cfg.counted

\* The inductive invariant of StatsOrdered.
Counted ==
  /\ {stats, seen} \subseteq [Counters -> Nat] /\ reader \in 1 .. 5
  /\ stats.failed + Cardinality(Pending) <= stats.requests
  /\ CacheOutermost =>
       /\ stats.requests = Cardinality(Tallied)
       /\ Cardinality(Judged) <= stats.hits + stats.misses
       /\ reader > 1 => seen.requests <= stats.hits + stats.misses + Skips
       /\ reader > 3 => seen.requests <= seen.hits + stats.misses + Skips
       /\ reader > 4 => seen.requests <= seen.hits + seen.misses + Skips

\* The layer a has made its child context; and it has called next.
Entered(c, a) == at[c] > a \/ (at[c] = a /\ pc[c] # "in")
Passed(c, a) == at[c] > a \/ (at[c] = a /\ pc[c] \in {"out", "judge"})

\* The watch is started after the deadline was set, and a deadline that has
\* passed lies in the past.
OnTime(c) ==
  \A a \in DOMAIN cfg.chain : cfg.chain[a] = "adaptive" =>
    /\ at[c] >= a /\ a \in ended[c] => clock >= due[c]
    /\ Entered(c, a) => due[c] - limit[c] <= clock
    /\ Passed(c, a) => due[c] - limit[c] <= begun[c] /\ begun[c] <= clock

\* The inductive invariant of TimedOutNeverLowers: the median is that of the
\* durations, and the callers are on time.
Timed ==
  /\ Len(durations) >= MinSamples => median = Quantile(durations)
  /\ \A c \in Callers : OnTime(c)

TypeInv == Types /\ Places /\ CacheBounded

-----------------------------------------------------------------------------
(* The chain, and the ways through it. *)

LEMMA Shape ==
  ASSUME cfg \in Programs
  PROVE  /\ cfg.chain \in Seq(Layers) /\ Len(cfg.chain) \in Nat
         /\ DOMAIN cfg.chain = 1 .. Len(cfg.chain)
         /\ \A i \in DOMAIN cfg.chain : cfg.chain[i] \in Layers
         /\ Network = Len(cfg.chain) + 1 /\ Network \in Nat
         /\ cfg.callers \subseteq Callers /\ cfg.keys \subseteq Keys \cup {NoKey}
         /\ \A i, j \in DOMAIN cfg.chain :
              cfg.chain[i] = cfg.chain[j] /\ cfg.chain[i] \in {"cache", "singleflight", "adaptive"} => i = j
<1>1. cfg \in Program
  BY ChainAssumption
<1>2. cfg.chain \in Seq(Layers) /\ cfg.callers \subseteq Callers /\ cfg.keys \subseteq Keys \cup {NoKey}
  BY <1>1 DEF Program
<1>3. \A i, j \in DOMAIN cfg.chain :
        cfg.chain[i] = cfg.chain[j] /\ cfg.chain[i] \in {"cache", "singleflight", "adaptive"} => i = j
  BY ChainAssumption
<1> QED BY <1>2, <1>3 DEF Network

\* What the variables of the chain mean, one caller at a time.
LEMMA PlaceOf ==
  ASSUME cfg \in Programs, Places, NEW c \in Callers
  PROVE  /\ at[c] \in 0 .. Network /\ Network \in Nat /\ pc[c] \in Positions /\ resp[c] \in Responses
         /\ Placed(at[c], pc[c], resp[c])
         /\ Layer(c) = LayerAt(at[c])
         /\ Layer(c) # "none" => at[c] \in DOMAIN cfg.chain /\ at[c] > 0 /\ at[c] < Network
         /\ resp[c] = [status |-> resp[c].status, body |-> resp[c].body]
<1>1. Layer(c) # "none" => at[c] \in DOMAIN cfg.chain /\ at[c] > 0 /\ at[c] < Network
  BY Shape DEF Layer
<1> QED BY <1>1, Shape DEF Places, Layer, LayerAt, Responses

\* A caller moves to a place; the others stay where they are.
LEMMA PlaceMoved ==
  ASSUME Places, cfg' = cfg, NEW c \in Callers, NEW a, NEW p, NEW r, Placed(a, p, r),
         at' = [at EXCEPT ![c] = a], pc' = [pc EXCEPT ![c] = p], resp' = [resp EXCEPT ![c] = r]
  PROVE  Places'
<1>1. Network' = Network /\ \A i : LayerAt(i)' = LayerAt(i)
  BY DEF Network, LayerAt
<1>2. at' \in [Callers -> 0 .. Network] /\ pc' \in [Callers -> Positions] /\ resp' \in [Callers -> Responses]
  BY DEF Places, Placed
<1>3. ASSUME NEW d \in Callers PROVE Placed(at'[d], pc'[d], resp'[d])
  BY DEF Places
<1> QED BY <1>1, <1>2, <1>3 DEF Places, Placed

\* Its layer calls next.
LEMMA GoesIn ==
  ASSUME cfg \in Programs, Places, cfg' = cfg, NEW c \in Callers, CallNext(c),
         pc[c] \in {"idle", "in", "age", "start"}, at[c] < Network
  PROVE  Places'
<1>1. resp[c] = NoResp /\ at[c] \in 0 .. Network /\ Network \in Nat
  BY PlaceOf DEF Placed, Inbound
<1>2. Placed(at[c] + 1, "in", resp[c])
  BY <1>1 DEF Placed, Positions, Responses, NoResp, Statuses, Bodies, Inbound
<1>3. resp' = [resp EXCEPT ![c] = resp[c]]
  BY DEF CallNext, Places
<1> QED BY <1>2, <1>3, PlaceMoved DEF CallNext, Goto

\* Its layer returns.
LEMMA GoesOut ==
  ASSUME cfg \in Programs, Places, cfg' = cfg, NEW c \in Callers, NEW r \in Responses,
         Return(c, r), at[c] > 0
  PROVE  Places'
<1>1. at[c] \in 0 .. Network /\ Network \in Nat
  BY PlaceOf
<1>2. Placed(at[c] - 1, "out", r)
  BY <1>1 DEF Placed, Positions, Inbound
<1> QED BY <1>2, PlaceMoved DEF Return, Goto

\* It takes a step within its layer.
LEMMA StaysIn ==
  ASSUME cfg \in Programs, Places, cfg' = cfg, NEW c \in Callers, NEW p, NEW r,
         Goto(c, p), Placed(at[c], p, r), at' = at, resp' = [resp EXCEPT ![c] = r]
  PROVE  Places'
<1>1. at' = [at EXCEPT ![c] = at[c]]
  BY DEF Places
<1> QED BY <1>1, PlaceMoved DEF Goto

\* Each response that is returned is one.
LEMMA ResponseOf ==
  /\ \A s \in {"err", "timeout", "fallback"} : Error(s) \in Responses
  /\ \A b \in {"nil", "stream", "whole", "part"} : OK(b) \in Responses
  /\ NoResp \in Responses /\ Nil \in Responses /\ Panic \in Responses
  /\ \A r \in Responses : Copied(r) \in Responses
  BY DEF Error, OK, NoResp, Nil, Panic, Copied, Responses, Statuses, Bodies

\* What a read makes of a response.
LEMMA ReadResponse ==
  ASSUME cfg \in Programs, Places, NEW c \in Callers, NEW b \in BodyRead(c) \cup Buffered(c)
  PROVE  /\ [resp[c] EXCEPT !.body = b] \in Responses
         /\ [resp[c] EXCEPT !.body = b].body = b
         /\ [resp[c] EXCEPT !.body = b].status = resp[c].status
         /\ resp[c].status = "ok" /\ resp[c].body # "nil" => b \in {"whole", "part"}
         /\ [resp EXCEPT ![c].body = b] = [resp EXCEPT ![c] = [resp[c] EXCEPT !.body = b]]
<1>1. resp[c] \in Responses
  BY PlaceOf
<1> QED BY <1>1 DEF BodyRead, Buffered, Responses, Bodies

-----------------------------------------------------------------------------
(* Places. *)

LEMMA ChainPlaces ==
  ASSUME Types, Places, NEW c \in Callers, ChainStep(c)
  PROVE  Places'
<1> USE DEF Types, ContextTypes, CacheTypes, SharedTypes
<1>1. ASSUME Do(c) PROVE Places'
  <2>1. at[c] = 0 /\ pc[c] = "idle"
    BY <1>1, PlaceOf DEF Do, Placed
  <2>2. 0 < Network
    BY Shape
  <2> QED BY <1>1, <2>1, <2>2, GoesIn DEF Do
<1>2. ASSUME HttpReturns(c) PROVE Places'
  <2>1. at[c] > 0 /\ cfg' = cfg
    BY <1>2, PlaceOf DEF HttpReturns, Placed, context
  <2> QED BY <1>2, <2>1, GoesOut, ResponseOf DEF HttpReturns
<1>3. ASSUME HooksBefore(c) \/ HooksAfter(c) PROVE Places'
  <2>1. at[c] > 0 /\ at[c] < Network /\ cfg' = cfg /\ resp[c] \in Responses
    BY <1>3, PlaceOf DEF HooksBefore, HooksAfter, At, context
  <2> QED BY <1>3, <2>1, GoesIn, GoesOut, ResponseOf DEF HooksBefore, HooksAfter, At
<1>4. ASSUME FallbackNext(c) \/ FallbackReturns(c) PROVE Places'
  <2>1. at[c] > 0 /\ at[c] < Network /\ cfg' = cfg /\ resp[c] \in Responses
    BY <1>4, PlaceOf DEF FallbackNext, FallbackReturns, At, context
  <2> QED BY <1>4, <2>1, GoesIn, GoesOut, ResponseOf DEF FallbackNext, FallbackReturns, At
<1>5. ASSUME ReadBody(c) PROVE Places'
  <2>1. PICK b \in BodyRead(c) : resp' = [resp EXCEPT ![c].body = b]
    BY <1>5 DEF ReadBody
  <2>2. at[c] = 0 /\ cfg' = cfg /\ at' = at
    BY <1>5, PlaceOf DEF ReadBody, Placed, context
  <2>3. Placed(at[c], "done", [resp[c] EXCEPT !.body = b])
    BY <2>2, PlaceOf, ReadResponse DEF Placed, Positions, Inbound
  <2> QED BY <1>5, <2>1, <2>2, <2>3, ReadResponse, StaysIn DEF ReadBody
<1> QED BY <1>1, <1>2, <1>3, <1>4, <1>5 DEF ChainStep

LEMMA RecordPlaces ==
  ASSUME Types, Places, NEW c \in Callers, RecordRequest(c) \/ RecordFailed(c)
  PROVE  Places'
<1>1. /\ at[c] = 0 /\ cfg' = cfg /\ at' = at /\ pc[c] \in {"out", "recorded"}
      /\ resp' = [resp EXCEPT ![c] = resp[c]]
  BY PlaceOf DEF RecordRequest, RecordFailed, Placed, context, Places, Types, ContextTypes
<1>2. Placed(at[c], "recorded", resp[c]) /\ Placed(at[c], "returned", resp[c])
  BY <1>1, PlaceOf DEF Placed, Positions, Inbound, Types, ContextTypes
<1> QED BY <1>1, <1>2, StaysIn DEF RecordRequest, RecordFailed, Types, ContextTypes

LEMMA CachePlaces ==
  ASSUME Types, Places, NEW c \in Callers, CacheStep(c)
  PROVE  Places'
<1> USE DEF Types, ContextTypes, CacheTypes, SharedTypes
<1>1. ASSUME CacheSkips(c) \/ Miss(c) PROVE Places'
  <2>1. at[c] > 0 /\ at[c] < Network /\ cfg' = cfg /\ pc[c] \in {"in", "age"} /\ CallNext(c)
    BY <1>1, PlaceOf DEF CacheSkips, Miss, At, context, Placed
  <2> QED BY <2>1, GoesIn
<1>2. ASSUME Lookup(c) PROVE Places'
  <2>1. /\ at[c] > 0 /\ cfg' = cfg /\ at' = at /\ pc[c] = "in" /\ LayerAt(at[c]) = "cache"
        /\ resp' = [resp EXCEPT ![c] = resp[c]]
    BY <1>2, PlaceOf DEF Lookup, At, context, Places
  <2>2. Placed(at[c], "age", resp[c])
    BY <2>1, PlaceOf DEF Placed, Positions, Inbound
  <2> QED BY <1>2, <2>1, <2>2, StaysIn DEF Lookup
<1>3. ASSUME Hit(c) PROVE Places'
  <2>1. found[c] \in Entry
    BY <1>3 DEF Hit, Fresh
  <2>2. OK(found[c].body) \in Responses
    BY <2>1, ResponseOf DEF Entry
  <2>3. at[c] > 0 /\ cfg' = cfg /\ Return(c, OK(found[c].body))
    BY <1>3, PlaceOf DEF Hit, context, Placed
  <2> QED BY <2>2, <2>3, GoesOut
<1>4. ASSUME CachePasses(c) \/ Store(c) \/ FillPanics(c) PROVE Places'
  <2>1. /\ at[c] > 0 /\ cfg' = cfg /\ resp[c] \in Responses
        /\ Return(c, resp[c]) \/ Return(c, Panic)
    BY <1>4, PlaceOf DEF CachePasses, Store, FillPanics, At, context, Placed
  <2> QED BY <2>1, GoesOut, ResponseOf
<1>5. ASSUME Fill(c) PROVE Places'
  <2>1. PICK b \in BodyRead(c) : resp' = [resp EXCEPT ![c].body = b]
    BY <1>5 DEF Fill
  <2>2. /\ at[c] > 0 /\ at[c] < Network /\ cfg' = cfg /\ at' = at
        /\ LayerAt(at[c]) = "cache" /\ b \in {"whole", "part"}
    BY <1>5, PlaceOf, ReadResponse DEF Fill, Readable, At, context
  <2>3. Placed(at[c], "store", [resp[c] EXCEPT !.body = b])
    BY <2>2, PlaceOf, ReadResponse DEF Placed, Positions, Inbound
  <2> QED BY <1>5, <2>1, <2>2, <2>3, ReadResponse, StaysIn DEF Fill
<1> QED BY <1>1, <1>2, <1>3, <1>4, <1>5 DEF CacheStep

LEMMA SharedPlaces ==
  ASSUME Types, Places, NEW c \in Callers, SharedStep(c)
  PROVE  Places'
<1> USE DEF Types, ContextTypes, CacheTypes, SharedTypes
<1>1. ASSUME Join(c) PROVE Places'
  <2>1. /\ at[c] > 0 /\ cfg' = cfg /\ at' = at /\ pc[c] = "in" /\ LayerAt(at[c]) = "singleflight"
        /\ resp' = [resp EXCEPT ![c] = resp[c]]
    BY <1>1, PlaceOf DEF Join, At, context, Places
  <2>2. Placed(at[c], "wait", resp[c]) /\ Placed(at[c], "late", resp[c])
    BY <2>1, PlaceOf DEF Placed, Positions, Inbound
  <2>3. Goto(c, "wait") \/ Goto(c, "late")
    BY <1>1 DEF Join
  <2> QED BY <2>1, <2>2, <2>3, StaysIn
<1>2. ASSUME Lead(c) PROVE Places'
  <2>1. at[c] < Network /\ cfg' = cfg /\ pc[c] = "in" /\ CallNext(c)
    BY <1>2, PlaceOf DEF Lead, At, context
  <2> QED BY <2>1, GoesIn
<1>3. ASSUME ShareAnswer(c) PROVE Places'
  <2>1. PICK b \in Buffered(c) : resp' = [resp EXCEPT ![c].body = b]
    BY <1>3 DEF ShareAnswer
  <2>2. /\ at[c] > 0 /\ at[c] < Network /\ cfg' = cfg /\ at' = at
        /\ LayerAt(at[c]) = "singleflight"
    BY <1>3, PlaceOf DEF ShareAnswer, At, context
  <2>3. \A p \in {"delete", "again"} : Placed(at[c], p, [resp[c] EXCEPT !.body = b])
    BY <2>2, PlaceOf, ReadResponse DEF Placed, Positions, Inbound
  <2>4. Goto(c, "delete") \/ Goto(c, "again")
    BY <1>3 DEF ShareAnswer
  <2> QED BY <2>1, <2>2, <2>3, <2>4, ReadResponse, StaysIn
<1>4. ASSUME DeleteCall(c) \/ Wake(c) \/ DoneAgain(c) PROVE Places'
  <2>1. at[c] > 0 /\ cfg' = cfg /\ resp[c] \in Responses /\ answer[leaderOf[c]] \in Responses
    BY <1>4, PlaceOf DEF DeleteCall, Wake, DoneAgain, context, Placed
  <2>2. \E r \in {Copied(resp[c]), Copied(answer[leaderOf[c]]), Panic} : Return(c, r)
    BY <1>4 DEF DeleteCall, Wake, DoneAgain
  <2> QED BY <2>1, <2>2, ResponseOf, GoesOut
<1>5. ASSUME WakeBroken(c) PROVE Places'
  <2>1. /\ at[c] > 0 /\ cfg' = cfg /\ pc[c] = "wait" /\ LayerAt(at[c]) = "singleflight"
        /\ resp = [resp EXCEPT ![c] = resp[c]]
    BY <1>5, PlaceOf DEF WakeBroken, context, Placed, Places
  <2>2. CASE Return(c, Panic)
    BY <2>1, <2>2, ResponseOf, GoesOut
  <2>3. CASE Goto(c, "late") /\ UNCHANGED <<at, resp>>
    <3>1. Placed(at[c], "late", resp[c])
      BY <2>1, PlaceOf DEF Placed, Positions, Inbound
    <3> QED BY <2>1, <2>3, <3>1, StaysIn
  <2> QED BY <1>5, <2>2, <2>3 DEF WakeBroken
<1> QED BY <1>1, <1>2, <1>3, <1>4, <1>5 DEF SharedStep

LEMMA TimeoutPlaces ==
  ASSUME Types, Places, NEW c \in Callers, TimeoutsStep(c)
  PROVE  Places'
<1> USE DEF Types, ContextTypes, CacheTypes, SharedTypes
<1>1. ASSUME TimeoutEnter(c) \/ AdaptiveStart(c) PROVE Places'
  <2>1. at[c] < Network /\ cfg' = cfg /\ pc[c] \in {"in", "start"} /\ CallNext(c)
    BY <1>1, PlaceOf DEF TimeoutEnter, AdaptiveStart, At, context, Placed, LayerAt
  <2> QED BY <2>1, GoesIn
<1>2. ASSUME TimeoutReturns(c) \/ AdaptiveReturns(c) PROVE Places'
  <2>1. at[c] > 0 /\ cfg' = cfg /\ resp[c] \in Responses
    BY <1>2, PlaceOf DEF TimeoutReturns, AdaptiveReturns, ReturnCancelling, At, context, Placed
  <2>2. Return(c, Error("timeout")) \/ Return(c, resp[c])
    BY <1>2 DEF TimeoutReturns, AdaptiveReturns, ReturnCancelling
  <2> QED BY <2>1, <2>2, GoesOut, ResponseOf
<1>3. ASSUME AdaptiveEnter(c) \/ AdaptiveRecord(c) PROVE Places'
  <2>1. /\ at[c] > 0 /\ at[c] < Network /\ cfg' = cfg /\ at' = at /\ LayerAt(at[c]) = "adaptive"
        /\ resp' = [resp EXCEPT ![c] = resp[c]]
    BY <1>3, PlaceOf DEF AdaptiveEnter, AdaptiveRecord, At, context, Places
  <2>2. pc[c] = "in" => Placed(at[c], "start", resp[c])
    BY <2>1, PlaceOf DEF Placed, Positions, Inbound
  <2>3. Placed(at[c], "judge", resp[c]) \/ pc[c] = "in"
    BY <1>3, <2>1, PlaceOf DEF Placed, Positions, Inbound, AdaptiveEnter, At
  <2> QED BY <1>3, <2>1, <2>2, <2>3, StaysIn DEF AdaptiveEnter, AdaptiveRecord, At
<1> QED BY <1>1, <1>2, <1>3 DEF TimeoutsStep

LEMMA PlacesSame ==
  ASSUME Places, UNCHANGED <<cfg, at, pc, resp>>
  PROVE  Places'
BY DEF Places, Placed, Network, LayerAt, Positions, Responses, Inbound, NoResp

LEMMA PlacesStep == Types /\ Places /\ [Next]_vars => Places'
<1> SUFFICES ASSUME Types, Places, [Next]_vars PROVE Places'
  OBVIOUS
<1>1. ASSUME NEW c \in cfg.callers, Execute(c) PROVE Places'
  <2>1. c \in Callers
    BY Shape DEF Types, ContextTypes
  <2> QED BY <1>1, <2>1, ChainPlaces, RecordPlaces, CachePlaces, SharedPlaces, TimeoutPlaces DEF Execute
<1>2. ASSUME NEW c \in cfg.callers, Surroundings(c) PROVE Places'
  BY <1>2, PlacesSame DEF Surroundings, Fault, ContextEnds, NetworkBreaks, Expire
<1>3. CASE Tick \/ Snapshot \/ HealthStep \/ UNCHANGED vars
  BY <1>3, PlacesSame
     DEF Tick, Snapshot, HealthStep, NewHealthChecker, SetRef, CloseBegins, CloseChecker, LoopStops,
         vars, chainVars, context
<1> QED BY <1>1, <1>2, <1>3 DEF Next, Terminating

-----------------------------------------------------------------------------
(* The percentile of the durations. *)

\* A nonempty set of natural numbers has a smallest element.
LEMMA LeastElement ==
  ASSUME NEW S \in SUBSET Nat, S # {}
  PROVE  \E m \in S : \A n \in S : m <= n
<1>1. PICK m \in S : \A n \in S : <<n, m>> \notin OpToRel(<, Nat)
  BY WFMin, NatLessThanWellFounded, Zenon
<1>2. ASSUME NEW n \in S PROVE ~(n < m)
  BY <1>1, Zenon DEF OpToRel
<1> QED BY <1>2

LEMMA Indices ==
  ASSUME NEW s \in Seq(Int), NEW T \in SUBSET DOMAIN s
  PROVE  /\ DOMAIN s = 1 .. Len(s) /\ Len(s) \in Nat
         /\ Cardinality(DOMAIN s) = Len(s)
         /\ IsFiniteSet(T) /\ Cardinality(T) \in 0 .. Len(s)
         /\ \A U \in SUBSET T : /\ Cardinality(U) <= Cardinality(T)
                                /\ U # T => Cardinality(U) < Cardinality(T)
<1>0. Len(s) \in Nat /\ DOMAIN s = 1 .. Len(s)
  OBVIOUS
<1>1. IsFiniteSet(1 .. Len(s)) /\ Cardinality(1 .. Len(s)) = Len(s)
  <2> DEFINE n == Len(s)
  <2>1. n \in Int /\ n >= 0
    BY <1>0
  <2> HIDE DEF n
  <2>2. IsFiniteSet(1 .. n) /\ Cardinality(1 .. n) = IF 1 > n THEN 0 ELSE n - 1 + 1
    BY <2>1, FS_Interval
  <2>3. Cardinality(1 .. n) = n
    BY <2>1, <2>2
  <2> QED BY <2>2, <2>3 DEF n
<1>2. IsFiniteSet(T) /\ Cardinality(T) <= Len(s)
  BY <1>0, <1>1, FS_Subset
<1>3. Cardinality(T) \in Nat
  BY <1>2, FS_CardinalityType
<1>4. ASSUME NEW U \in SUBSET T
      PROVE  Cardinality(U) <= Cardinality(T) /\ (U # T => Cardinality(U) < Cardinality(T))
  BY <1>2, <1>3, FS_Subset, FS_CardinalityType
<1> QED BY <1>0, <1>1, <1>2, <1>3, <1>4

\* Among some places of a sequence of numbers there is one with the greatest.
LEMMA GreatestAt ==
  ASSUME NEW s \in Seq(Int), NEW T \in SUBSET DOMAIN s, T # {}
  PROVE  \E i \in T : \A j \in T : s[j] <= s[i]
<1> DEFINE Above(i) == {j \in T : s[j] > s[i]}
           Ranks == {Cardinality(Above(i)) : i \in T}
<1>1. \A i \in T : Cardinality(Above(i)) \in Nat
  BY Indices
<1>2. PICK m \in Ranks : \A n \in Ranks : m <= n
  <2>1. Ranks \in SUBSET Nat /\ Ranks # {}
    BY <1>1
  <2> HIDE DEF Ranks
  <2> QED BY <2>1, LeastElement
<1>3. PICK i \in T : m = Cardinality(Above(i))
  BY <1>2
<1>4. ASSUME NEW j \in T, s[j] > s[i] PROVE FALSE
  <2>1. s[i] \in Int /\ s[j] \in Int /\ \A k \in T : s[k] \in Int
    OBVIOUS
  <2>2. Above(j) \subseteq Above(i) /\ j \in Above(i) /\ j \notin Above(j)
    BY <1>4, <2>1
  <2>3. Cardinality(Above(j)) < Cardinality(Above(i))
    <3>1. Above(j) \in SUBSET Above(i) /\ Above(j) # Above(i) /\ Above(i) \in SUBSET DOMAIN s
      BY <2>2
    <3> HIDE DEF Above
    <3> QED BY <3>1, Indices
  <2>4. Cardinality(Above(i)) <= Cardinality(Above(j))
    BY <1>2, <1>3
  <2> QED BY <1>1, <2>3, <2>4
<1>5. ASSUME NEW j \in T PROVE s[j] <= s[i]
  <2>1. s[i] \in Int /\ s[j] \in Int
    OBVIOUS
  <2>2. ~ (s[j] > s[i])
    BY <1>4
  <2> QED BY <2>1, <2>2
<1> HIDE DEF Above, Ranks
<1> QED BY <1>5

Below(s, v) == {i \in DOMAIN s : s[i] < v}
UpTo(s, v) == {i \in DOMAIN s : s[i] <= v}
Rank(n) == ((n - 1) * Percentile) \div 100

\* The rank is that of an element, and grows with the sequence.
LEMMA RankWithin ==
  ASSUME NEW n \in Nat \ {0}
  PROVE  Rank(n) \in 0 .. n - 1 /\ Rank(n) <= Rank(n + 1)
<1>1. Percentile \in 1 .. 100
  BY TimeoutsAssumption
<1>2. /\ (n - 1) * Percentile \in Nat /\ n * Percentile \in Nat
      /\ (n - 1) * Percentile <= (n - 1) * 100
      /\ (n - 1) * Percentile <= n * Percentile
  BY <1>1
<1>3. ASSUME NEW a \in Nat, NEW b \in Nat, a <= b PROVE a \div 100 <= b \div 100 /\ a \div 100 \in Nat
  BY <1>3
<1>4. n + 1 - 1 = n /\ ((n - 1) * 100) \div 100 = n - 1 /\ (n - 1) * 100 \in Nat
  OBVIOUS
<1>5. Rank(n) \in Nat /\ Rank(n) <= ((n - 1) * 100) \div 100
  BY <1>2, <1>3, <1>4 DEF Rank
<1>6. Rank(n) <= Rank(n + 1)
  BY <1>2, <1>3, <1>4 DEF Rank
<1> QED BY <1>4, <1>5, <1>6

\* Quantile chooses an element of the rank it says.
LEMMA QuantileOf ==
  ASSUME NEW s \in Seq(Int), Len(s) > 0
  PROVE  /\ Quantile(s) \in Int
         /\ Cardinality(Below(s, Quantile(s))) <= Rank(Len(s))
         /\ Rank(Len(s)) < Cardinality(UpTo(s, Quantile(s)))
<1> DEFINE Reached == {i \in DOMAIN s : Rank(Len(s)) < Cardinality(UpTo(s, s[i]))}
           Sizes == {Cardinality(UpTo(s, s[i])) : i \in Reached}
<1>0. /\ DOMAIN s = 1 .. Len(s) /\ Len(s) \in Nat \ {0} /\ DOMAIN s # {} /\ \A i \in DOMAIN s : s[i] \in Int
      /\ Rank(Len(s)) \in 0 .. Len(s) - 1
  <2>1. DOMAIN s = 1 .. Len(s) /\ Len(s) \in Nat \ {0} /\ \A i \in DOMAIN s : s[i] \in Int
    OBVIOUS
  <2>2. 1 \in DOMAIN s
    BY <2>1
  <2>3. Rank(Len(s)) \in 0 .. Len(s) - 1
    BY <2>1, RankWithin
  <2> QED BY <2>1, <2>2, <2>3
<1>1. \A v : /\ Below(s, v) \in SUBSET DOMAIN s /\ UpTo(s, v) \in SUBSET DOMAIN s
             /\ Cardinality(UpTo(s, v)) \in Nat /\ Cardinality(Below(s, v)) \in Nat
  BY Indices DEF Below, UpTo
<1>2. Reached # {}
  <2>1. PICK i \in DOMAIN s : \A j \in DOMAIN s : s[j] <= s[i]
    BY <1>0, GreatestAt
  <2>2. UpTo(s, s[i]) = DOMAIN s
    BY <2>1 DEF UpTo
  <2>3. Cardinality(UpTo(s, s[i])) = Len(s)
    BY <2>2, Indices
  <2> QED BY <1>0, <2>3
<1>3. Sizes \in SUBSET Nat /\ Sizes # {}
  BY <1>1, <1>2
<1>4. PICK m \in Sizes : \A k \in Sizes : m <= k
  BY <1>3, LeastElement
<1>5. PICK i \in Reached : m = Cardinality(UpTo(s, s[i]))
  BY <1>4
<1>6. Cardinality(Below(s, s[i])) <= Rank(Len(s))
  <2>1. SUFFICES ASSUME Cardinality(Below(s, s[i])) > Rank(Len(s)) PROVE FALSE
    BY <1>0, <1>1
  <2>2. Below(s, s[i]) # {}
    <3>1. Below(s, s[i]) = {} => Cardinality(Below(s, s[i])) = 0
      BY FS_EmptySet, Zenon
    <3>2. Cardinality(Below(s, s[i])) # 0
      BY <1>0, <2>1
    <3> QED BY <3>1, <3>2
  <2>3. PICK j \in Below(s, s[i]) : \A k \in Below(s, s[i]) : s[k] <= s[j]
    BY <1>1, <2>2, GreatestAt
  <2>4. /\ Below(s, s[i]) \in SUBSET UpTo(s, s[j])
        /\ UpTo(s, s[j]) \in SUBSET UpTo(s, s[i])
        /\ i \in UpTo(s, s[i]) /\ i \notin UpTo(s, s[j]) /\ j \in DOMAIN s
    BY <1>0, <2>3 DEF Below, UpTo
  <2>5. /\ Cardinality(Below(s, s[i])) <= Cardinality(UpTo(s, s[j]))
        /\ Cardinality(UpTo(s, s[j])) < Cardinality(UpTo(s, s[i]))
    BY <1>1, <2>4, Indices
  <2>6. j \in Reached
    <3> DEFINE a == Cardinality(Below(s, s[i]))
               b == Cardinality(UpTo(s, s[j]))
    <3>1. a \in Nat /\ b \in Nat /\ Rank(Len(s)) \in Int
      BY <1>0, <1>1
    <3>2. Rank(Len(s)) < a /\ a <= b
      BY <2>1, <2>5
    <3>3. Rank(Len(s)) < b
      <4> HIDE DEF a, b
      <4> QED BY <3>1, <3>2
    <3> QED BY <2>4, <3>3
  <2>7. Cardinality(UpTo(s, s[j])) \in Sizes
    BY <2>6
  <2>8. m <= Cardinality(UpTo(s, s[j]))
    BY <1>4, <2>7
  <2> QED BY <1>1, <1>5, <2>5, <2>8
<1>7. \E v \in {s[k] : k \in DOMAIN s} :
        Cardinality({k \in DOMAIN s : s[k] < v}) <= Rank(Len(s)) /\ Rank(Len(s)) < Cardinality({k \in DOMAIN s : s[k] <= v})
  BY <1>5, <1>6 DEF Below, UpTo
<1>8. /\ Quantile(s) \in {s[k] : k \in DOMAIN s}
      /\ Cardinality({k \in DOMAIN s : s[k] < Quantile(s)}) <= Rank(Len(s))
      /\ Rank(Len(s)) < Cardinality({k \in DOMAIN s : s[k] <= Quantile(s)})
  BY <1>7, Zenon DEF Quantile, Rank
<1> QED BY <1>0, <1>8 DEF Below, UpTo

\* One more duration does not lower the quantile below itself.
LEMMA QuantileAppend ==
  ASSUME NEW s \in Seq(Int), Len(s) > 0, NEW d \in Int
  PROVE  Quantile(Append(s, d)) >= Quantile(s) \/ Quantile(Append(s, d)) >= d
<1> DEFINE t == Append(s, d)
           q == Quantile(s)
           v == Quantile(t)
<1>1. /\ t \in Seq(Int) /\ Len(t) = Len(s) + 1 /\ DOMAIN t = 1 .. Len(s) + 1
      /\ DOMAIN s = 1 .. Len(s) /\ Len(s) \in Nat \ {0}
      /\ \A i \in DOMAIN s : t[i] = s[i] /\ s[i] \in Int
      /\ t[Len(s) + 1] = d
  OBVIOUS
<1>2. v \in Int /\ Rank(Len(s) + 1) < Cardinality(UpTo(t, v))
  <2>1. Len(t) > 0
    BY <1>1
  <2>2. v \in Int /\ Rank(Len(t)) < Cardinality(UpTo(t, v))
    <3> HIDE DEF t
    <3> QED BY <1>1, <2>1, QuantileOf
  <2> QED BY <1>1, <2>2
<1>3. q \in Int /\ Cardinality(Below(s, q)) <= Rank(Len(s))
  BY QuantileOf
<1>4. Rank(Len(s)) \in Int /\ Rank(Len(s) + 1) \in Int /\ Rank(Len(s)) <= Rank(Len(s) + 1)
  BY <1>1, RankWithin
<1> HIDE DEF q, v, t
<1>5. SUFFICES ASSUME v < q, v < d PROVE FALSE
  BY <1>2, <1>3 DEF q, v, t
<1>6. UpTo(t, v) \in SUBSET Below(s, q)
  BY <1>1, <1>2, <1>3, <1>5 DEF UpTo, Below
<1>7. Below(s, q) \in SUBSET DOMAIN s
  BY DEF Below
<1>8. /\ Cardinality(UpTo(t, v)) <= Cardinality(Below(s, q))
      /\ Cardinality(UpTo(t, v)) \in Nat /\ Cardinality(Below(s, q)) \in Nat
  BY <1>6, <1>7, Indices
<1> QED BY <1>2, <1>3, <1>4, <1>8

-----------------------------------------------------------------------------
(* Types. *)

USE DEF ContextTypes, CacheTypes, SharedTypes, TimeoutTypes, HealthTypes

LEMMA NetworkSame == cfg' = cfg => Network' = Network
  BY DEF Network

\* The response that a layer passes to the next has an entry's parts.
LEMMA StoredResponse ==
  ASSUME Types, Places, NEW c \in Callers, pc[c] = "store"
  PROVE  [body |-> resp[c].body, created |-> clock] \in Entry
  BY PlaceOf DEF Types, Placed, Entry

LEMMA ContextStep == Types /\ Places /\ [Next]_vars => ContextTypes'
<1> SUFFICES ASSUME Types, Places, [Next]_vars PROVE ContextTypes'
  OBVIOUS
<1> USE DEF Types
<1>1. ASSUME UNCHANGED context PROVE ContextTypes'
  BY <1>1, NetworkSame DEF context
<1>2. ASSUME NEW c \in Callers, ChainStep(c) PROVE ContextTypes'
  <2>1. CASE Do(c)
    BY <2>1, NetworkSame, Shape DEF Do
  <2> QED BY <1>1, <1>2, <2>1
          DEF ChainStep, HttpReturns, HooksBefore, HooksAfter, FallbackNext, FallbackReturns, ReadBody
<1>3. ASSUME NEW c \in Callers, NEW i \in 0 .. Network, cfg' = cfg, key' = key, clock' = clock,
             ended' = [ended EXCEPT ![c] = @ \cup {i}], callerFirst' \in [Callers -> BOOLEAN]
      PROVE  ContextTypes'
  BY <1>3, NetworkSame
<1>4. ASSUME NEW c \in Callers, TimeoutsStep(c) PROVE ContextTypes'
  <2>1. ASSUME TimeoutReturns(c) \/ AdaptiveReturns(c) PROVE ContextTypes'
    <3>1. at[c] \in 0 .. Network
      BY PlaceOf
    <3>2. ASSUME ReturnCancelling(c) PROVE ContextTypes'
      BY <1>3, <3>1, <3>2 DEF ReturnCancelling
    <3> QED BY <1>1, <2>1, <3>2 DEF TimeoutReturns, AdaptiveReturns
  <2> QED BY <1>1, <1>4, <2>1
          DEF TimeoutsStep, TimeoutEnter, AdaptiveEnter, AdaptiveStart, AdaptiveRecord
<1>5. ASSUME NEW c \in Callers, Surroundings(c) PROVE ContextTypes'
  <2>1. CASE ContextEnds(c)
    <3>1. 0 \in 0 .. Network /\ callerFirst' \in [Callers -> BOOLEAN]
      BY <2>1, Shape DEF ContextEnds
    <3> QED BY <1>3, <2>1, <3>1 DEF ContextEnds
  <2>2. CASE NetworkBreaks(c)
    <3>1. Network \in 0 .. Network /\ callerFirst' \in [Callers -> BOOLEAN]
      BY <2>2, Shape DEF NetworkBreaks
    <3> QED BY <1>3, <2>2, <3>1 DEF NetworkBreaks
  <2>3. CASE Expire(c)
    <3>1. PICK i \in live[c] : ended' = [ended EXCEPT ![c] = @ \cup {i}]
      BY <2>3 DEF Expire
    <3>2. i \in 0 .. Network
      BY Shape
    <3> QED BY <1>3, <2>3, <3>1, <3>2 DEF Expire
  <2> QED BY <1>5, <2>1, <2>2, <2>3 DEF Surroundings, Fault
<1>6. CASE Tick
  BY <1>6, NetworkSame DEF Tick
<1>7. ASSUME NEW c \in Callers, Execute(c) PROVE ContextTypes'
  BY <1>1, <1>2, <1>4, <1>7
     DEF Execute, RecordRequest, RecordFailed, CacheStep, CacheSkips, Lookup, Hit, Miss, CachePasses, Fill, FillPanics,
         Store, SharedStep, Join, Lead, ShareAnswer, DoneAgain, DeleteCall, Wake, WakeBroken
<1>8. cfg.callers \subseteq Callers
  BY Shape
<1> QED
  BY <1>1, <1>5, <1>6, <1>7, <1>8
     DEF Next, Terminating, Snapshot, HealthStep, NewHealthChecker, SetRef, CloseBegins, CloseChecker,
         LoopStops, vars, chainVars

LEMMA CacheTypesStep == Types /\ Places /\ [Next]_vars => CacheTypes'
<1> SUFFICES ASSUME Types, Places, [Next]_vars PROVE CacheTypes'
  OBVIOUS
<1>1. ASSUME UNCHANGED cacheVars PROVE CacheTypes'
  BY <1>1 DEF cacheVars, Types
<1>2. ASSUME NEW c \in Callers, CacheStep(c) PROVE CacheTypes'
  <2>1. CASE Lookup(c) \/ Hit(c) \/ Miss(c)
    BY <2>1 DEF Lookup, Hit, Miss, Cacheable, Types
  <2>2. CASE Store(c)
    <3>1. [body |-> resp[c].body, created |-> clock] \in Entry
      BY <2>2, StoredResponse DEF Store
    <3> QED BY <2>2, <3>1 DEF Store, Types
  <2> QED BY <1>1, <1>2, <2>1, <2>2 DEF CacheStep, CacheSkips, CachePasses, Fill, FillPanics, cacheVars
<1>3. cfg.callers \subseteq Callers
  BY Shape DEF Types
<1> QED BY <1>1, <1>2, <1>3 DEF Next, Execute, Surroundings, Terminating, vars

LEMMA SharedTypesStep == Types /\ Places /\ [Next]_vars => SharedTypes'
<1> SUFFICES ASSUME Types, Places, [Next]_vars PROVE SharedTypes'
  OBVIOUS
<1>1. ASSUME UNCHANGED sharedVars PROVE SharedTypes'
  BY <1>1 DEF sharedVars, Types
<1>2. ASSUME NEW c \in Callers, SharedStep(c) PROVE SharedTypes'
  <2>0. calls \in SUBSET Callers /\ leaderOf \in [Callers -> Callers] /\ answer \in [Callers -> Responses]
    BY DEF Types, SharedTypes
  <2>1. CASE Join(c)
    <3>1. PICK l \in calls : leaderOf' = [leaderOf EXCEPT ![c] = l]
      BY <2>1 DEF Join, LeadersOf
    <3> QED BY <2>0, <2>1, <3>1 DEF Join, SharedTypes
  <2>3. CASE Lead(c) \/ DeleteCall(c)
    BY <2>0, <2>3 DEF Lead, DeleteCall, SharedTypes
  <2>2. CASE ShareAnswer(c)
    <3>1. resp' \in [Callers -> Responses]
      BY <1>2, SharedPlaces DEF Places
    <3> QED BY <2>2, <3>1 DEF ShareAnswer, Types
  <2> QED BY <1>1, <1>2, <2>1, <2>2, <2>3 DEF SharedStep, DoneAgain, Wake, WakeBroken, sharedVars
<1>3. cfg.callers \subseteq Callers
  BY Shape DEF Types
<1> QED BY <1>1, <1>2, <1>3 DEF Next, Execute, Surroundings, Terminating, vars

\* The durations that record keeps are numbers, no more than MaxSamples.
LEMMA WithFits ==
  ASSUME TimeoutTypes, NEW d \in Int
  PROVE  /\ With(d) \in Seq(Int) /\ Len(With(d)) \in 1 .. MaxSamples
         /\ Len(durations) < MaxSamples => With(d) = Append(durations, d)
<1> DEFINE s == Append(durations, d)
           cut == SubSeq(s, Len(s) - Keep + 1, Len(s))
<1>1. s \in Seq(Int) /\ Len(s) = Len(durations) + 1 /\ Len(durations) \in Nat
  OBVIOUS
<1>2. Keep \in Nat \ {0} /\ MaxSamples \in Nat \ {0} /\ Keep <= MaxSamples
  BY TimeoutsAssumption
<1>3. CASE Len(s) > MaxSamples
  <2>1. Len(s) - Keep + 1 \in 1 .. Len(s) /\ Len(s) \in Nat
    BY <1>1, <1>2, <1>3
  <2> HIDE DEF s
  <2>2. cut \in Seq(Int) /\ Len(cut) = Keep
    BY <1>1, <1>2, <1>3, <2>1
  <2>3. With(d) = cut
    BY <1>3 DEF With, s
  <2> QED BY <1>1, <1>2, <1>3, <2>2, <2>3
<1>4. CASE ~(Len(s) > MaxSamples)
  <2>1. With(d) = s
    BY <1>4 DEF With
  <2> QED BY <1>1, <1>2, <1>4, <2>1
<1> QED BY <1>3, <1>4

LEMMA TimeoutTypesStep == Types /\ Places /\ [Next]_vars => TimeoutTypes'
<1> SUFFICES ASSUME Types, Places, [Next]_vars PROVE TimeoutTypes'
  OBVIOUS
<1> USE DEF Types
<1>1. ASSUME UNCHANGED <<cfg, timeoutVars>> PROVE TimeoutTypes'
  BY <1>1 DEF timeoutVars
<1>2. ASSUME NEW c \in Callers, TimeoutsStep(c) PROVE TimeoutTypes'
  <2>0. Layer(c) # "none" => at[c] \in DOMAIN cfg.chain
    BY PlaceOf
  <2>1. CASE TimeoutEnter(c)
    BY <2>0, <2>1 DEF TimeoutEnter, At, context
  <2>2. ASSUME NEW i, cfg' = cfg, live' = [live EXCEPT ![c] = @ \ {i}],
               {limit', due', begun'} \subseteq [Callers -> Int], UNCHANGED <<durations, median>>
        PROVE  TimeoutTypes'
    BY <2>2
  <2>3. CASE TimeoutReturns(c)
    BY <1>1, <2>2, <2>3 DEF TimeoutReturns, ReturnCancelling, context, timeoutVars
  <2>4. CASE AdaptiveEnter(c)
    <3>1. Initial \in Int
      BY TimeoutsAssumption
    <3>2. limit' \in [Callers -> Int] /\ due' \in [Callers -> Int]
      BY <2>4, <3>1 DEF AdaptiveEnter
    <3> QED BY <2>0, <2>4, <3>2 DEF AdaptiveEnter, At, context
  <2>5. CASE AdaptiveStart(c)
    BY <2>5 DEF AdaptiveStart, context
  <2>6. CASE AdaptiveRecord(c)
    <3>1. Elapsed(c) \in Int
      BY DEF Elapsed
    <3>2. durations' \in Seq(Int) /\ Len(durations') \in 1 .. MaxSamples
      BY <2>6, <3>1, WithFits DEF AdaptiveRecord
    <3>3. median' \in Int
      BY <2>6, <3>2, QuantileOf DEF AdaptiveRecord
    <3> QED BY <2>6, <3>2, <3>3 DEF AdaptiveRecord, context
  <2>7. CASE AdaptiveReturns(c)
    BY <2>2, <2>7 DEF AdaptiveReturns, ReturnCancelling
  <2> QED BY <1>2, <2>1, <2>3, <2>4, <2>5, <2>6, <2>7 DEF TimeoutsStep
<1>3. ASSUME NEW c \in Callers, Execute(c) PROVE TimeoutTypes'
  BY <1>1, <1>2, <1>3
     DEF Execute, ChainStep, Do, HttpReturns, HooksBefore, HooksAfter, FallbackNext, FallbackReturns,
         ReadBody, RecordRequest, RecordFailed, CacheStep, CacheSkips, Lookup, Hit, Miss, CachePasses,
         Fill, FillPanics, Store, SharedStep, Join, Lead, ShareAnswer, DoneAgain, DeleteCall, Wake, WakeBroken, context
<1>4. cfg.callers \subseteq Callers
  BY Shape
<1> QED
  BY <1>1, <1>3, <1>4
     DEF Next, Terminating, Surroundings, Fault, ContextEnds, NetworkBreaks, Expire, Tick, Snapshot,
         HealthStep, NewHealthChecker, SetRef, CloseBegins, CloseChecker, LoopStops, vars, chainVars, context

\* Only Close panics, and only after it has closed the channel.
LEMMA HealthTypesStep == Types /\ [Next]_vars => HealthTypes'
<1> SUFFICES ASSUME Types, [Next]_vars PROVE HealthTypes'
  OBVIOUS
<1>1. CASE CloseChecker
  <2>1. stopCh' \in BOOLEAN
    BY <1>1 DEF CloseChecker
  <2>2. ASSUME checker = "set", stopCh PROVE stopCh'
    BY <1>1, <2>2, Zenon DEF CloseChecker
  <2>3. closer' = "panicked" => checker = "set" /\ stopCh
    BY <1>1 DEF CloseChecker
  <2> QED BY <2>1, <2>2, <2>3
<1>2. HealthStep => HealthTypes'
  BY <1>1 DEF Types, HealthStep, NewHealthChecker, SetRef, CloseBegins, LoopStops
<1> QED
  BY <1>2 DEF Types, Next, Execute, Surroundings, Terminating, healthVars, vars

-----------------------------------------------------------------------------
(* The size of the cache. *)

LEMMA StoreBounded ==
  ASSUME Types, CacheBounded, NEW c \in Callers, Store(c)
  PROVE  CacheBounded'
<1>1. /\ MaxEntries \in Nat /\ ties \in Nat /\ IsFiniteSet(Stored)
      /\ Cardinality(Stored) \in Nat /\ Cardinality(Stored) <= MaxEntries + ties
  BY CacheAssumption, FS_CardinalityType DEF CacheBounded
<1>2. PICK out \in Evictions :
        /\ entries' = [k \in Keys |-> IF k = key[c] THEN [body |-> resp[c].body, created |-> clock]
                                      ELSE IF k \in out THEN NoEntry ELSE entries[k]]
        /\ ties' = IF Full /\ out = {} /\ key[c] \notin Stored THEN ties + 1 ELSE ties
  BY DEF Store
<1>3. Stored' \in SUBSET ((Stored \ out) \cup {key[c]})
  BY <1>2 DEF Stored
<1>4. \/ out = {}
      \/ \E e \in Stored : out = {e}
  BY <1>2 DEF Evictions, Evictable
<1>5. IsFiniteSet(Stored \ out) /\ Cardinality(Stored \ out) \in Nat
  BY <1>1, FS_Subset, FS_CardinalityType
<1>6. /\ IsFiniteSet((Stored \ out) \cup {key[c]})
      /\ Cardinality((Stored \ out) \cup {key[c]})
           = IF key[c] \in Stored \ out THEN Cardinality(Stored \ out) ELSE Cardinality(Stored \ out) + 1
  BY <1>5, FS_AddElement
<1>7. IsFiniteSet(Stored') /\ Cardinality(Stored') <= Cardinality((Stored \ out) \cup {key[c]})
  BY <1>3, <1>6, FS_Subset
<1>8. Cardinality(Stored') \in Nat
  BY <1>7, FS_CardinalityType
<1>9. CASE out = {}
  <2>1. Stored \ out = Stored
    BY <1>9
  <2>2. CASE key[c] \in Stored
    <3>1. Cardinality(Stored') <= Cardinality(Stored)
      BY <1>6, <1>7, <2>1, <2>2
    <3>2. ties' = ties
      BY <1>2, <2>2
    <3> QED BY <1>1, <1>7, <1>8, <3>1, <3>2 DEF CacheBounded
  <2>3. CASE key[c] \notin Stored /\ Full
    BY <1>1, <1>2, <1>6, <1>7, <1>8, <1>9, <2>1, <2>3 DEF CacheBounded
  <2>4. CASE ~Full
    BY <1>1, <1>2, <1>6, <1>7, <1>8, <1>9, <2>1, <2>4 DEF CacheBounded, Full
  <2> QED BY <2>2, <2>3, <2>4
<1>10. CASE out # {}
  <2>1. PICK e \in Stored : out = {e}
    BY <1>4, <1>10
  <2>2. Cardinality(Stored \ out) = Cardinality(Stored) - 1
    BY <1>1, <2>1, FS_RemoveElement
  <2>3. Cardinality(Stored') <= Cardinality(Stored)
    BY <1>1, <1>5, <1>6, <1>7, <1>8, <2>2
  <2>4. ties' = ties
    BY <1>2, <1>10
  <2> QED BY <1>1, <1>7, <1>8, <2>3, <2>4 DEF CacheBounded
<1> QED BY <1>9, <1>10

LEMMA CacheBoundedStep == Types /\ CacheBounded /\ [Next]_vars => CacheBounded'
<1> SUFFICES ASSUME Types, CacheBounded, [Next]_vars PROVE CacheBounded'
  OBVIOUS
<1>1. ASSUME UNCHANGED <<entries, ties>> PROVE CacheBounded'
  BY <1>1 DEF CacheBounded, Stored
<1>2. ASSUME NEW c \in Callers, CacheStep(c) PROVE CacheBounded'
  BY <1>1, <1>2, StoreBounded DEF CacheStep, CacheSkips, Lookup, Hit, Miss, CachePasses, Fill, FillPanics, cacheVars
<1>3. cfg.callers \subseteq Callers
  BY Shape DEF Types
<1> QED BY <1>1, <1>2, <1>3 DEF Next, Execute, Surroundings, Terminating, cacheVars, vars

-----------------------------------------------------------------------------
(* The invariant of the types. *)

LEMMA TypeInit == Init => TypeInv
<1> SUFFICES ASSUME Init PROVE TypeInv
  OBVIOUS
<1>1. ContextTypes
  BY Shape DEF Init, ChainInit
<1>2. CacheTypes
  BY DEF Init, CacheInit
<1>3. SharedTypes
  BY ResponseOf DEF Init, SharedInit
<1>4. TimeoutTypes /\ HealthTypes
  <2>1. Initial \in Int /\ MaxSamples \in Nat
    BY TimeoutsAssumption
  <2>2. {limit, due, begun} \subseteq [Callers -> Int] /\ live \in [Callers -> SUBSET DOMAIN cfg.chain]
    BY DEF Init, TimeoutsInit
  <2>3. durations \in Seq(Int) /\ Len(durations) = 0 /\ median = Initial
    BY DEF Init, TimeoutsInit
  <2>4. HealthTypes
    BY DEF Init, HealthInit
  <2> QED BY <2>1, <2>2, <2>3, <2>4
<1>5. Places
  <2>1. Placed(0, "idle", NoResp)
    BY <1>1, Shape, ResponseOf DEF Placed, Positions, Inbound
  <2> QED BY <2>1 DEF Init, ChainInit, Places, Placed
<1>6. CacheBounded
  <2>1. Stored = {} /\ ties = 0
    BY DEF Init, CacheInit, Stored
  <2>2. IsFiniteSet(Stored) /\ Cardinality(Stored) = 0
    BY <2>1, FS_EmptySet
  <2> QED BY <2>1, <2>2, CacheAssumption DEF CacheBounded
<1> QED BY <1>1, <1>2, <1>3, <1>4, <1>5, <1>6 DEF TypeInv, Types

LEMMA TypeStep == TypeInv /\ [Next]_vars => TypeInv'
  BY ContextStep, CacheTypesStep, SharedTypesStep, TimeoutTypesStep, HealthTypesStep, PlacesStep,
     CacheBoundedStep DEF TypeInv, Types

\* The invariant that every other one of this module rests on: types, what a
\* caller's place says of it, and the size of the cache.
THEOREM TypeInvariant == Spec => []TypeInv
<1>1. Init => TypeInv
  BY TypeInit
<1>2. TypeInv /\ [Next]_vars => TypeInv'
  BY TypeStep
<1> QED BY <1>1, <1>2, PTL DEF Spec

\* Every variable has its type; the cache holds at most MaxEntries, but for the
\* entries stored when all of a full cache bore the present reading of the clock.
THEOREM TypeCorrect == Spec => []TypeOK
<1>1. TypeInv => TypeOK
  <2> SUFFICES ASSUME TypeInv PROVE TypeOK
    OBVIOUS
  <2>1. \A c \in Callers : resp[c] \in Responses
    BY DEF TypeInv, Places
  <2> QED BY <2>1 DEF TypeInv, Types, Places, CacheBounded, TypeOK, Positions, Responses
<1> QED BY <1>1, TypeInvariant, PTL

-----------------------------------------------------------------------------
(* What a step may do to a caller. *)

\* A request is chosen once, contexts end and stay so, and nobody turns round on
\* the way out.
Advances(d) ==
  /\ pc'[d] = "idle" => pc[d] = "idle" /\ ended'[d] = ended[d] /\ live'[d] = live[d]
  /\ pc[d] # "idle" => key'[d] = key[d]
  /\ ended[d] \subseteq ended'[d]
  /\ callerFirst'[d] => callerFirst[d] \/ (ended[d] \subseteq {Network} /\ 0 \in ended'[d])
  /\ Seeking(pc'[d]) => Seeking(pc[d])
  /\ Seeking(pc[d]) \/ at'[d] <= at[d]
  /\ Parked(pc[d]) /\ ~Parked(pc'[d]) => at'[d] < at[d]

\* Where what a caller has been given comes from.
Obtains(d) ==
  /\ resp'[d].status = "timeout" =>
       \/ resp[d].status = "timeout"
       \/ at[d] \in ended[d] /\ at[d] \in DOMAIN cfg.chain /\ 0 \notin ended[d]
       \/ Parked(pc[d]) /\ answer[leaderOf[d]].status = "timeout"
  /\ resp'[d].body = "part" =>
       \/ resp[d].body = "part"
       \/ pc[d] # "idle" /\ ended[d] # {}
       \/ found[d] # NoEntry /\ found[d].body = "part"
       \/ Parked(pc[d]) /\ answer[leaderOf[d]].body = "part"

LEMMA AdvanceSame ==
  ASSUME TypeInv, NEW d \in Callers, UNCHANGED <<pc, at, resp, key, ended, live, callerFirst>>
  PROVE  Advances(d) /\ Obtains(d)
<1>1. at[d] \in Int
  BY PlaceOf DEF TypeInv, Types, Places
<1>2. Advances(d)
  BY <1>1 DEF Advances
<1>3. Obtains(d)
  BY DEF Obtains
<1> QED BY <1>2, <1>3

LEMMA PlaceTypes ==
  ASSUME TypeInv, NEW c \in Callers
  PROVE  /\ at[c] \in Int /\ at \in [Callers -> 0 .. Network] /\ pc \in [Callers -> Positions]
         /\ resp \in [Callers -> Responses] /\ resp[c] \in Responses
         /\ resp[c] = [status |-> resp[c].status, body |-> resp[c].body]
  BY PlaceOf DEF TypeInv, Types, Places

\* Calling next or returning advances.
LEMMA PassAdvances ==
  ASSUME TypeInv, NEW c \in Callers, NEW d \in Callers,
         UNCHANGED <<key, callerFirst>>, pc[c] # "idle", ended[d] \subseteq ended'[d],
         c = d \/ (live'[d] = live[d] /\ ended'[d] = ended[d]), callerFirst'[d] => callerFirst[d],
         (CallNext(c) /\ Seeking(pc[c])) \/ \E r : Return(c, r)
  PROVE  Advances(d)
<1>1. at[d] \in Int /\ at \in [Callers -> 0 .. Network] /\ pc \in [Callers -> Positions]
  BY PlaceTypes
<1>2. CASE d # c
  <2>1. pc'[d] = pc[d] /\ at'[d] = at[d]
    BY <1>1, <1>2 DEF CallNext, Return, Goto
  <2> QED BY <1>1, <1>2, <2>1 DEF Advances
<1>3. CASE d = c /\ CallNext(c) /\ Seeking(pc[c])
  <2>1. pc'[d] = "in"
    BY <1>1, <1>3 DEF CallNext, Goto
  <2> QED BY <1>3, <2>1 DEF Advances, Seeking, Parked
<1>4. ASSUME d = c, NEW r, Return(c, r) PROVE Advances(d)
  <2>1. pc'[d] = "out" /\ at'[d] = at[d] - 1
    BY <1>1, <1>4 DEF Return, Goto
  <2> QED BY <1>1, <1>4, <2>1 DEF Advances, Seeking
<1> QED BY <1>2, <1>3, <1>4

\* So does a step within the layer.
LEMMA StayAdvances ==
  ASSUME TypeInv, NEW c \in Callers, NEW d \in Callers, NEW p,
         UNCHANGED <<key, callerFirst, at, ended>>, pc[c] # "idle",
         c = d \/ live'[d] = live[d],
         Goto(c, p), p # "idle", Seeking(p) => Seeking(pc[c]), Parked(pc[c]) => Parked(p)
  PROVE  Advances(d)
<1>1. at[d] \in Int /\ pc \in [Callers -> Positions]
  BY PlaceTypes
<1>2. pc'[d] = IF d = c THEN p ELSE pc[d]
  BY <1>1 DEF Goto
<1> QED BY <1>1, <1>2 DEF Advances

\* A policy gives its caller what it was given, or an answer of its own.
LEMMA OwnAnswer ==
  ASSUME TypeInv, NEW c \in Callers, NEW d \in Callers,
         \/ UNCHANGED resp
         \/ \E r \in {resp[c], Error("err"), Error("fallback"), Panic, Nil, OK("stream"), OK("whole"), OK("nil")} :
              Return(c, r)
  PROVE  Obtains(d)
<1>1. \/ resp'[d] = resp[d]
      \/ /\ resp'[d].status \in {"err", "fallback", "panic", "nil", "ok"}
         /\ resp'[d].body \in {"none", "nil", "stream", "whole"}
  <2>1. resp \in [Callers -> Responses]
    BY PlaceTypes
  <2>2. ASSUME NEW r, Return(c, r) PROVE resp'[d] = IF d = c THEN r ELSE resp[d]
    BY <2>1, <2>2 DEF Return
  <2> QED BY <2>2 DEF Error, OK, Panic, Nil
<1> QED BY <1>1 DEF Obtains

\* What a read gives is cut short only if a context has ended.
LEMMA ReadAnswer ==
  ASSUME TypeInv, NEW c \in Callers, NEW d \in Callers, pc[c] # "idle",
         NEW b \in BodyRead(c) \cup Buffered(c), resp' = [resp EXCEPT ![c].body = b]
  PROVE  Obtains(d)
  BY PlaceTypes DEF BodyRead, Buffered, Obtains

LEMMA ChainAdvances ==
  ASSUME TypeInv, Unbegun, NEW c \in Callers, NEW d \in Callers, ChainStep(c), live' = live
  PROVE  Advances(d) /\ Obtains(d)
<1>1. CASE Do(c)
  <2>1. Obtains(d)
    BY <1>1, OwnAnswer DEF Do, CallNext
  <2>2. /\ pc'[d] = (IF d = c THEN "in" ELSE pc[d]) /\ at'[d] = (IF d = c THEN at[d] + 1 ELSE at[d])
        /\ pc[c] = "idle" /\ at[d] \in Int
    BY <1>1, PlaceTypes DEF Do, CallNext, Goto
  <2>3. pc[d] # "idle" => key'[d] = key[d]
    BY <1>1 DEF Do, TypeInv, Types
  <2> QED BY <1>1, <2>1, <2>2, <2>3 DEF Do, Advances, Seeking, Parked
<1>2. CASE HttpReturns(c) \/ HooksBefore(c) \/ HooksAfter(c) \/ FallbackNext(c) \/ FallbackReturns(c)
  <2>1. Advances(d)
    BY <1>2, PassAdvances
       DEF HttpReturns, HooksBefore, HooksAfter, FallbackNext, FallbackReturns, At, context, Seeking
  <2>2. Obtains(d)
    BY <1>2, OwnAnswer DEF HttpReturns, HooksBefore, HooksAfter, FallbackNext, FallbackReturns, CallNext
  <2> QED BY <2>1, <2>2
<1>3. CASE ReadBody(c)
  <2>1. Advances(d)
    BY <1>3, StayAdvances DEF ReadBody, context, Seeking, Parked
  <2>2. Obtains(d)
    BY <1>3, ReadAnswer DEF ReadBody
  <2> QED BY <2>1, <2>2
<1> QED BY <1>1, <1>2, <1>3 DEF ChainStep

LEMMA RecordAdvances ==
  ASSUME TypeInv, NEW c \in Callers, NEW d \in Callers, RecordRequest(c) \/ RecordFailed(c), live' = live
  PROVE  Advances(d) /\ Obtains(d)
<1>1. Advances(d)
  BY StayAdvances DEF RecordRequest, RecordFailed, context, Seeking, Parked
<1>2. Obtains(d)
  BY OwnAnswer DEF RecordRequest, RecordFailed
<1> QED BY <1>1, <1>2

LEMMA CacheAdvances ==
  ASSUME TypeInv, NEW c \in Callers, NEW d \in Callers, CacheStep(c), live' = live
  PROVE  Advances(d) /\ Obtains(d)
<1>1. CASE CacheSkips(c) \/ Miss(c) \/ CachePasses(c) \/ Store(c) \/ FillPanics(c)
  <2>1. Advances(d)
    BY <1>1, PassAdvances DEF CacheSkips, Miss, CachePasses, Store, FillPanics, At, context, Seeking
  <2>2. Obtains(d)
    BY <1>1, OwnAnswer DEF CacheSkips, Miss, CachePasses, Store, FillPanics, CallNext
  <2> QED BY <2>1, <2>2
<1>2. CASE Lookup(c)
  <2>1. Advances(d)
    BY <1>2, StayAdvances DEF Lookup, At, context, Seeking, Parked
  <2>2. Obtains(d)
    BY <1>2, OwnAnswer DEF Lookup
  <2> QED BY <2>1, <2>2
<1>3. CASE Hit(c)
  <2>1. Advances(d)
    BY <1>3, PassAdvances DEF Hit, context, Seeking
  <2>2. Obtains(d)
    BY <1>3, PlaceTypes DEF Hit, Fresh, Return, OK, Obtains
  <2> QED BY <2>1, <2>2
<1>4. CASE Fill(c)
  <2>1. Advances(d)
    BY <1>4, StayAdvances DEF Fill, Readable, At, context, Seeking, Parked
  <2>2. Obtains(d)
    BY <1>4, ReadAnswer DEF Fill, Readable, At
  <2> QED BY <2>1, <2>2
<1> QED BY <1>1, <1>2, <1>3, <1>4 DEF CacheStep

\* What a copy gives is no timeout and no truncated body but that of the result.
LEMMA CopyOf ==
  ASSUME NEW r
  PROVE  /\ Copied(r).status = "timeout" => r.status = "timeout"
         /\ Copied(r).body = "part" => r.body = "part"
         /\ Copied(r) \in {r, Error("err"), Panic}
  BY DEF Copied, Error, Panic

LEMMA SharedAdvances ==
  ASSUME TypeInv, NEW c \in Callers, NEW d \in Callers, SharedStep(c), live' = live
  PROVE  Advances(d) /\ Obtains(d)
<1>1. CASE Join(c)
  <2>1. PICK p \in {"wait", "late"} : Goto(c, p)
    BY <1>1 DEF Join
  <2>2. Advances(d)
    BY <1>1, <2>1, StayAdvances DEF Join, At, context, Seeking, Parked
  <2>3. Obtains(d)
    BY <1>1, OwnAnswer DEF Join
  <2> QED BY <2>2, <2>3
<1>2. CASE Lead(c) \/ DeleteCall(c) \/ DoneAgain(c)
  <2>1. Advances(d)
    BY <1>2, PassAdvances DEF Lead, DeleteCall, DoneAgain, At, context, Seeking
  <2>2. Obtains(d)
    BY <1>2, OwnAnswer, CopyOf DEF Lead, DeleteCall, DoneAgain, CallNext
  <2> QED BY <2>1, <2>2
<1>3. CASE ShareAnswer(c)
  <2>1. PICK p \in {"delete", "again"} : Goto(c, p)
    BY <1>3 DEF ShareAnswer
  <2>2. Advances(d)
    BY <1>3, <2>1, StayAdvances DEF ShareAnswer, At, context, Seeking, Parked
  <2>3. Obtains(d)
    BY <1>3, ReadAnswer DEF ShareAnswer, At
  <2> QED BY <2>2, <2>3
<1>4. CASE Wake(c)
  <2>1. Advances(d)
    BY <1>4, PassAdvances DEF Wake, context, Seeking
  <2>2. resp'[d] = IF d = c THEN Copied(answer[leaderOf[c]]) ELSE resp[d]
    BY <1>4, PlaceTypes DEF Wake, Return
  <2>3. Obtains(d)
    BY <1>4, <2>2, CopyOf DEF Wake, Obtains, Parked
  <2> QED BY <2>1, <2>3
<1>5. CASE WakeBroken(c)
  <2>1. CASE Return(c, Panic)
    BY <1>5, <2>1, PassAdvances, OwnAnswer DEF WakeBroken, context
  <2>2. CASE Goto(c, "late") /\ UNCHANGED <<at, resp>>
    BY <1>5, <2>2, StayAdvances, OwnAnswer DEF WakeBroken, context, Seeking, Parked
  <2> QED BY <1>5, <2>1, <2>2 DEF WakeBroken
<1> QED BY <1>1, <1>2, <1>3, <1>4, <1>5 DEF SharedStep

LEMMA TimeoutAdvances ==
  ASSUME TypeInv, NEW c \in Callers, NEW d \in Callers, TimeoutsStep(c)
  PROVE  Advances(d) /\ Obtains(d)
<1>0. /\ ended \in [Callers -> SUBSET (0 .. Network)] /\ live \in [Callers -> SUBSET DOMAIN cfg.chain]
      /\ at[c] \in 0 .. Network
  BY PlaceOf DEF TypeInv, Types
<1>1. CASE TimeoutEnter(c)
  <2>1. Advances(d)
    BY <1>0, <1>1, PassAdvances DEF TimeoutEnter, At, context, Seeking
  <2>2. Obtains(d)
    BY <1>1, OwnAnswer DEF TimeoutEnter, CallNext
  <2> QED BY <2>1, <2>2
<1>2. CASE AdaptiveEnter(c) \/ AdaptiveRecord(c)
  <2>1. Advances(d)
    BY <1>0, <1>2, StayAdvances DEF AdaptiveEnter, AdaptiveRecord, At, context, Seeking, Parked
  <2>2. Obtains(d)
    BY <1>2, OwnAnswer DEF AdaptiveEnter, AdaptiveRecord
  <2> QED BY <2>1, <2>2
<1>3. CASE AdaptiveStart(c)
  <2>1. Advances(d)
    BY <1>3, PassAdvances DEF AdaptiveStart, At, context, Seeking
  <2>2. Obtains(d)
    BY <1>3, OwnAnswer DEF AdaptiveStart, CallNext
  <2> QED BY <2>1, <2>2
<1>4. ASSUME ReturnCancelling(c), pc[c] # "idle", at[c] \in DOMAIN cfg.chain PROVE Advances(d) /\ Obtains(d)
  <2>1. PICK r \in {Error("timeout"), resp[c]} : Return(c, r) /\ ((r = Error("timeout") /\ OwnDeadline(c)) \/ r = resp[c])
    BY <1>4 DEF ReturnCancelling
  <2>2. /\ UNCHANGED <<key, callerFirst>> /\ ended[d] \subseteq ended'[d]
        /\ c = d \/ (live'[d] = live[d] /\ ended'[d] = ended[d])
    BY <1>0, <1>4 DEF ReturnCancelling
  <2>3. Advances(d)
    BY <1>4, <2>1, <2>2, PassAdvances
  <2>4. CASE r = Error("timeout") /\ OwnDeadline(c)
    <3>1. at[c] \in ended[c] /\ 0 \notin ended[c]
      <4>1. PICK j \in ended[c] : j <= at[c]
        BY <2>4 DEF OwnDeadline, Ended
      <4>2. \A k \in ended[c] : ~(k <= at[c] - 1)
        BY <2>4 DEF OwnDeadline, Ended
      <4>3. ended[c] \subseteq Int
        BY <1>0
      <4>4. cfg \in Programs
        BY DEF TypeInv, Types
      <4>5. DOMAIN cfg.chain = 1 .. Len(cfg.chain) /\ Len(cfg.chain) \in Nat
        BY <4>4, Shape
      <4>6. at[c] \in Int /\ at[c] > 0
        BY <1>4, <4>5
      <4>7. j \in Int
        BY <4>1, <4>3
      <4> QED BY <4>1, <4>2, <4>6, <4>7
    <3>2. resp'[d] = IF d = c THEN Error("timeout") ELSE resp[d]
      BY <2>1, <2>4, PlaceTypes DEF Return
    <3> QED BY <1>4, <2>3, <3>1, <3>2 DEF Error, Obtains
  <2>5. CASE r = resp[c]
    BY <2>1, <2>3, <2>5, OwnAnswer
  <2> QED BY <2>1, <2>3, <2>4, <2>5
<1>5. CASE TimeoutReturns(c) \/ AdaptiveReturns(c)
  <2>1. at[c] \in DOMAIN cfg.chain /\ pc[c] # "idle"
    BY <1>5, PlaceOf DEF TypeInv, Types, TimeoutReturns, AdaptiveReturns, At, Placed, LayerAt
  <2>2. ASSUME Return(c, resp[c]), UNCHANGED <<context, live>> PROVE Advances(d) /\ Obtains(d)
    <3>1. Advances(d)
      BY <2>1, <2>2, PassAdvances DEF context
    <3> QED BY <2>2, <3>1, OwnAnswer
  <2> QED BY <1>4, <1>5, <2>1, <2>2 DEF TimeoutReturns, AdaptiveReturns
<1> QED BY <1>1, <1>2, <1>3, <1>4, <1>5 DEF TimeoutsStep

LEMMA FaultAdvances ==
  ASSUME TypeInv, Unbegun, NEW c \in Callers, NEW d \in Callers, Surroundings(c)
  PROVE  Advances(d) /\ Obtains(d)
<1>0. /\ ended \in [Callers -> SUBSET (0 .. Network)] /\ callerFirst \in [Callers -> BOOLEAN]
      /\ at[d] \in Int
  BY PlaceTypes DEF TypeInv, Types
<1>1. Obtains(d)
  BY OwnAnswer DEF Surroundings, Fault, ContextEnds, NetworkBreaks, Expire
<1>2. pc[c] # "idle" /\ UNCHANGED <<pc, at, key, live>>
  BY DEF Surroundings, Fault, ContextEnds, NetworkBreaks, Expire, InFlight, Unbegun, timeoutVars
<1>3. ended[d] \subseteq ended'[d] /\ (d # c => ended'[d] = ended[d])
  BY <1>0 DEF Surroundings, Fault, ContextEnds, NetworkBreaks, Expire
<1>4. callerFirst'[d] => callerFirst[d] \/ (ended[d] \subseteq {Network} /\ 0 \in ended'[d])
  BY <1>0 DEF Surroundings, Fault, ContextEnds, NetworkBreaks, Expire
<1>5. Advances(d)
  BY <1>0, <1>2, <1>3, <1>4 DEF Advances
<1> QED BY <1>1, <1>5

\* The steps of Do and of the policies change neither the chain nor the time.
LEMMA ExecuteSteady ==
  ASSUME NEW c, Execute(c)
  PROVE  cfg' = cfg /\ clock' = clock
<1>1. ASSUME ChainStep(c) \/ RecordRequest(c) \/ RecordFailed(c) PROVE cfg' = cfg /\ clock' = clock
  BY <1>1 DEF ChainStep, Do, HttpReturns, HooksBefore, HooksAfter, FallbackNext, FallbackReturns, ReadBody,
              RecordRequest, RecordFailed, context
<1>2. ASSUME CacheStep(c) PROVE cfg' = cfg /\ clock' = clock
  BY <1>2 DEF CacheStep, CacheSkips, Lookup, Hit, Miss, CachePasses, Fill, FillPanics, Store, context
<1>3. ASSUME SharedStep(c) PROVE cfg' = cfg /\ clock' = clock
  BY <1>3 DEF SharedStep, Join, Lead, ShareAnswer, DoneAgain, DeleteCall, Wake, WakeBroken, context
<1>4. ASSUME TimeoutsStep(c) PROVE cfg' = cfg /\ clock' = clock
  BY <1>4 DEF TimeoutsStep, TimeoutEnter, TimeoutReturns, AdaptiveEnter, AdaptiveStart, AdaptiveRecord,
              AdaptiveReturns, ReturnCancelling, context
<1> QED BY <1>1, <1>2, <1>3, <1>4 DEF Execute

\* The chain never changes, and the time by a tick at most.
LEMMA CfgSame ==
  ASSUME [Next]_vars
  PROVE  cfg' = cfg /\ (clock' = clock \/ clock' = clock + 1)
<1>1. ASSUME NEW c, Surroundings(c) PROVE cfg' = cfg /\ clock' = clock
  BY <1>1 DEF Surroundings, Fault, ContextEnds, NetworkBreaks, Expire
<1>2. ASSUME Snapshot \/ HealthStep PROVE cfg' = cfg /\ clock' = clock
  BY <1>2 DEF Snapshot, HealthStep, NewHealthChecker, SetRef, CloseBegins, CloseChecker, LoopStops,
              chainVars, context
<1>3. ASSUME Tick PROVE cfg' = cfg /\ clock' = clock + 1
  BY <1>3 DEF Tick
<1>4. ASSUME UNCHANGED vars PROVE cfg' = cfg /\ clock' = clock
  BY <1>4 DEF vars, chainVars, context
<1> QED BY <1>1, <1>2, <1>3, <1>4, ExecuteSteady DEF Next, Terminating

LEMMA EveryAdvances ==
  ASSUME TypeInv, Unbegun, [Next]_vars, NEW d \in Callers
  PROVE  Advances(d) /\ Obtains(d)
<1>1. cfg.callers \subseteq Callers
  BY Shape DEF TypeInv, Types
<1>2. ASSUME NEW c \in Callers, Execute(c) PROVE Advances(d) /\ Obtains(d)
  BY <1>2, ChainAdvances, RecordAdvances, CacheAdvances, SharedAdvances, TimeoutAdvances
     DEF Execute, timeoutVars
<1>3. CASE (Tick \/ Snapshot \/ HealthStep) /\ UNCHANGED timeoutVars
  <2>1. UNCHANGED <<pc, at, resp, key, ended, live, callerFirst>>
    BY <1>3
       DEF Tick, Snapshot, HealthStep, NewHealthChecker, SetRef, CloseBegins, CloseChecker, LoopStops,
           chainVars, context, timeoutVars
  <2> QED BY <2>1, AdvanceSame
<1>4. CASE UNCHANGED vars
  BY <1>4, AdvanceSame DEF vars, chainVars, context, timeoutVars
<1> QED BY <1>1, <1>2, <1>3, <1>4, FaultAdvances, AdvanceSame DEF Next, Terminating

-----------------------------------------------------------------------------
(* Shared calls. *)

\* How a step may change what the callers of one key share.
Shares(d) ==
  /\ \/ leaderOf'[d] = leaderOf[d]
     \/ /\ pc[d] = "in" /\ Parked(pc'[d]) /\ resp'[d] = resp[d]
        /\ leaderOf'[d] \in calls /\ key[leaderOf'[d]] = key[d]
  /\ d \in calls' => d \in calls \/ pc[d] # "idle"
  /\ \/ answer'[d] = answer[d]
     \/ /\ pc[d] = "out" /\ Layer(d) = "singleflight"
        /\ \E b \in Buffered(d) : answer'[d] = [resp[d] EXCEPT !.body = b]

LEMMA EveryShares ==
  ASSUME TypeInv, [Next]_vars, NEW d \in Callers
  PROVE  Shares(d)
<1>1. cfg.callers \subseteq Callers /\ leaderOf \in [Callers -> Callers] /\ answer \in [Callers -> Responses]
      /\ resp \in [Callers -> Responses] /\ pc \in [Callers -> Positions]
  BY Shape, PlaceTypes DEF TypeInv, Types
<1>2. ASSUME UNCHANGED sharedVars PROVE Shares(d)
  BY <1>2 DEF sharedVars, Shares
<1>3. ASSUME NEW c \in Callers, Join(c) PROVE Shares(d)
  <2>1. PICK l \in LeadersOf(key[c]), p \in {"wait", "late"} :
          leaderOf' = [leaderOf EXCEPT ![c] = l] /\ pc' = [pc EXCEPT ![c] = p]
    BY <1>3 DEF Join, Goto
  <2> QED BY <1>1, <1>3, <2>1 DEF Join, LeadersOf, At, Shares, Parked
<1>4. ASSUME NEW c \in Callers, Lead(c) \/ DoneAgain(c) \/ DeleteCall(c) \/ Wake(c) \/ WakeBroken(c)
      PROVE  Shares(d)
  BY <1>1, <1>4 DEF Lead, DoneAgain, DeleteCall, Wake, WakeBroken, At, sharedVars, Shares
<1>5. ASSUME NEW c \in Callers, ShareAnswer(c) PROVE Shares(d)
  <2>1. PICK b \in Buffered(c) : resp' = [resp EXCEPT ![c].body = b] /\ answer' = [answer EXCEPT ![c] = resp'[c]]
    BY <1>5 DEF ShareAnswer
  <2>2. resp'[c] = [resp[c] EXCEPT !.body = b]
    BY <1>1, <2>1
  <2>3. answer'[d] = IF d = c THEN [resp[c] EXCEPT !.body = b] ELSE answer[d]
    BY <1>1, <2>1, <2>2
  <2> QED BY <1>5, <2>3 DEF ShareAnswer, At, Shares
<1>6. ASSUME NEW c \in Callers, Execute(c) PROVE Shares(d)
  BY <1>2, <1>3, <1>4, <1>5, <1>6 DEF Execute, SharedStep
<1> QED BY <1>1, <1>2, <1>6 DEF Next, Surroundings, Terminating, vars

LEMMA UnbegunStep == TypeInv /\ Unbegun /\ [Next]_vars => Unbegun'
  BY EveryAdvances DEF Unbegun, Advances

\* A caller at its singleflight, or inside, leads.
LEMMA LeadsInside ==
  ASSUME TypeInv, Following, NEW c \in Callers, Layer(c) = "singleflight", ~Parked(pc[c])
  PROVE  leaderOf[c] = c
<1>1. at[c] \in DOMAIN cfg.chain
  BY PlaceOf DEF TypeInv, Types
<1>2. cfg.chain[at[c]] = "singleflight"
  BY <1>1 DEF Layer
<1>3. at[c] <= at[c]
  <2>1. at[c] \in Int
    BY PlaceTypes
  <2> QED BY <2>1
<1> QED BY <1>1, <1>2, <1>3 DEF Following

LEMMA FollowingStep == TypeInv /\ Unbegun /\ Following /\ [Next]_vars => Following'
<1> SUFFICES ASSUME TypeInv, Unbegun, Following, [Next]_vars, NEW c \in Callers
             PROVE  /\ key'[leaderOf'[c]] = key'[c]
                    /\ leaderOf'[c] # c => pc'[leaderOf'[c]] # "idle"
                    /\ Seeking(pc'[c]) => leaderOf'[c] = c
                    /\ ~Parked(pc'[c]) /\ (\E i \in DOMAIN cfg'.chain : cfg'.chain[i] = "singleflight" /\ i <= at'[c])
                         => leaderOf'[c] = c
                    /\ c \in calls' \/ answer'[c] # NoResp => pc'[c] # "idle"
  BY DEF Following
<1>0. \A d \in Callers : Advances(d) /\ Shares(d)
  BY EveryAdvances, EveryShares
<1>1. leaderOf[c] \in Callers /\ calls \subseteq Callers /\ \A d \in calls : pc[d] # "idle"
  BY DEF TypeInv, Types, Following
<1>2. cfg' = cfg
  BY CfgSame
<1>3. c \in calls' \/ answer'[c] # NoResp => pc'[c] # "idle"
  BY <1>0 DEF Advances, Shares, Following
<1>4. CASE leaderOf'[c] # leaderOf[c]
  <2>1. /\ pc[c] = "in" /\ Parked(pc'[c])
        /\ leaderOf'[c] \in calls /\ key[leaderOf'[c]] = key[c]
    BY <1>0, <1>4 DEF Shares
  <2>2. key'[leaderOf'[c]] = key'[c] /\ pc'[leaderOf'[c]] # "idle"
    BY <1>0, <1>1, <2>1 DEF Advances
  <2> QED BY <1>3, <2>1, <2>2 DEF Seeking, Parked
<1>5. CASE leaderOf'[c] = leaderOf[c]
  <2>1. leaderOf[c] # c => pc[c] # "idle" /\ pc[leaderOf[c]] # "idle"
    BY DEF Following, Seeking
  <2>2. key[leaderOf[c]] = key[c]
    BY DEF Following
  <2>3. key'[leaderOf'[c]] = key'[c] /\ (leaderOf'[c] # c => pc'[leaderOf'[c]] # "idle")
    BY <1>0, <1>1, <1>5, <2>1, <2>2 DEF Advances
  <2>4. Seeking(pc'[c]) => leaderOf'[c] = c
    BY <1>0, <1>5 DEF Advances, Following
  <2>5. ASSUME ~Parked(pc'[c]), NEW i \in DOMAIN cfg.chain, cfg.chain[i] = "singleflight", i <= at'[c]
        PROVE  leaderOf[c] = c
    <3>1. at[c] \in Int /\ at'[c] \in Int /\ i \in Int
      <4>1. at' \in [Callers -> 0 .. Network]
        BY <1>2, TypeStep, NetworkSame DEF TypeInv, Places
      <4>2. i \in Int
        BY Shape DEF TypeInv, Types
      <4>3. at[c] \in Int
        BY PlaceTypes
      <4>4. Network \in Nat
        BY Shape DEF TypeInv, Types
      <4> QED BY <4>1, <4>2, <4>3, <4>4
    <3>2. CASE Seeking(pc[c])
      BY <3>2 DEF Following
    <3>3. CASE Parked(pc[c])
      <4>1. Layer(c) = "singleflight" /\ at[c] \in DOMAIN cfg.chain /\ cfg.chain[at[c]] = "singleflight"
        BY <3>3, PlaceOf DEF TypeInv, Types, Placed, LayerAt, Parked
      <4>2. at[c] = i
        BY <2>5, <4>1, Shape DEF TypeInv, Types
      <4>3. at'[c] < at[c]
        BY <1>0, <2>5, <3>3 DEF Advances
      <4> QED BY <2>5, <3>1, <4>2, <4>3
    <3>4. CASE ~Seeking(pc[c]) /\ ~Parked(pc[c])
      <4>1. at'[c] <= at[c]
        BY <1>0, <3>4 DEF Advances
      <4>2. i <= at[c]
        BY <2>5, <3>1, <4>1
      <4> QED BY <2>5, <3>4, <4>2 DEF Following
    <3> QED BY <3>2, <3>3, <3>4
  <2> QED BY <1>2, <1>3, <1>5, <2>3, <2>4, <2>5
<1> QED BY <1>4, <1>5

-----------------------------------------------------------------------------
(* Whose timeout an answer stands for. *)

LEMMA BlamedStep ==
  TypeInv /\ Unbegun /\ Following /\ Blamed /\ [Next]_vars => Blamed'
<1> SUFFICES ASSUME TypeInv, Unbegun, Following, Blamed, [Next]_vars, NEW c \in Callers
             PROVE  /\ callerFirst'[c] => 0 \in ended'[c]
                    /\ resp'[c].status = "timeout" =>
                         OwnTimeout(c)' \/ (OwnTimeout(leaderOf[c])' /\ leaderOf'[c] = leaderOf[c])
                    /\ answer'[c].status = "timeout" => OwnTimeout(c)'
  BY DEF Blamed, OwnTimeout
<1>0. \A d \in Callers : Advances(d) /\ Obtains(d) /\ Shares(d)
  BY EveryAdvances, EveryShares
<1>1. leaderOf[c] \in Callers /\ cfg' = cfg /\ Network' = Network
  BY CfgSame, NetworkSame DEF TypeInv, Types
<1>2. ASSUME NEW d \in Callers, OwnTimeout(d) PROVE OwnTimeout(d)'
  BY <1>0, <1>1, <1>2 DEF OwnTimeout, Advances
<1>3. callerFirst'[c] => 0 \in ended'[c]
  BY <1>0 DEF Advances, Blamed
<1>4. ASSUME at[c] \in ended[c], at[c] \in DOMAIN cfg.chain, 0 \notin ended[c] PROVE OwnTimeout(c)
  <2>1. ~callerFirst[c]
    BY <1>4 DEF Blamed
  <2>2. at[c] # Network
    BY <1>4, Shape DEF TypeInv, Types
  <2> QED BY <1>4, <2>1, <2>2 DEF OwnTimeout
<1>5. ASSUME resp'[c].status = "timeout"
      PROVE  OwnTimeout(c)' \/ (OwnTimeout(leaderOf[c])' /\ leaderOf'[c] = leaderOf[c])
  <2>1. CASE leaderOf'[c] # leaderOf[c]
    <3>1. pc[c] = "in" /\ resp'[c] = resp[c]
      BY <1>0, <2>1 DEF Shares
    <3>2. resp[c] = NoResp
      BY <3>1, PlaceOf DEF TypeInv, Types, Placed, Inbound
    <3> QED BY <1>5, <3>1, <3>2 DEF NoResp
  <2>2. CASE leaderOf'[c] = leaderOf[c]
    <3>1. OwnTimeout(c) \/ OwnTimeout(leaderOf[c])
      BY <1>0, <1>1, <1>4, <1>5 DEF Obtains, Blamed
    <3> QED BY <1>1, <1>2, <2>2, <3>1
  <2> QED BY <2>1, <2>2
<1>6. ASSUME answer'[c].status = "timeout" PROVE OwnTimeout(c)'
  <2>1. CASE answer'[c] = answer[c]
    BY <1>2, <1>6, <2>1 DEF Blamed
  <2>2. CASE answer'[c] # answer[c]
    <3>1. PICK b \in Buffered(c) : pc[c] = "out" /\ Layer(c) = "singleflight" /\ answer'[c] = [resp[c] EXCEPT !.body = b]
      BY <1>0, <2>2 DEF Shares
    <3>2. resp[c].status = "timeout"
      BY <1>6, <3>1, ReadResponse DEF TypeInv, Types
    <3>3. leaderOf[c] = c
      BY <3>1, LeadsInside DEF Parked
    <3> QED BY <1>2, <3>2, <3>3 DEF Blamed
  <2> QED BY <2>1, <2>2
<1> QED BY <1>3, <1>5, <1>6

-----------------------------------------------------------------------------
(* Where a truncated body comes from. *)

\* How a step may change what the cache holds, or what a caller has found there.
Keeps(d) ==
  \/ found'[d] \in {found[d], NoEntry}
  \/ pc[d] = "in" /\ key[d] \in Keys /\ found'[d] = entries[key[d]] /\ key'[d] = key[d]

LEMMA EveryKeeps ==
  ASSUME TypeInv, [Next]_vars
  PROVE  /\ \A d \in Callers : Keeps(d)
         /\ \A k \in Keys : \/ entries'[k] \in {entries[k], NoEntry}
                            \/ \E c \in Callers : key[c] = k /\ pc[c] # "idle" /\ entries'[k].body = resp[c].body
<1> DEFINE Goal == /\ \A d \in Callers : Keeps(d)
                   /\ \A k \in Keys : \/ entries'[k] \in {entries[k], NoEntry}
                                      \/ \E c \in Callers : key[c] = k /\ pc[c] # "idle" /\ entries'[k].body = resp[c].body
<1>1. /\ cfg.callers \subseteq Callers /\ found \in [Callers -> Entry \cup {NoEntry}]
      /\ key \in [Callers -> Keys \cup {NoKey}]
  BY Shape DEF TypeInv, Types
<1>2. ASSUME UNCHANGED <<entries, found>> PROVE Goal
  BY <1>2 DEF Keeps
<1>3. ASSUME NEW c \in Callers, Lookup(c) PROVE Goal
  BY <1>1, <1>3 DEF Lookup, At, Cacheable, context, Keeps
<1>4. ASSUME NEW c \in Callers, Hit(c) \/ Miss(c) PROVE Goal
  BY <1>1, <1>4 DEF Hit, Miss, Keeps
<1>5. ASSUME NEW c \in Callers, Store(c) PROVE Goal
  BY <1>1, <1>5 DEF Store, Keeps
<1>6. ASSUME NEW c \in Callers, Execute(c) PROVE Goal
  BY <1>2, <1>3, <1>4, <1>5, <1>6 DEF Execute, CacheStep, CacheSkips, CachePasses, Fill, FillPanics, cacheVars
<1> QED BY <1>1, <1>2, <1>6 DEF Next, Surroundings, Terminating, cacheVars, vars

LEMMA TracedStep ==
  TypeInv /\ Unbegun /\ Following /\ Traced /\ [Next]_vars => Traced'
<1> SUFFICES ASSUME TypeInv, Unbegun, Following, Traced, [Next]_vars PROVE Traced'
  OBVIOUS
<1>0. \A d \in Callers : Advances(d) /\ Obtains(d) /\ Shares(d) /\ Keeps(d)
  BY EveryAdvances, EveryShares, EveryKeeps
<1>1. ASSUME NEW k, CutOff(k) PROVE CutOff(k)'
  <2>1. PICK d \in Callers : key[d] = k /\ ended[d] # {}
    BY <1>1 DEF CutOff
  <2>2. pc[d] # "idle"
    BY <2>1 DEF Unbegun
  <2>3. key'[d] = k /\ ended'[d] # {}
    BY <1>0, <2>1, <2>2 DEF Advances
  <2> QED BY <2>3 DEF CutOff
<1>2. ASSUME NEW c \in Callers, CutOff(key[c]), pc[c] # "idle" PROVE CutOff(key[c])'
  BY <1>0, <1>1, <1>2 DEF Advances
<1>3. ASSUME NEW k \in Keys, entries'[k] # NoEntry, entries'[k].body = "part" PROVE CutOff(k)'
  <2>1. CASE entries'[k] \in {entries[k], NoEntry}
    BY <1>1, <1>3, <2>1 DEF Traced
  <2>2. ASSUME NEW c \in Callers, key[c] = k, entries'[k].body = resp[c].body PROVE CutOff(k)'
    BY <1>1, <1>3, <2>2 DEF Traced
  <2> QED BY <2>1, <2>2, EveryKeeps
<1>4. ASSUME NEW c \in Callers, found'[c] # NoEntry, found'[c].body = "part" PROVE CutOff(key[c])'
  <2>1. CASE found'[c] = found[c]
    <3>1. pc[c] # "idle" /\ CutOff(key[c])
      BY <1>4, <2>1 DEF Traced
    <3> QED BY <1>2, <3>1
  <2>2. CASE key[c] \in Keys /\ found'[c] = entries[key[c]] /\ key'[c] = key[c]
    BY <1>1, <1>4, <2>2 DEF Traced
  <2> QED BY <1>0, <1>4, <2>1, <2>2 DEF Keeps
<1>5. ASSUME NEW c \in Callers, resp'[c].body = "part" PROVE CutOff(key[c])'
  <2>1. CASE pc[c] = "idle"
    <3>1. resp[c].body # "part" /\ found[c] = NoEntry
      <4>1. resp[c] = NoResp
        BY <2>1, PlaceOf DEF TypeInv, Types, Placed, Inbound
      <4> QED BY <2>1, <4>1 DEF NoResp, Traced
    <3> QED BY <1>0, <1>5, <2>1, <3>1 DEF Obtains, Parked
  <2>2. CASE pc[c] # "idle"
    <3>1. leaderOf[c] \in Callers /\ key[leaderOf[c]] = key[c]
      BY DEF TypeInv, Types, Following
    <3>2. CutOff(key[c])
      BY <1>0, <1>5, <3>1 DEF Obtains, Traced, CutOff
    <3> QED BY <1>2, <2>2, <3>2
  <2> QED BY <2>1, <2>2
<1>6. ASSUME NEW c \in Callers, answer'[c].body = "part" PROVE CutOff(key[c])'
  <2>1. CASE answer'[c] = answer[c]
    <3>1. pc[c] # "idle"
      BY <1>6, <2>1 DEF Following, NoResp
    <3> QED BY <1>2, <1>6, <2>1, <3>1 DEF Traced
  <2>2. CASE answer'[c] # answer[c]
    <3>1. PICK b \in Buffered(c) : pc[c] = "out" /\ answer'[c] = [resp[c] EXCEPT !.body = b]
      BY <1>0, <2>2 DEF Shares
    <3>2. b = "part"
      BY <1>6, <3>1, ReadResponse DEF TypeInv, Types
    <3>3. CutOff(key[c])
      BY <3>1, <3>2 DEF BodyRead, Buffered, Traced, CutOff
    <3> QED BY <1>2, <3>1, <3>3
  <2> QED BY <2>1, <2>2
<1>7. ASSUME NEW c \in Callers, pc'[c] = "idle" PROVE found'[c] = NoEntry
  BY <1>0, <1>7 DEF Advances, Keeps, Traced
<1> QED BY <1>3, <1>4, <1>5, <1>6, <1>7 DEF Traced

-----------------------------------------------------------------------------
(* The invariant of the answers. *)

AnswerInv == TypeInv /\ Unbegun /\ Following /\ Blamed /\ Traced

LEMMA AnswerInit == Init => AnswerInv
<1> SUFFICES ASSUME Init PROVE AnswerInv
  OBVIOUS
<1>1. TypeInv
  BY TypeInit
<1>2. \A c \in Callers : /\ pc[c] = "idle" /\ ended[c] = {} /\ live[c] = {} /\ callerFirst[c] = FALSE
                         /\ leaderOf[c] = c /\ answer[c] = NoResp /\ resp[c] = NoResp /\ found[c] = NoEntry
  BY DEF Init, ChainInit, TimeoutsInit, SharedInit, CacheInit
<1>3. calls = {} /\ \A k \in Keys : entries[k] = NoEntry
  BY DEF Init, SharedInit, CacheInit
<1>4. Unbegun
  BY <1>2 DEF Unbegun
<1>5. Following
  BY <1>2, <1>3 DEF Following
<1>6. Blamed
  BY <1>2 DEF Blamed, NoResp
<1>7. Traced
  BY <1>2, <1>3 DEF Traced, NoResp
<1> QED BY <1>1, <1>4, <1>5, <1>6, <1>7 DEF AnswerInv

\* Who leads whose call, whose timeout an answer stands for, where a truncated
\* body comes from.
THEOREM AnswerInvariant == Spec => []AnswerInv
<1>1. Init => AnswerInv
  BY AnswerInit
<1>2. AnswerInv /\ [Next]_vars => AnswerInv'
  BY TypeStep, UnbegunStep, FollowingStep, BlamedStep, TracedStep DEF AnswerInv
<1> QED BY <1>1, <1>2, PTL DEF Spec

\* README: "Parent ctx cancellation takes precedence".  Nobody whose own context
\* ended first is given ErrTimeout, unless it is that of a call it shares.
THEOREM ParentFirstCorrect == Spec => []ParentFirst
<1>1. AnswerInv => ParentFirst
  BY DEF AnswerInv, Blamed, OwnTimeout, ParentFirst
<1> QED BY <1>1, AnswerInvariant, PTL

\* A truncated body goes back to a call of the same key that was cut off, through
\* whatever caches and shared calls it has come.
THEOREM BodyWholeCorrect == Spec => []BodyWhole
<1>1. AnswerInv => BodyWhole
  BY DEF AnswerInv, Traced, CutOff, BodyWhole
<1> QED BY <1>1, AnswerInvariant, PTL

-----------------------------------------------------------------------------
(* The counters of Do and of the cache. *)

\* A step that counts nothing: nobody's request comes to be counted or judged.
Uncounted(d) ==
  /\ d \in Tallied' <=> d \in Tallied
  /\ d \in Pending' <=> d \in Pending
  /\ CacheOutermost /\ d \in Judged' => d \in Judged

LEMMA FirstIsCache ==
  ASSUME TypeInv, CacheOutermost, NEW c \in Callers
  PROVE  /\ 1 \in DOMAIN cfg.chain /\ Network > 1
         /\ at[c] = 1 <=> Layer(c) = "cache"
<1>1. cfg.chain \in Seq(Layers) /\ cfg.chain # <<>> /\ cfg.chain[1] = "cache"
  BY Shape DEF TypeInv, Types, CacheOutermost
<1>2. 1 \in DOMAIN cfg.chain /\ Network > 1
  BY <1>1 DEF Network
<1>3. Layer(c) = "cache" => at[c] \in DOMAIN cfg.chain /\ cfg.chain[at[c]] = "cache"
  BY DEF Layer
<1>4. Layer(c) = "cache" => at[c] = 1
  BY <1>1, <1>2, <1>3, Shape DEF TypeInv, Types
<1>5. at[c] = 1 => Layer(c) = "cache"
  BY <1>1, <1>2 DEF Layer
<1> QED BY <1>2, <1>4, <1>5

\* A layer other than a cache that looks at the request calls next or returns.
LEMMA PassUncounted ==
  ASSUME TypeInv, NEW c \in Callers, NEW d \in Callers, UNCHANGED <<key, cfg>>,
         pc[c] \notin {"idle", "recorded", "returned", "done"},
         CallNext(c) \/ \E r : Return(c, r),
         pc[c] \in {"in", "age"} => key[c] = NoKey \/ Layer(c) # "cache"
  PROVE  Uncounted(d)
<1>1. at \in [Callers -> 0 .. Network] /\ pc \in [Callers -> Positions]
  BY PlaceTypes
<1>2. CASE d # c
  BY <1>1, <1>2 DEF CallNext, Return, Goto, Uncounted, Tallied, Pending, Judged
<1>3. CASE d = c
  <2>1. pc'[c] \in {"in", "out"}
    BY <1>1 DEF CallNext, Return, Goto
  <2>2. CacheOutermost /\ key[c] # NoKey => ~(at[c] = 1 /\ pc[c] \in {"in", "age"})
    BY FirstIsCache
  <2> QED BY <1>3, <2>1, <2>2 DEF Uncounted, Tallied, Pending, Judged
<1> QED BY <1>2, <1>3

\* Or it takes a step within.
LEMMA StayUncounted ==
  ASSUME TypeInv, NEW c \in Callers, NEW d \in Callers, UNCHANGED <<key, cfg, at>>, NEW p, Goto(c, p),
         \/ pc[c] = "in" /\ p = "age"
         \/ pc[c] = "returned" /\ p = "done"
         \/ pc[c] = "out" /\ p \in {"store", "delete", "again", "judge"}
         \/ pc[c] = "in" /\ p \in {"start", "wait", "late"} /\ Layer(c) # "cache"
         \/ pc[c] = "wait" /\ p = "late"
  PROVE  Uncounted(d)
<1>1. at \in [Callers -> 0 .. Network] /\ pc \in [Callers -> Positions]
  BY PlaceTypes
<1>2. CASE d # c
  BY <1>1, <1>2 DEF Goto, Uncounted, Tallied, Pending, Judged
<1>3. CASE d = c
  <2>1. pc'[c] = p
    BY <1>1 DEF Goto
  <2>2. CacheOutermost /\ at[c] = 1 => Layer(c) = "cache"
    BY FirstIsCache
  <2> QED BY <1>3, <2>1, <2>2 DEF Uncounted, Tallied, Pending, Judged
<1> QED BY <1>2, <1>3

LEMMA SameUncounted ==
  ASSUME UNCHANGED <<pc, at, key>>, NEW d \in Callers
  PROVE  Uncounted(d)
  BY DEF Uncounted, Tallied, Pending, Judged

LEMMA ChainUncounted ==
  ASSUME TypeInv, NEW c \in Callers, NEW d \in Callers, ChainStep(c)
  PROVE  Uncounted(d)
<1>1. CASE Do(c)
  <2>1. at[c] = 0
    BY <1>1, PlaceOf DEF Do, TypeInv, Types, Placed
  <2>2. /\ at'[d] = IF d = c THEN 1 ELSE at[d]
        /\ pc'[d] = IF d = c THEN "in" ELSE pc[d]
        /\ d # c => key'[d] = key[d]
    <3>1. at \in [Callers -> 0 .. Network] /\ pc \in [Callers -> Positions]
      BY PlaceTypes
    <3>2. d # c => key'[d] = key[d]
      BY <1>1 DEF Do, TypeInv, Types
    <3> QED BY <1>1, <2>1, <3>1, <3>2 DEF Do, CallNext, Goto
  <2> QED BY <1>1, <2>2 DEF Do, Uncounted, Tallied, Pending, Judged
<1>2. CASE HttpReturns(c)
  <2>1. at[c] = Network /\ Network \in Nat
    BY <1>2, Shape DEF HttpReturns, TypeInv, Types
  <2>2. Layer(c) # "none" => at[c] < Network
    BY PlaceOf DEF TypeInv, Types
  <2>3. Layer(c) = "none"
    BY <2>1, <2>2
  <2> QED BY <1>2, <2>3, PassUncounted DEF HttpReturns, context
<1>3. CASE HooksBefore(c) \/ HooksAfter(c) \/ FallbackNext(c) \/ FallbackReturns(c)
  BY <1>3, PassUncounted DEF HooksBefore, HooksAfter, FallbackNext, FallbackReturns, At, context
<1>4. CASE ReadBody(c)
  BY <1>4, StayUncounted DEF ReadBody, context
<1> QED BY <1>1, <1>2, <1>3, <1>4 DEF ChainStep

LEMMA PoliciesUncounted ==
  ASSUME TypeInv, NEW c \in Callers, NEW d \in Callers,
         \/ SharedStep(c) \/ TimeoutsStep(c)
         \/ CacheSkips(c) \/ Lookup(c) \/ CachePasses(c) \/ Fill(c) \/ FillPanics(c) \/ Store(c)
  PROVE  Uncounted(d)
<1>1. CASE CacheSkips(c) \/ CachePasses(c) \/ FillPanics(c) \/ Store(c)
  BY <1>1, PassUncounted DEF CacheSkips, CachePasses, FillPanics, Store, Cacheable, At, context
<1>2. CASE Lookup(c) \/ Fill(c) \/ AdaptiveEnter(c) \/ AdaptiveRecord(c)
  BY <1>2, StayUncounted DEF Lookup, Fill, Readable, AdaptiveEnter, AdaptiveRecord, At, context
<1>5. CASE Join(c) \/ ShareAnswer(c)
  <2>1. \/ pc[c] = "in" /\ \E p \in {"wait", "late"} : Goto(c, p)
        \/ pc[c] = "out" /\ \E p \in {"delete", "again"} : Goto(c, p)
    BY <1>5 DEF Join, ShareAnswer, At
  <2> QED BY <1>5, <2>1, StayUncounted DEF Join, ShareAnswer, At, context
<1>6. CASE WakeBroken(c)
  BY <1>6, PassUncounted, StayUncounted DEF WakeBroken, context
<1>3. CASE Lead(c) \/ DoneAgain(c) \/ DeleteCall(c) \/ Wake(c) \/ TimeoutEnter(c) \/ AdaptiveStart(c)
  BY <1>3, PassUncounted DEF Lead, DoneAgain, DeleteCall, Wake, TimeoutEnter, AdaptiveStart, At, context
<1>4. CASE TimeoutReturns(c) \/ AdaptiveReturns(c)
  <2>1. CallNext(c) \/ \E r : Return(c, r)
    BY <1>4 DEF TimeoutReturns, AdaptiveReturns, ReturnCancelling
  <2>2. pc[c] \in {"out", "judge"} /\ UNCHANGED <<key, cfg>>
    BY <1>4 DEF TimeoutReturns, AdaptiveReturns, ReturnCancelling, At, context
  <2> QED BY <2>1, <2>2, PassUncounted
<1> QED BY <1>1, <1>2, <1>3, <1>4, <1>5, <1>6 DEF SharedStep, TimeoutsStep

\* What may happen to the counters.
LEMMA EveryCounts ==
  ASSUME TypeInv, [Next]_vars
  PROVE  \/ UNCHANGED statsVars /\ \A d \in Callers : Uncounted(d)
         \/ Snapshot
         \/ \E c \in Callers : RecordRequest(c) \/ RecordFailed(c) \/ Hit(c) \/ Miss(c)
<1> DEFINE Quiet == UNCHANGED statsVars /\ \A d \in Callers : Uncounted(d)
<1>1. cfg.callers \subseteq Callers
  BY Shape DEF TypeInv, Types
<1>2. ASSUME NEW c \in Callers, Execute(c)
      PROVE  Quiet \/ RecordRequest(c) \/ RecordFailed(c) \/ Hit(c) \/ Miss(c)
  <2>1. ChainStep(c) /\ UNCHANGED statsVars => Quiet
    BY ChainUncounted
  <2>2. (SharedStep(c) \/ TimeoutsStep(c)) /\ UNCHANGED statsVars => Quiet
    BY PoliciesUncounted
  <2>3. CacheSkips(c) \/ Lookup(c) \/ CachePasses(c) \/ Fill(c) \/ FillPanics(c) \/ Store(c) => Quiet
    BY PoliciesUncounted DEF CacheSkips, Lookup, CachePasses, Fill, FillPanics, Store
  <2> HIDE DEF Quiet
  <2> QED BY <1>2, <2>1, <2>2, <2>3 DEF Execute, CacheStep
<1>3. ASSUME NEW c \in Callers, Surroundings(c) PROVE Quiet
  BY <1>3, SameUncounted DEF Surroundings, Fault, ContextEnds, NetworkBreaks, Expire
<1>5. ASSUME HealthStep, UNCHANGED statsVars PROVE Quiet
  <2>1. UNCHANGED <<pc, at, key>>
    BY <1>5
       DEF HealthStep, NewHealthChecker, SetRef, CloseBegins, CloseChecker, LoopStops, chainVars, context
  <2> QED BY <1>5, <2>1, SameUncounted
<1>6. Tick => UNCHANGED <<pc, at, key>>
  BY DEF Tick
<1>7. Tick /\ UNCHANGED statsVars => Quiet
  BY <1>6, SameUncounted
<1>8. UNCHANGED vars => Quiet
  BY SameUncounted DEF vars, chainVars, context
<1> HIDE DEF Quiet
<1>9. Quiet \/ Snapshot \/ \E c \in Callers : RecordRequest(c) \/ RecordFailed(c) \/ Hit(c) \/ Miss(c)
  BY <1>1, <1>2, <1>3, <1>5, <1>7, <1>8 DEF Next, Terminating
<1> QED BY <1>9 DEF Quiet

LEMMA Sizes ==
  ASSUME NEW S \in SUBSET Callers
  PROVE  /\ IsFiniteSet(S) /\ Cardinality(S) \in Nat
         /\ \A T \in SUBSET S : Cardinality(T) <= Cardinality(S)
         /\ \A x : Cardinality(S \cup {x}) = IF x \in S THEN Cardinality(S) ELSE Cardinality(S) + 1
         /\ \A x \in S : Cardinality(S \ {x}) = Cardinality(S) - 1
<1>1. IsFiniteSet(S)
  BY ChainAssumption, FS_Subset
<1> QED BY <1>1, FS_Subset, FS_CardinalityType, FS_AddElement, FS_RemoveElement

\* What is counted is judged or skipped; and a request that is skipped stays so.
LEMMA SkipsSize ==
  ASSUME TypeInv
  PROVE  /\ Skips = Cardinality(Skipped) /\ Skips \in Nat
         /\ Cardinality(Tallied) <= Cardinality(Judged) + Skips
<1>1. Skips = Cardinality(Skipped)
  BY DEF Skips, Skipped
<1>2. Tallied \subseteq Judged \cup Skipped
  BY DEF Tallied, Judged, Skipped
<1>3. Judged \in SUBSET Callers /\ Skipped \in SUBSET Callers /\ Tallied \in SUBSET (Judged \cup Skipped)
  BY <1>2 DEF Judged, Skipped
<1>4. Cardinality(Judged \cup Skipped) <= Cardinality(Judged) + Cardinality(Skipped)
  <2>1. /\ IsFiniteSet(Judged) /\ IsFiniteSet(Skipped)
        /\ Cardinality(Judged) \in Nat /\ Cardinality(Skipped) \in Nat
        /\ Cardinality(Judged \cap Skipped) \in Nat
    BY <1>3, Sizes
  <2>2. Cardinality(Judged \cup Skipped) = Cardinality(Judged) + Cardinality(Skipped) - Cardinality(Judged \cap Skipped)
    BY <2>1, FS_Union
  <2> QED BY <2>1, <2>2
<1>5. Cardinality(Tallied) <= Cardinality(Judged \cup Skipped)
  BY <1>3, Sizes
<1>6. /\ Cardinality(Tallied) \in Nat /\ Cardinality(Judged) \in Nat
      /\ Cardinality(Skipped) \in Nat /\ Cardinality(Judged \cup Skipped) \in Nat
  <2>1. Tallied \in SUBSET Callers /\ Judged \cup Skipped \in SUBSET Callers
    BY <1>3 DEF Tallied
  <2> QED BY <1>3, <2>1, Sizes
<1> QED BY <1>1, <1>4, <1>5, <1>6

LEMMA SkipsGrow ==
  ASSUME TypeInv, Unbegun, [Next]_vars
  PROVE  Skips <= Skips' /\ Skips \in Nat /\ Skips' \in Nat
<1>1. \A d \in Skipped : d \in Skipped'
  BY EveryAdvances DEF Skipped, Advances
<1>2. Skipped \in SUBSET Skipped' /\ Skipped' \in SUBSET Callers
  BY <1>1 DEF Skipped
<1>3. Skips = Cardinality(Skipped) /\ Skips' = Cardinality(Skipped')
  BY DEF Skips, Skipped
<1>4. Skipped \in SUBSET Callers
  BY <1>2
<1> QED BY <1>2, <1>3, <1>4, Sizes

LEMMA CountedStep == TypeInv /\ Unbegun /\ Counted /\ [Next]_vars => Counted'
<1> SUFFICES ASSUME TypeInv, Unbegun, Counted, [Next]_vars PROVE Counted'
  OBVIOUS
<1>0. /\ Tallied \in SUBSET Callers /\ Pending \in SUBSET Callers /\ Judged \in SUBSET Callers
      /\ Tallied' \in SUBSET Callers /\ Pending' \in SUBSET Callers /\ Judged' \in SUBSET Callers
  BY DEF Tallied, Pending, Judged
<1>1. /\ Cardinality(Tallied) \in Nat /\ Cardinality(Pending) \in Nat /\ Cardinality(Judged) \in Nat
      /\ Cardinality(Judged') \in Nat
  BY <1>0, Sizes
<1>2. CacheOutermost' <=> CacheOutermost
  BY CfgSame DEF CacheOutermost
<1>3. Skips <= Skips' /\ Skips \in Nat /\ Skips' \in Nat /\ Cardinality(Tallied) <= Cardinality(Judged) + Skips
  BY SkipsGrow, SkipsSize
<1>4. /\ stats \in [Counters -> Nat] /\ seen \in [Counters -> Nat] /\ reader \in 1 .. 5
      /\ Counters = {"requests", "failed", "hits", "misses"}
  BY DEF Counted, Counters
<1>5. CASE UNCHANGED statsVars /\ \A d \in Callers : Uncounted(d)
  <2>1. Tallied' = Tallied /\ Pending' = Pending
    BY <1>0, <1>5 DEF Uncounted
  <2>2. CacheOutermost => Cardinality(Judged') <= Cardinality(Judged)
    <3>1. CacheOutermost => Judged' \in SUBSET Judged
      BY <1>0, <1>5 DEF Uncounted
    <3> QED BY <1>0, <3>1, Sizes
  <2>3. stats' = stats /\ seen' = seen /\ reader' = reader
    BY <1>5 DEF statsVars
  <2> QED BY <1>1, <1>2, <1>3, <1>4, <2>1, <2>2, <2>3 DEF Counted
<1>6. CASE Snapshot
  <2>1. /\ Tallied' = Tallied /\ Pending' = Pending /\ Judged' = Judged /\ stats' = stats
    BY <1>6 DEF Snapshot, chainVars, context, Tallied, Pending, Judged
  <2>2. reader \in 1 .. 4 /\ reader' = reader + 1
    BY <1>6 DEF Snapshot, Order
  <2>3. /\ seen' \in [Counters -> Nat]
        /\ seen'.requests = IF reader = 1 THEN stats.requests ELSE seen.requests
        /\ seen'.hits = IF reader = 3 THEN stats.hits ELSE seen.hits
        /\ seen'.misses = IF reader = 4 THEN stats.misses ELSE seen.misses
    <3>1. seen' = [seen EXCEPT ![Order[reader]] = stats[Order[reader]]]
      BY <1>6 DEF Snapshot
    <3>2. CASE reader = 1
      BY <1>4, <3>1, <3>2 DEF Order
    <3>3. CASE reader = 2
      BY <1>4, <3>1, <3>3 DEF Order
    <3>4. CASE reader = 3
      BY <1>4, <3>1, <3>4 DEF Order
    <3>5. CASE reader = 4
      BY <1>4, <3>1, <3>5 DEF Order
    <3> QED BY <2>2, <3>2, <3>3, <3>4, <3>5
  <2>4. /\ stats.requests \in Nat /\ stats.hits \in Nat /\ stats.misses \in Nat
        /\ seen.requests \in Nat /\ seen.hits \in Nat /\ seen.misses \in Nat
    BY <1>4
  <2> QED BY <1>1, <1>2, <1>3, <1>4, <2>1, <2>2, <2>3, <2>4 DEF Counted
<1>7. ASSUME NEW c \in Callers, RecordRequest(c) PROVE Counted'
  <2>1. pc[c] = "out" /\ pc' = [pc EXCEPT ![c] = "recorded"] /\ pc \in [Callers -> Positions]
        /\ at' = at /\ key' = key
    BY <1>7, PlaceTypes DEF RecordRequest, Goto, context
  <2>2. /\ Tallied' = Tallied \cup {c} /\ c \notin Tallied
        /\ Pending' = Pending \cup {c} /\ c \notin Pending
        /\ Judged' = Judged
    BY <2>1 DEF Tallied, Pending, Judged
  <2>3. Cardinality(Tallied') = Cardinality(Tallied) + 1 /\ Cardinality(Pending') = Cardinality(Pending) + 1
    BY <1>0, <2>2, Sizes
  <2>4. /\ stats' \in [Counters -> Nat] /\ stats'.requests = stats.requests + 1 /\ stats'.failed = stats.failed
        /\ stats'.hits = stats.hits /\ stats'.misses = stats.misses
        /\ seen' = seen /\ reader' = reader
    BY <1>4, <1>7 DEF RecordRequest, Count
  <2>5. stats.requests \in Nat /\ stats.failed \in Nat
    BY <1>4
  <2> QED BY <1>1, <1>2, <1>3, <1>4, <2>2, <2>3, <2>4, <2>5 DEF Counted
<1>8. ASSUME NEW c \in Callers, RecordFailed(c) PROVE Counted'
  <2>1. pc[c] = "recorded" /\ pc' = [pc EXCEPT ![c] = "returned"] /\ pc \in [Callers -> Positions]
        /\ at' = at /\ key' = key
    BY <1>8, PlaceTypes DEF RecordFailed, Goto, context
  <2>2. /\ Tallied' = Tallied /\ Pending' = Pending \ {c} /\ c \in Pending /\ Judged' = Judged
    BY <2>1 DEF Tallied, Pending, Judged
  <2>3. Cardinality(Pending') = Cardinality(Pending) - 1
    BY <1>0, <2>2, Sizes
  <2>4. /\ stats' \in [Counters -> Nat] /\ stats'.requests = stats.requests
        /\ stats'.failed = stats.failed \/ stats'.failed = stats.failed + 1
        /\ stats'.hits = stats.hits /\ stats'.misses = stats.misses
        /\ seen' = seen /\ reader' = reader
    BY <1>4, <1>8 DEF RecordFailed, Count
  <2>5. stats.requests \in Nat /\ stats.failed \in Nat
    BY <1>4
  <2> QED BY <1>1, <1>2, <1>3, <1>4, <2>2, <2>3, <2>4, <2>5 DEF Counted
<1>9. ASSUME NEW c \in Callers, Hit(c) \/ Miss(c) PROVE Counted'
  <2>1. /\ pc[c] = "age" /\ pc \in [Callers -> Positions] /\ at \in [Callers -> 0 .. Network]
        /\ \E p \in {"in", "out"} : pc' = [pc EXCEPT ![c] = p]
        /\ \E a : at' = [at EXCEPT ![c] = a]
        /\ key' = key
    BY <1>9, PlaceTypes DEF Hit, Miss, Return, CallNext, Goto, context
  <2>2. Tallied' = Tallied /\ Pending' = Pending /\ Judged' \in SUBSET (Judged \cup {c})
    BY <2>1 DEF Tallied, Pending, Judged
  <2>3. Cardinality(Judged') <= Cardinality(Judged) + 1
    <3>1. Judged \cup {c} \in SUBSET Callers
      BY <1>0
    <3>2. Cardinality(Judged') <= Cardinality(Judged \cup {c})
      BY <2>2, <3>1, Sizes
    <3>3. Cardinality(Judged \cup {c}) <= Cardinality(Judged) + 1 /\ Cardinality(Judged \cup {c}) \in Nat
      BY <1>0, <1>1, <3>1, Sizes
    <3> QED BY <1>1, <3>2, <3>3
  <2>4. /\ stats' \in [Counters -> Nat] /\ stats'.requests = stats.requests /\ stats'.failed = stats.failed
        /\ stats'.hits >= stats.hits /\ stats'.misses >= stats.misses
        /\ cfg.counted => stats'.hits + stats'.misses = stats.hits + stats.misses + 1
        /\ seen' = seen /\ reader' = reader
    BY <1>4, <1>9 DEF Hit, Miss, CountHere, Count
  <2>5. /\ stats.requests \in Nat /\ stats.hits \in Nat /\ stats.misses \in Nat
        /\ seen.requests \in Nat /\ seen.hits \in Nat /\ seen.misses \in Nat
    BY <1>4
  <2>6. stats'.hits \in Nat /\ stats'.misses \in Nat
    BY <1>4, <2>4
  <2>7. stats'.failed + Cardinality(Pending') <= stats'.requests
    BY <2>2, <2>4 DEF Counted
  <2>8. ASSUME CacheOutermost
        PROVE  /\ Cardinality(Tallied') = stats'.requests
               /\ Cardinality(Judged') <= stats'.hits + stats'.misses
               /\ reader > 1 => seen.requests <= stats'.hits + stats'.misses + Skips'
               /\ reader > 3 => seen.requests <= seen.hits + stats'.misses + Skips'
               /\ reader > 4 => seen.requests <= seen.hits + seen.misses + Skips'
    <3>1. /\ stats.requests = Cardinality(Tallied)
          /\ Cardinality(Judged) <= stats.hits + stats.misses
          /\ reader > 1 => seen.requests <= stats.hits + stats.misses + Skips
          /\ reader > 3 => seen.requests <= seen.hits + stats.misses + Skips
          /\ reader > 4 => seen.requests <= seen.hits + seen.misses + Skips
      BY <2>8 DEF Counted
    <3>2. stats'.hits + stats'.misses = stats.hits + stats.misses + 1
      BY <2>4, <2>8 DEF CacheOutermost
    <3> QED BY <1>1, <1>3, <1>4, <2>2, <2>3, <2>4, <2>5, <2>6, <3>1, <3>2
  <2> QED BY <1>2, <1>4, <2>4, <2>7, <2>8 DEF Counted
<1> QED BY <1>5, <1>6, <1>7, <1>8, <1>9, EveryCounts

LEMMA CountedInit == Init => Counted
<1> SUFFICES ASSUME Init PROVE Counted
  OBVIOUS
<1>1. stats = Zero /\ seen = Zero /\ Zero \in [Counters -> Nat]
      /\ Zero.failed = 0 /\ Zero.requests = 0 /\ Zero.hits = 0 /\ Zero.misses = 0
  BY DEF Init, StatsInit, Zero, Counters
<1>2. Cardinality(Counters) = 4
  <2>1. Counters = (({"requests"} \cup {"failed"}) \cup {"hits"}) \cup {"misses"}
    BY DEF Counters
  <2>2. IsFiniteSet({"requests"}) /\ Cardinality({"requests"}) = 1
    BY FS_Singleton
  <2>3. IsFiniteSet({"requests"} \cup {"failed"}) /\ Cardinality({"requests"} \cup {"failed"}) = 2
    BY <2>2, FS_AddElement
  <2>4. /\ IsFiniteSet(({"requests"} \cup {"failed"}) \cup {"hits"})
        /\ Cardinality(({"requests"} \cup {"failed"}) \cup {"hits"}) = 3
    BY <2>3, FS_AddElement
  <2>5. Cardinality((({"requests"} \cup {"failed"}) \cup {"hits"}) \cup {"misses"}) = 4
    BY <2>4, FS_AddElement
  <2> QED BY <2>1, <2>5
<1>3. reader \in 1 .. 5
  BY <1>2 DEF Init, StatsInit
<1>4. Tallied = {} /\ Pending = {} /\ Judged = {}
  BY DEF Init, ChainInit, Tallied, Pending, Judged
<1>5. Cardinality({}) = 0
  BY FS_EmptySet
<1>6. Skips \in Nat
  BY TypeInit, SkipsSize
<1> QED BY <1>1, <1>3, <1>4, <1>5, <1>6 DEF Counted

\* What the counters of Do and of the cache say of one another, at every point of
\* a snapshot too.
THEOREM CountersInvariant == Spec => []Counted
<1>1. Init => Counted
  BY CountedInit
<1>2. AnswerInv /\ Counted /\ [Next]_vars => Counted'
  BY CountedStep DEF AnswerInv
<1> QED BY <1>1, <1>2, AnswerInvariant, PTL DEF Spec

\* No request has failed that is not counted; and with the cache outermost, and
\* given the statistics, each has been a hit or a miss, or was skipped, also in a
\* snapshot, whose counters are loaded one by one while others count.
THEOREM StatsOrderedCorrect == Spec => []StatsOrdered
<1>1. TypeInv /\ Counted => StatsOrdered
  <2> SUFFICES ASSUME TypeInv, Counted PROVE StatsOrdered
    OBVIOUS
  <2>1. /\ Cardinality(Pending) \in Nat /\ Cardinality(Tallied) \in Nat /\ Cardinality(Judged) \in Nat
    <3>1. Pending \in SUBSET Callers /\ Tallied \in SUBSET Callers /\ Judged \in SUBSET Callers
      BY DEF Pending, Tallied, Judged
    <3> QED BY <3>1, Sizes
  <2>2. /\ stats.requests \in Nat /\ stats.failed \in Nat /\ stats.hits \in Nat /\ stats.misses \in Nat
        /\ reader \in Nat
    BY DEF Counted, Counters
  <2>3. Skips \in Nat /\ Cardinality(Tallied) <= Cardinality(Judged) + Skips
    BY SkipsSize
  <2>4. Len(Order) = 4
    BY DEF Order
  <2>5. stats.failed <= stats.requests
    BY <2>1, <2>2 DEF Counted
  <2>6. ASSUME CacheOutermost
        PROVE  /\ stats.requests <= stats.hits + stats.misses + Skips
               /\ reader > 4 => seen.requests <= seen.hits + seen.misses + Skips
    <3>1. stats.requests = Cardinality(Tallied) /\ Cardinality(Judged) <= stats.hits + stats.misses
      BY <2>6 DEF Counted
    <3>2. reader > 4 => seen.requests <= seen.hits + seen.misses + Skips
      BY <2>6 DEF Counted
    <3> QED BY <2>1, <2>2, <2>3, <3>1, <3>2
  <2> QED BY <2>4, <2>5, <2>6 DEF CacheOutermost, StatsOrdered
<1> QED BY <1>1, CountersInvariant, TypeInvariant, PTL

-----------------------------------------------------------------------------
(* Deadlines, and the watch of the adaptive timeout. *)

WatchSame(d) == limit'[d] = limit[d] /\ due'[d] = due[d] /\ begun'[d] = begun[d]

\* What a step may do to a caller's place and deadlines: nothing, but that a
\* context ends;
Waits(d) ==
  /\ at'[d] = at[d] /\ pc'[d] = pc[d] /\ live'[d] = live[d] /\ WatchSame(d)
  /\ \A i \in DOMAIN cfg.chain : i \in ended'[d] =>
       i \in ended[d] \/ (i \in live[d] /\ (cfg.chain[i] = "adaptive" => clock >= due[d]))

\* it calls next, not from an adaptive timeout;
GoesOn(d) ==
  /\ pc[d] \in {"idle", "in", "age"} /\ Layer(d) # "adaptive"
  /\ at'[d] = at[d] + 1 /\ pc'[d] = "in"
  /\ ended'[d] = ended[d] /\ live'[d] \subseteq live[d] \cup {at[d]} /\ WatchSame(d)

\* it returns, not from there either;
GoesBack(d) ==
  /\ pc[d] # "idle" /\ Layer(d) # "adaptive"
  /\ at'[d] = at[d] - 1 /\ pc'[d] = "out"
  /\ ended'[d] \subseteq ended[d] \cup {at[d]} /\ WatchSame(d)

\* it goes on within its layer.
GoesRound(d) ==
  /\ at'[d] = at[d]
  /\ \/ pc[d] = "in" /\ pc'[d] \in {"age", "wait", "late"} /\ Layer(d) # "adaptive"
     \/ pc[d] = "out" /\ pc'[d] \in {"store", "delete", "again", "judge", "recorded"}
     \/ pc[d] = "wait" /\ pc'[d] = "late" /\ Layer(d) # "adaptive"
     \/ at[d] = 0 /\ pc'[d] \in {"returned", "done"}
  /\ ended'[d] = ended[d] /\ live'[d] = live[d] /\ WatchSame(d)

Moves(d) ==
  \/ Waits(d) \/ GoesOn(d) \/ GoesBack(d) \/ GoesRound(d)
  \/ AdaptiveEnter(d) \/ AdaptiveStart(d) \/ AdaptiveReturns(d)

LEMMA WaitsSame ==
  ASSUME NEW d \in Callers, UNCHANGED <<at, pc, ended, timeoutVars>>
  PROVE  Waits(d)
  BY DEF Waits, WatchSame, timeoutVars

LEMMA PassMoves ==
  ASSUME TypeInv, NEW c \in Callers, NEW d \in Callers, UNCHANGED <<ended, timeoutVars>>,
         pc[c] # "idle" /\ Layer(c) # "adaptive",
         (CallNext(c) /\ pc[c] \in {"in", "age"}) \/ \E r : Return(c, r)
  PROVE  Moves(d)
<1>1. at \in [Callers -> 0 .. Network] /\ pc \in [Callers -> Positions]
  BY PlaceTypes
<1>2. CASE d # c
  <2>1. at'[d] = at[d] /\ pc'[d] = pc[d]
    BY <1>1, <1>2 DEF CallNext, Return, Goto
  <2> QED BY <2>1 DEF Moves, Waits, WatchSame, timeoutVars
<1>3. CASE d = c /\ CallNext(c) /\ pc[c] \in {"in", "age"}
  <2>1. at'[d] = at[d] + 1 /\ pc'[d] = "in"
    BY <1>1, <1>3 DEF CallNext, Goto
  <2> QED BY <1>3, <2>1 DEF Moves, GoesOn, WatchSame, timeoutVars
<1>4. ASSUME d = c, NEW r, Return(c, r) PROVE Moves(d)
  <2>1. at'[d] = at[d] - 1 /\ pc'[d] = "out"
    BY <1>1, <1>4 DEF Return, Goto
  <2> QED BY <1>4, <2>1 DEF Moves, GoesBack, WatchSame, timeoutVars
<1> QED BY <1>2, <1>3, <1>4

LEMMA StayMoves ==
  ASSUME TypeInv, NEW c \in Callers, NEW d \in Callers, UNCHANGED <<at, ended, live, limit, due, begun>>,
         NEW p, Goto(c, p),
         \/ pc[c] = "in" /\ p \in {"age", "wait", "late"} /\ Layer(c) # "adaptive"
         \/ pc[c] = "out" /\ p \in {"store", "delete", "again", "judge", "recorded"}
         \/ pc[c] = "wait" /\ p = "late" /\ Layer(c) # "adaptive"
         \/ at[c] = 0 /\ p \in {"returned", "done"}
  PROVE  Moves(d)
<1>1. at \in [Callers -> 0 .. Network] /\ pc \in [Callers -> Positions]
  BY PlaceTypes
<1>2. CASE d # c
  <2>1. pc'[d] = pc[d]
    BY <1>1, <1>2 DEF Goto
  <2> QED BY <2>1 DEF Moves, Waits, WatchSame
<1>3. CASE d = c
  <2>1. pc'[d] = p
    BY <1>1, <1>3 DEF Goto
  <2> QED BY <1>3, <2>1 DEF Moves, GoesRound, WatchSame
<1> QED BY <1>2, <1>3

LEMMA ChainMoves ==
  ASSUME TypeInv, NEW c \in Callers, NEW d \in Callers,
         ChainStep(c) \/ RecordRequest(c) \/ RecordFailed(c), UNCHANGED timeoutVars
  PROVE  Moves(d)
<1>1. CASE Do(c)
  <2>1. at \in [Callers -> 0 .. Network] /\ pc \in [Callers -> Positions]
    BY PlaceTypes
  <2>2. Layer(c) # "adaptive"
    <3>1. at[c] = 0 /\ (Layer(c) # "none" => at[c] > 0)
      BY <1>1, PlaceOf DEF Do, TypeInv, Types, Placed
    <3> QED BY <3>1
  <2>3. CASE d = c
    <3>1. at'[d] = at[d] + 1 /\ pc'[d] = "in"
      BY <1>1, <2>1, <2>3 DEF Do, CallNext, Goto
    <3> QED BY <1>1, <2>2, <2>3, <3>1 DEF Do, Moves, GoesOn, WatchSame, timeoutVars
  <2>4. CASE d # c
    <3>1. at'[d] = at[d] /\ pc'[d] = pc[d]
      BY <1>1, <2>1, <2>4 DEF Do, CallNext, Goto
    <3> QED BY <1>1, <3>1 DEF Do, Moves, Waits, WatchSame, timeoutVars
  <2> QED BY <2>3, <2>4
<1>2. CASE HttpReturns(c)
  <2>1. at[c] = Network /\ Network \in Nat
    BY <1>2, Shape DEF HttpReturns, TypeInv, Types
  <2>2. Layer(c) # "none" => at[c] < Network
    BY PlaceOf DEF TypeInv, Types
  <2>3. Layer(c) = "none"
    BY <2>1, <2>2
  <2> QED BY <1>2, <2>3, PassMoves DEF HttpReturns, context
<1>3. CASE HooksBefore(c) \/ HooksAfter(c) \/ FallbackNext(c) \/ FallbackReturns(c)
  BY <1>3, PassMoves DEF HooksBefore, HooksAfter, FallbackNext, FallbackReturns, At, context
<1>4. CASE ReadBody(c) \/ RecordRequest(c) \/ RecordFailed(c)
  <2>1. pc[c] \in {"returned", "recorded"} => at[c] = 0
    BY PlaceOf DEF TypeInv, Types, Placed
  <2> QED BY <1>4, <2>1, StayMoves DEF ReadBody, RecordRequest, RecordFailed, context, timeoutVars
<1> QED BY <1>1, <1>2, <1>3, <1>4 DEF ChainStep

LEMMA PoliciesMove ==
  ASSUME TypeInv, NEW c \in Callers, NEW d \in Callers,
         CacheStep(c) \/ SharedStep(c), UNCHANGED timeoutVars
  PROVE  Moves(d)
<1>0. /\ pc[c] \in {"age", "store"} => Layer(c) = "cache"
      /\ pc[c] \in {"wait", "late", "again", "delete"} => Layer(c) = "singleflight"
  BY PlaceOf DEF TypeInv, Types, Placed
<1>1. CASE CacheSkips(c) \/ Hit(c) \/ Miss(c) \/ CachePasses(c) \/ FillPanics(c) \/ Store(c)
  BY <1>0, <1>1, PassMoves DEF CacheSkips, Hit, Miss, CachePasses, FillPanics, Store, At, context
<1>2. CASE Lookup(c) \/ Fill(c)
  BY <1>2, StayMoves DEF Lookup, Fill, Readable, At, context, timeoutVars
<1>3. CASE Lead(c) \/ DoneAgain(c) \/ DeleteCall(c) \/ Wake(c)
  BY <1>0, <1>3, PassMoves DEF Lead, DoneAgain, DeleteCall, Wake, At, context
<1>4. CASE Join(c) \/ ShareAnswer(c)
  <2>1. \/ pc[c] = "in" /\ \E p \in {"wait", "late"} : Goto(c, p)
        \/ pc[c] = "out" /\ \E p \in {"delete", "again"} : Goto(c, p)
    BY <1>4 DEF Join, ShareAnswer, At
  <2> QED BY <1>4, <2>1, StayMoves DEF Join, ShareAnswer, At, context, timeoutVars
<1>5. CASE WakeBroken(c)
  BY <1>0, <1>5, PassMoves, StayMoves DEF WakeBroken, context, timeoutVars
<1> QED BY <1>1, <1>2, <1>3, <1>4, <1>5 DEF CacheStep, SharedStep

LEMMA TimeoutsMove ==
  ASSUME TypeInv, NEW c \in Callers, NEW d \in Callers, TimeoutsStep(c)
  PROVE  Moves(d)
<1>0. /\ at \in [Callers -> 0 .. Network] /\ pc \in [Callers -> Positions]
      /\ ended \in [Callers -> SUBSET (0 .. Network)] /\ live \in [Callers -> SUBSET DOMAIN cfg.chain]
      /\ limit \in [Callers -> Int] /\ due \in [Callers -> Int] /\ begun \in [Callers -> Int]
  BY PlaceTypes DEF TypeInv, Types
<1>1. CASE TimeoutEnter(c)
  <2>1. CASE d = c
    <3>1. at'[d] = at[d] + 1 /\ pc'[d] = "in" /\ live'[d] \subseteq live[d] \cup {at[d]}
      BY <1>0, <1>1, <2>1 DEF TimeoutEnter, CallNext, Goto
    <3> QED BY <1>1, <2>1, <3>1 DEF TimeoutEnter, At, context, Moves, GoesOn, WatchSame
  <2>2. CASE d # c
    <3>1. at'[d] = at[d] /\ pc'[d] = pc[d] /\ live'[d] = live[d]
      BY <1>0, <1>1, <2>2 DEF TimeoutEnter, CallNext, Goto
    <3> QED BY <1>1, <3>1 DEF TimeoutEnter, context, Moves, Waits, WatchSame
  <2> QED BY <2>1, <2>2
<1>2. CASE TimeoutReturns(c)
  <2>1. PICK r : Return(c, r)
    BY <1>2 DEF TimeoutReturns, ReturnCancelling
  <2>2. /\ UNCHANGED <<limit, due, begun>> /\ pc[c] # "idle" /\ Layer(c) # "adaptive"
        /\ ended'[d] \subseteq ended[d] \cup {at[d]}
        /\ d # c => ended'[d] = ended[d] /\ live'[d] = live[d]
    BY <1>0, <1>2 DEF TimeoutReturns, ReturnCancelling, At, context
  <2>3. CASE d = c
    <3>1. at'[d] = at[d] - 1 /\ pc'[d] = "out"
      BY <1>0, <2>1, <2>3 DEF Return, Goto
    <3> QED BY <2>2, <2>3, <3>1 DEF Moves, GoesBack, WatchSame
  <2>4. CASE d # c
    <3>1. at'[d] = at[d] /\ pc'[d] = pc[d]
      BY <1>0, <2>1, <2>4 DEF Return, Goto
    <3> QED BY <2>2, <2>4, <3>1 DEF Moves, Waits, WatchSame
  <2> QED BY <2>3, <2>4
<1>3. CASE AdaptiveRecord(c)
  BY <1>3, StayMoves DEF AdaptiveRecord, At, context
<1>4. CASE (AdaptiveEnter(c) \/ AdaptiveStart(c) \/ AdaptiveReturns(c)) /\ d # c
  <2>1. at'[d] = at[d] /\ pc'[d] = pc[d]
    BY <1>0, <1>4 DEF AdaptiveEnter, AdaptiveStart, AdaptiveReturns, ReturnCancelling, Return, CallNext, Goto
  <2>2. ended'[d] = ended[d] /\ live'[d] = live[d] /\ WatchSame(d)
    BY <1>0, <1>4 DEF AdaptiveEnter, AdaptiveStart, AdaptiveReturns, ReturnCancelling, context, WatchSame
  <2> QED BY <2>1, <2>2 DEF Moves, Waits
<1>5. CASE (AdaptiveEnter(c) \/ AdaptiveStart(c) \/ AdaptiveReturns(c)) /\ d = c
  BY <1>5 DEF Moves
<1> QED BY <1>1, <1>2, <1>3, <1>4, <1>5 DEF TimeoutsStep

LEMMA SurroundingsMove ==
  ASSUME TypeInv, NEW c \in Callers, NEW d \in Callers, Surroundings(c)
  PROVE  Moves(d)
<1>0. /\ 0 \notin DOMAIN cfg.chain /\ Network \notin DOMAIN cfg.chain
      /\ ended \in [Callers -> SUBSET (0 .. Network)]
  BY Shape DEF TypeInv, Types
<1>1. UNCHANGED <<at, pc, timeoutVars>>
  BY DEF Surroundings, Fault, ContextEnds, NetworkBreaks, Expire
<1>2. ASSUME NEW i \in DOMAIN cfg.chain, i \in ended'[d]
      PROVE  i \in ended[d] \/ (i \in live[d] /\ (cfg.chain[i] = "adaptive" => clock >= due[d]))
  <2>1. CASE Fault(c)
    BY <1>0, <1>2, <2>1 DEF Fault, ContextEnds, NetworkBreaks
  <2>2. CASE Expire(c)
    BY <1>0, <1>2, <2>2 DEF Expire
  <2> QED BY <2>1, <2>2 DEF Surroundings
<1> QED BY <1>1, <1>2 DEF Moves, Waits, WatchSame, timeoutVars

LEMMA EveryMoves ==
  ASSUME TypeInv, [Next]_vars, NEW d \in Callers
  PROVE  Moves(d)
<1>1. cfg.callers \subseteq Callers
  BY Shape DEF TypeInv, Types
<1>2. ASSUME NEW c \in Callers, Execute(c) PROVE Moves(d)
  BY <1>2, ChainMoves, PoliciesMove, TimeoutsMove DEF Execute
<1>3. CASE (Tick \/ Snapshot \/ HealthStep) /\ UNCHANGED timeoutVars
  <2>1. UNCHANGED <<at, pc, ended>>
    BY <1>3
       DEF Tick, Snapshot, HealthStep, NewHealthChecker, SetRef, CloseBegins, CloseChecker, LoopStops,
           chainVars, context
  <2> QED BY <1>3, <2>1, WaitsSame DEF Moves
<1>4. CASE UNCHANGED vars
  BY <1>4, WaitsSame DEF vars, chainVars, context, Moves
<1> QED BY <1>1, <1>2, <1>3, <1>4, SurroundingsMove DEF Next, Terminating

LEMMA ClockGrows ==
  ASSUME TypeInv, [Next]_vars
  PROVE  clock <= clock' /\ clock \in Nat /\ clock' \in Nat
<1>1. clock \in Nat
  BY DEF TypeInv, Types
<1> QED BY <1>1, CfgSame

LEMMA NotYetStep == TypeInv /\ NotYet /\ [Next]_vars => NotYet'
<1> SUFFICES ASSUME TypeInv, NotYet, [Next]_vars, NEW d \in Callers, NEW i \in DOMAIN cfg.chain, Ahead(d, i)'
             PROVE  i \notin live'[d] \cup ended'[d]
  BY CfgSame DEF NotYet
<1>0. at[d] \in Int /\ i \in Int /\ Moves(d) /\ (Ahead(d, i) => i \notin live[d] \cup ended[d])
  <2>1. i \in Int
    BY Shape DEF TypeInv, Types
  <2> QED BY <2>1, EveryMoves, PlaceTypes DEF NotYet
<1>1. CASE Waits(d)
  BY <1>0, <1>1 DEF Waits, Ahead
<1>2. CASE GoesOn(d)
  BY <1>0, <1>2 DEF GoesOn, Ahead
<1>3. CASE GoesBack(d)
  BY <1>3 DEF GoesBack, Ahead
<1>4. CASE GoesRound(d)
  BY <1>0, <1>4 DEF GoesRound, Ahead
<1>5. CASE AdaptiveEnter(d)
  <2>1. pc'[d] = "start" /\ at'[d] = at[d] /\ pc[d] = "in" /\ ended' = ended /\ live'[d] = live[d] \cup {at[d]}
    BY <1>5, PlaceTypes DEF AdaptiveEnter, At, Goto, context, TypeInv, Types
  <2> QED BY <1>0, <2>1 DEF Ahead
<1>6. CASE AdaptiveStart(d)
  <2>1. pc'[d] = "in" /\ at'[d] = at[d] + 1 /\ pc[d] = "start" /\ ended' = ended /\ live' = live
    BY <1>6, PlaceTypes DEF AdaptiveStart, CallNext, Goto, context
  <2> QED BY <1>0, <2>1 DEF Ahead
<1>7. CASE AdaptiveReturns(d)
  <2>1. pc'[d] = "out"
    BY <1>7, PlaceTypes DEF AdaptiveReturns, ReturnCancelling, Return, Goto
  <2> QED BY <2>1 DEF Ahead
<1> QED BY <1>0, <1>1, <1>2, <1>3, <1>4, <1>5, <1>6, <1>7 DEF Moves

LEMMA OnTimeStep ==
  ASSUME TypeInv, NotYet, [Next]_vars, NEW d \in Callers, OnTime(d)
  PROVE  OnTime(d)'
<1> SUFFICES ASSUME NEW a \in DOMAIN cfg.chain, cfg.chain[a] = "adaptive"
             PROVE  /\ at'[d] >= a /\ a \in ended'[d] => clock' >= due'[d]
                    /\ Entered(d, a)' => due'[d] - limit'[d] <= clock'
                    /\ Passed(d, a)' => due'[d] - limit'[d] <= begun'[d] /\ begun'[d] <= clock'
  BY CfgSame DEF OnTime
<1>0. /\ at[d] \in Int /\ a \in Int /\ a > 0
      /\ limit[d] \in Int /\ due[d] \in Int /\ begun[d] \in Int
      /\ clock <= clock' /\ clock \in Nat /\ clock' \in Nat
  <2>1. a \in Int /\ a > 0
    BY Shape DEF TypeInv, Types
  <2>2. limit[d] \in Int /\ due[d] \in Int /\ begun[d] \in Int
    BY DEF TypeInv, Types
  <2> QED BY <2>1, <2>2, PlaceTypes, ClockGrows
<1>1. Moves(d)
  BY EveryMoves
<1>2. at[d] = a <=> Layer(d) = "adaptive"
  BY Shape DEF Layer, TypeInv, Types
<1>3. /\ at[d] >= a /\ a \in ended[d] => clock >= due[d]
      /\ Entered(d, a) => due[d] - limit[d] <= clock
      /\ Passed(d, a) => due[d] - limit[d] <= begun[d] /\ begun[d] <= clock
  BY DEF OnTime
<1>4. Ahead(d, a) => a \notin ended[d]
  BY DEF NotYet
<1>5. CASE Waits(d)
  <2>1. (Entered(d, a)' <=> Entered(d, a)) /\ (Passed(d, a)' <=> Passed(d, a))
    BY <1>5 DEF Waits, Entered, Passed
  <2> QED BY <1>0, <1>3, <1>5, <2>1 DEF Waits, WatchSame
<1>6. CASE GoesOn(d)
  <2>1. at'[d] >= a => at[d] > a \/ Ahead(d, a)
    BY <1>0, <1>2, <1>6 DEF GoesOn, Ahead
  <2>2. (Entered(d, a)' => Entered(d, a)) /\ (Passed(d, a)' => Passed(d, a))
    BY <1>0, <1>2, <1>6 DEF GoesOn, Entered, Passed
  <2> QED BY <1>0, <1>3, <1>4, <1>6, <2>1, <2>2 DEF GoesOn, WatchSame
<1>7. CASE GoesBack(d)
  <2>1. at'[d] >= a => at[d] > a
    BY <1>0, <1>7 DEF GoesBack
  <2>2. (Entered(d, a)' => Entered(d, a)) /\ (Passed(d, a)' => Passed(d, a))
    BY <1>0, <1>7 DEF GoesBack, Entered, Passed
  <2>3. at[d] > a /\ a \in ended'[d] => a \in ended[d]
    BY <1>0, <1>7 DEF GoesBack
  <2> QED BY <1>0, <1>3, <1>7, <2>1, <2>2, <2>3 DEF GoesBack, WatchSame
<1>8. CASE GoesRound(d)
  <2>1. (Entered(d, a)' => Entered(d, a)) /\ (Passed(d, a)' => Passed(d, a))
    BY <1>0, <1>2, <1>8 DEF GoesRound, Entered, Passed
  <2> QED BY <1>0, <1>3, <1>8, <2>1 DEF GoesRound, WatchSame
<1>9. CASE AdaptiveEnter(d)
  <2>1. at[d] = a /\ pc[d] = "in"
    BY <1>2, <1>9 DEF AdaptiveEnter, At
  <2>2. at' = at /\ pc'[d] = "start" /\ ended' = ended /\ clock' = clock
    BY <1>9, PlaceTypes DEF AdaptiveEnter, Goto, context
  <2>3. due'[d] = clock + limit'[d] /\ limit'[d] \in Int
    <3>1. Initial \in Int
      BY TimeoutsAssumption
    <3> QED BY <1>9, <3>1 DEF AdaptiveEnter, TypeInv, Types
  <2>4. a \notin ended'[d] /\ ~Passed(d, a)'
    BY <1>0, <1>4, <2>1, <2>2 DEF Ahead, Passed
  <2> QED BY <1>0, <2>2, <2>3, <2>4
<1>10. CASE AdaptiveStart(d)
  <2>1. at[d] = a
    <3>1. Layer(d) = "adaptive"
      BY <1>10, PlaceOf DEF AdaptiveStart, TypeInv, Types, Placed
    <3> QED BY <1>2, <3>1
  <2>2. /\ at'[d] = a + 1 /\ pc[d] = "start" /\ ended' = ended /\ clock' = clock
        /\ begun'[d] = clock /\ limit' = limit /\ due' = due
    BY <1>10, <2>1, PlaceTypes DEF AdaptiveStart, CallNext, context, TypeInv, Types
  <2>3. Entered(d, a)
    BY <2>1, <2>2 DEF Entered
  <2> QED BY <1>0, <1>3, <2>1, <2>2, <2>3
<1>11. CASE AdaptiveReturns(d)
  <2>1. at[d] = a
    <3>1. Layer(d) = "adaptive"
      BY <1>11, PlaceOf DEF AdaptiveReturns, TypeInv, Types, Placed, At
    <3> QED BY <1>2, <3>1
  <2>2. at'[d] = a - 1
    BY <1>11, <2>1, PlaceTypes DEF AdaptiveReturns, ReturnCancelling, Return
  <2> QED BY <1>0, <2>2 DEF Entered, Passed
<1> QED BY <1>1, <1>5, <1>6, <1>7, <1>8, <1>9, <1>10, <1>11 DEF Moves

LEMMA MedianStep ==
  ASSUME TypeInv, Len(durations) >= MinSamples => median = Quantile(durations), [Next]_vars
  PROVE  Len(durations') >= MinSamples => median' = Quantile(durations')
<1>1. CASE UNCHANGED <<durations, median>>
  BY <1>1 DEF Quantile
<1>2. ASSUME NEW c \in Callers, AdaptiveRecord(c)
      PROVE  Len(durations') >= MinSamples => median' = Quantile(durations')
  BY <1>2 DEF AdaptiveRecord
<1>3. ASSUME NEW c \in Callers, TimeoutsStep(c) PROVE AdaptiveRecord(c) \/ UNCHANGED <<durations, median>>
  BY <1>3 DEF TimeoutsStep, TimeoutEnter, TimeoutReturns, AdaptiveEnter, AdaptiveStart, AdaptiveReturns
<1>4. cfg.callers \subseteq Callers
  BY Shape DEF TypeInv, Types
<1>5. (\E c \in Callers : AdaptiveRecord(c)) \/ UNCHANGED <<durations, median>>
  BY <1>3, <1>4 DEF Next, Execute, Surroundings, Fault, ContextEnds, NetworkBreaks, Expire, Terminating, timeoutVars, vars
<1> QED BY <1>1, <1>2, <1>5

TimedInv == TypeInv /\ NotYet /\ Timed

LEMMA TimedInit == Init => TimedInv
<1> SUFFICES ASSUME Init PROVE TimedInv
  OBVIOUS
<1>1. TypeInv
  BY TypeInit
<1>2. \A c \in Callers : ended[c] = {} /\ live[c] = {} /\ at[c] = 0 /\ due[c] = 0 /\ limit[c] = 0
  BY DEF Init, ChainInit, TimeoutsInit
<1>3. NotYet
  BY <1>2 DEF NotYet
<1>4. \A c \in Callers : OnTime(c)
  <2>1. \A a \in DOMAIN cfg.chain : a \in Int /\ a > 0
    BY <1>1, Shape DEF TypeInv, Types
  <2> QED BY <1>2, <2>1 DEF OnTime, Entered, Passed
<1>5. Len(durations) = 0 /\ MinSamples > 0
  BY TimeoutsAssumption DEF Init, TimeoutsInit
<1>6. ~(Len(durations) >= MinSamples)
  BY <1>5, TimeoutsAssumption
<1> QED BY <1>1, <1>3, <1>4, <1>6 DEF TimedInv, Timed

LEMMA TimedStep == TimedInv /\ [Next]_vars => TimedInv'
<1> SUFFICES ASSUME TimedInv, [Next]_vars PROVE TimedInv'
  OBVIOUS
<1>1. TypeInv' /\ NotYet'
  BY TypeStep, NotYetStep DEF TimedInv
<1>2. \A c \in Callers : OnTime(c)'
  BY OnTimeStep DEF TimedInv, Timed
<1>3. (Len(durations) >= MinSamples => median = Quantile(durations))'
  BY MedianStep DEF TimedInv, Timed
<1> QED BY <1>1, <1>2, <1>3 DEF TimedInv, Timed

\* Deadlines pass only where they were set, and not before they are due; the
\* watch is started after that; the median is that of the durations.
THEOREM TimedInvariant == Spec => []TimedInv
<1> QED BY TimedInit, TimedStep, PTL DEF Spec

\* Only record comes between next and the judgement of its answer.
LEMMA JudgedNext ==
  ASSUME TypeInv, [Next]_vars, NEW c \in Callers, At(c, "adaptive", "out"), pc'[c] = "judge"
  PROVE  AdaptiveRecord(c)
<1>1. pc \in [Callers -> Positions] /\ pc[c] = "out" /\ Layer(c) = "adaptive" /\ cfg.callers \subseteq Callers
  <2>1. cfg.callers \subseteq Callers
    BY Shape DEF TypeInv, Types
  <2> QED BY <2>1, PlaceTypes DEF At
<1>2. ASSUME NEW d \in Callers, ~AdaptiveRecord(d), Execute(d) PROVE pc'[c] # "judge"
  <2>1. \E p : p # "judge" /\ pc' = [pc EXCEPT ![d] = p]
    <3>1. CASE ChainStep(d) \/ RecordRequest(d) \/ RecordFailed(d)
      BY <3>1 DEF ChainStep, Do, HttpReturns, HooksBefore, HooksAfter, FallbackNext, FallbackReturns, ReadBody,
                  RecordRequest, RecordFailed, CallNext, Return, Goto
    <3>2. CASE CacheStep(d)
      BY <3>2 DEF CacheStep, CacheSkips, Lookup, Hit, Miss, CachePasses, Fill, FillPanics, Store, CallNext, Return, Goto
    <3>3. CASE SharedStep(d)
      BY <3>3 DEF SharedStep, Join, Lead, ShareAnswer, DoneAgain, DeleteCall, Wake, WakeBroken, CallNext, Return, Goto
    <3>4. CASE TimeoutsStep(d)
      BY <1>2, <3>4 DEF TimeoutsStep, TimeoutEnter, TimeoutReturns, AdaptiveEnter, AdaptiveStart,
                        AdaptiveReturns, ReturnCancelling, CallNext, Return, Goto
    <3> QED BY <1>2, <3>1, <3>2, <3>3, <3>4 DEF Execute
  <2> QED BY <1>1, <2>1
<1>3. ASSUME NEW d \in Callers, AdaptiveRecord(d) PROVE d = c
  <2>1. pc' = [pc EXCEPT ![d] = "judge"]
    BY <1>3 DEF AdaptiveRecord, Goto
  <2> QED BY <1>1, <2>1
<1>4. ASSUME NEW d \in Callers, Surroundings(d) PROVE pc' = pc
  BY <1>4 DEF Surroundings, Fault, ContextEnds, NetworkBreaks, Expire
<1>5. Tick \/ Snapshot \/ HealthStep \/ UNCHANGED vars => pc' = pc
  BY DEF Tick, Snapshot, HealthStep, NewHealthChecker, SetRef, CloseBegins, CloseChecker, LoopStops,
         vars, chainVars, context
<1> QED BY <1>1, <1>2, <1>3, <1>4, <1>5 DEF Next, Terminating

\* The arithmetic of a duration that is due at d, with the limit m, and watched
\* from b to k.
LEMMA StaysAbove ==
  ASSUME NEW m \in Int, NEW n \in Int, NEW k \in Int, NEW d \in Int, NEW b \in Int,
         n >= m \/ n >= k - b, k >= d, d - m <= b
  PROVE  n >= m - (b - (d - m))
OBVIOUS

\* A call that the adaptive timeout has cut off does not lower the median, but by
\* the time that passed between the setting of its deadline and the start of its
\* watch, whatever the percentile and however many durations are kept.
THEOREM TimedOutNeverLowersCorrect == Spec => TimedOutNeverLowers
<1>1. ASSUME TimedInv, [Next]_vars, NEW c \in Callers,
             At(c, "adaptive", "out"), pc'[c] = "judge", at[c] \in ended[c], limit[c] = median,
             Len(durations) \in MinSamples .. MaxSamples - 1
      PROVE  median' >= median - (begun[c] - (due[c] - limit[c]))
  <2>1. AdaptiveRecord(c)
    BY <1>1, JudgedNext DEF TimedInv
  <2>2. /\ durations \in Seq(Int) /\ median \in Int /\ clock \in Nat
        /\ limit[c] \in Int /\ due[c] \in Int /\ begun[c] \in Int
        /\ MinSamples \in Nat \ {0} /\ MaxSamples \in Nat
    <3>1. MinSamples \in Nat \ {0} /\ MaxSamples \in Nat
      BY TimeoutsAssumption
    <3>2. ContextTypes /\ TimeoutTypes
      BY <1>1 DEF TimedInv, TypeInv, Types
    <3> QED BY <3>1, <3>2
  <2>3. Len(durations) \in Nat /\ Len(durations) >= MinSamples /\ Len(durations) < MaxSamples /\ Len(durations) > 0
    BY <1>1, <2>2
  <2>4. median = Quantile(durations)
    BY <1>1, <2>3 DEF TimedInv, Timed
  <2>5. clock >= due[c] /\ due[c] - limit[c] <= begun[c]
    <3>1. at[c] \in DOMAIN cfg.chain /\ cfg.chain[at[c]] = "adaptive" /\ at[c] \in Int /\ pc[c] = "out"
      BY <1>1, PlaceOf, PlaceTypes DEF TimedInv, TypeInv, Types, At, Layer
    <3>2. Passed(c, at[c]) /\ at[c] >= at[c]
      BY <3>1 DEF Passed
    <3> QED BY <1>1, <3>1, <3>2 DEF TimedInv, Timed, OnTime
  <2>6. durations' = Append(durations, Elapsed(c)) /\ Elapsed(c) \in Int
    <3>1. Elapsed(c) \in Int
      BY <2>2 DEF Elapsed
    <3>2. With(Elapsed(c)) = Append(durations, Elapsed(c))
      BY <1>1, <2>3, <3>1, WithFits DEF TimedInv, TypeInv, Types
    <3> QED BY <2>1, <3>1, <3>2 DEF AdaptiveRecord
  <2>7. median' = Quantile(Append(durations, Elapsed(c)))
    <3>1. Len(durations') >= MinSamples
      BY <2>2, <2>3, <2>6
    <3> QED BY <2>1, <2>6, <3>1 DEF AdaptiveRecord
  <2>8. median' >= median \/ median' >= Elapsed(c)
    BY <2>2, <2>3, <2>4, <2>6, <2>7, QuantileAppend
  <2>9. median' \in Int
    <3>1. Append(durations, Elapsed(c)) \in Seq(Int) /\ Len(Append(durations, Elapsed(c))) > 0
      BY <2>2, <2>6
    <3> QED BY <2>7, <3>1, QuantileOf
  <2>10. median' >= median \/ median' >= clock - begun[c]
    BY <2>8 DEF Elapsed
  <2>11. limit[c] = median /\ clock \in Int
    BY <1>1, <2>2
  <2> QED BY <2>2, <2>5, <2>9, <2>10, <2>11, StaysAbove
<1>2. TimedInv /\ [Next]_vars =>
        [\A c \in Callers :
           /\ At(c, "adaptive", "out") /\ pc'[c] = "judge"
           /\ at[c] \in ended[c] /\ limit[c] = median
           /\ Len(durations) \in MinSamples .. MaxSamples - 1
           => median' >= median - (begun[c] - (due[c] - limit[c]))]_vars
  BY <1>1
<1> QED BY <1>2, TimedInvariant, PTL DEF Spec, TimedOutNeverLowers
=============================================================================
