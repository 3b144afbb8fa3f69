--------------------------- MODULE BulkheadProofs ---------------------------
(***************************************************************************)
(* Invariants of BulkheadPolicy, for any number of workers, callers and    *)
(* places in the queue, and their proofs.                                  *)
(***************************************************************************)
EXTENDS Bulkhead, FiniteSetTheorems, TLAPS

\* TypeOK, but for the bounds of the counters.
Shape ==
  /\ cfg \in Configs
  /\ line \in [Queues -> Seq(Reqs)]
  /\ closed \in BOOLEAN
  /\ inFlight \in Int /\ denied \in Nat
  /\ wpc \in [Workers -> {"look", "inner", "parked", "run", "deliver", "exited"}]
  /\ job \in [Workers -> Reqs \union {NoReq}]
  /\ pc \in [Reqs -> {"idle", "send", "queued", "result", "returned"}]
  /\ outcome \in [Reqs -> {"none", "result", "full", "ctx", "closed"}]
  /\ {delivered, started} \subseteq [Reqs -> BOOLEAN]
  /\ overtaken \in [Reqs -> [Workers -> Nat]]

\* A request that stands in a channel is in the right one, has been sent and not
\* been taken; behind the buffer its caller waits.
Standing ==
  \A q \in Queues : \A i \in 1 .. Len(line[q]) :
    /\ Target(line[q][i]) = q
    /\ ~started[line[q][i]]
    /\ pc[line[q][i]] \notin {"idle", "send"}
    /\ i > QueueSize => pc[line[q][i]] = "queued"

\* It stands there once.
OnePlace ==
  \A q \in Queues : \A i, j \in 1 .. Len(line[q]) : line[q][i] = line[q][j] => i = j

\* Workers run and deliver requests that they have taken.
JobsTaken ==
  \A w \in Workers :
    /\ wpc[w] \in {"run", "deliver"} <=> job[w] # NoReq
    /\ job[w] # NoReq => started[job[w]]

\* A request is taken after it was sent, and Execute waits for its result after that.
TakenInOrder ==
  \A r \in Reqs :
    /\ started[r] => pc[r] \notin {"idle", "send"}
    /\ pc[r] = "result" => started[r]

\* The inductive invariant of the requests' places.
PlaceInv == Shape /\ Standing /\ OnePlace /\ JobsTaken /\ TakenInOrder

Busy == {w \in Workers : wpc[w] = "run"}
Unanswered == {r \in Reqs : pc[r] # "returned"}

\* Execute is denied at most once.
DeniedOnce == denied + Cardinality(Unanswered) <= Cardinality(Reqs)

\* A worker between its two selects has not yet overtaken the priority requests that
\* wait: it had seen their channel empty.
OvertakingInv ==
  \A r \in Reqs, w \in Workers :
    /\ pc[r] \in {"idle", "send"} => overtaken[r][w] = 0
    /\ overtaken[r][w] <= 1
    /\ Contains(line["high"], r) /\ wpc[w] = "inner" => overtaken[r][w] = 0

-----------------------------------------------------------------------------
(* The three ways in which a channel changes. *)

\* t holds elements of s, each once if it did in s, and none further back.
Thinner(t, s) ==
  /\ \A i \in 1 .. Len(t) : \E j \in 1 .. Len(s) : i <= j /\ t[i] = s[j]
  /\ (\A i, j \in 1 .. Len(s) : s[i] = s[j] => i = j)
       => \A i, j \in 1 .. Len(t) : t[i] = t[j] => i = j

LEMMA TailThinner ==
  ASSUME NEW S, NEW s \in Seq(S), s # <<>>
  PROVE  /\ Head(s) = s[1] /\ 1 \in 1 .. Len(s) /\ Head(s) \in S
         /\ Tail(s) \in Seq(S)
         /\ Len(Tail(s)) = Len(s) - 1
         /\ \A i \in 1 .. Len(Tail(s)) : Tail(s)[i] = s[i + 1]
         /\ Thinner(Tail(s), s)
<1>1. Len(s) \in Nat \ {0}
  OBVIOUS
<1>2. Tail(s) \in Seq(S) /\ Len(Tail(s)) = Len(s) - 1
  OBVIOUS
<1>3. \A i \in 1 .. Len(Tail(s)) : Tail(s)[i] = s[i + 1] /\ i + 1 \in 1 .. Len(s)
  BY <1>1, <1>2
<1>4. Thinner(Tail(s), s)
  BY <1>1, <1>2, <1>3 DEF Thinner
<1> QED BY <1>1, <1>2, <1>3, <1>4

LEMMA RemoveAtThinner ==
  ASSUME NEW S, NEW s \in Seq(S), NEW k \in 1 .. Len(s)
  PROVE  /\ RemoveAt(s, k) \in Seq(S)
         /\ Len(RemoveAt(s, k)) = Len(s) - 1
         /\ \A i \in 1 .. Len(RemoveAt(s, k)) :
              RemoveAt(s, k)[i] = IF i < k THEN s[i] ELSE s[i + 1]
         /\ Thinner(RemoveAt(s, k), s)
<1> DEFINE u == SubSeq(s, 1, k - 1)
           v == SubSeq(s, k + 1, Len(s))
           t == RemoveAt(s, k)
<1>1. Len(s) \in Nat /\ k \in Nat /\ k <= Len(s) /\ k >= 1
  OBVIOUS
<1>2. /\ u \in Seq(S) /\ Len(u) = k - 1
      /\ \A i \in 1 .. k - 1 : u[i] = s[i]
  BY <1>1
<1>3. /\ v \in Seq(S) /\ Len(v) = Len(s) - k
      /\ \A i \in 1 .. Len(s) - k : v[i] = s[i + k]
  BY <1>1
<1>4. t = u \o v
  BY DEF RemoveAt
<1> HIDE DEF u, v
<1>5. t \in Seq(S) /\ Len(t) = Len(s) - 1
  BY <1>1, <1>2, <1>3, <1>4
<1>6. ASSUME NEW i \in 1 .. Len(t)
      PROVE  /\ t[i] = IF i < k THEN s[i] ELSE s[i + 1]
             /\ i \in 1 .. Len(s) /\ i + 1 \in 1 .. Len(s)
  <2>1. i \in 1 .. Len(s) - 1
    BY <1>5
  <2>2. CASE i < k
    BY <1>1, <1>2, <1>3, <1>4, <2>1, <2>2
  <2>3. CASE i >= k
    <3>1. t[i] = v[i - (k - 1)]
      BY <1>1, <1>2, <1>3, <1>4, <2>1, <2>3
    <3>2. i - (k - 1) \in 1 .. Len(s) - k /\ (i - (k - 1)) + k = i + 1
      BY <1>1, <2>1, <2>3
    <3> QED BY <1>1, <1>3, <2>1, <2>3, <3>1, <3>2
  <2> QED BY <1>1, <2>1, <2>2, <2>3
<1> HIDE DEF t
<1>7. Thinner(t, s)
  <2>1. ASSUME NEW i \in 1 .. Len(t) PROVE \E j \in 1 .. Len(s) : i <= j /\ t[i] = s[j]
    BY <1>1, <1>6
  <2>2. ASSUME \A i, j \in 1 .. Len(s) : s[i] = s[j] => i = j,
               NEW i \in 1 .. Len(t), NEW j \in 1 .. Len(t), t[i] = t[j]
        PROVE  i = j
    <3> DEFINE at(n) == IF n < k THEN n ELSE n + 1
    <3>1. t[i] = s[at(i)] /\ at(i) \in 1 .. Len(s) /\ t[j] = s[at(j)] /\ at(j) \in 1 .. Len(s)
      BY <1>6
    <3>2. at(i) = at(j)
      BY <2>2, <3>1
    <3> QED BY <1>1, <1>5, <3>2
  <2> QED BY <2>1, <2>2 DEF Thinner
<1> QED BY <1>5, <1>6, <1>7 DEF t

LEMMA AppendFacts ==
  ASSUME NEW S, NEW s \in Seq(S), NEW e \in S
  PROVE  /\ Append(s, e) \in Seq(S)
         /\ Len(Append(s, e)) = Len(s) + 1 /\ Len(s) \in Nat
         /\ \A i \in 1 .. Len(Append(s, e)) :
              Append(s, e)[i] = IF i <= Len(s) THEN s[i] ELSE e
  OBVIOUS

-----------------------------------------------------------------------------
(* The places of the requests. *)

LEMMA QueuesTwo ==
  /\ Queues = {"high", "normal"}
  /\ \A r \in Reqs : Target(r) \in Queues
  BY DEF Queues, Target

LEMMA QueueSizeNat == Shape => MaxQueue \in Nat /\ QueueSize = MaxQueue
  BY BulkheadAssumption DEF Shape, MaxQueue, QueueSize

LEMMA PlaceInit == Init => PlaceInv
<1> SUFFICES ASSUME Init PROVE PlaceInv
  OBVIOUS
<1>1. \A q \in Queues : line[q] = <<>> /\ Len(line[q]) = 0 /\ line[q] \in Seq(Reqs)
  BY DEF Init
<1>2. Shape
  <2>1. line \in [Queues -> Seq(Reqs)]
    BY <1>1 DEF Init
  <2>2. {delivered, started} \subseteq [Reqs -> BOOLEAN] /\ closed \in BOOLEAN
    BY DEF Init
  <2> QED BY <2>1, <2>2 DEF Init, Shape
<1>3. Standing /\ OnePlace
  BY <1>1 DEF Standing, OnePlace
<1>4. JobsTaken /\ TakenInOrder
  BY DEF Init, JobsTaken, TakenInOrder
<1> QED BY <1>2, <1>3, <1>4 DEF PlaceInv

\* A channel from which r has gone; r may have moved on.
LEMMA LineThinned ==
  ASSUME PlaceInv, NEW r, NEW q \in Queues, NEW t \in Seq(Reqs), Thinner(t, line[q]),
         \A i \in 1 .. Len(t) : t[i] # r,
         Target(r) = q,
         line' = [line EXCEPT ![q] = t], cfg' = cfg,
         \A p \in Reqs \ {r} : started'[p] = started[p] /\ pc'[p] = pc[p]
  PROVE  line' \in [Queues -> Seq(Reqs)] /\ Standing' /\ OnePlace'
<1>1. line \in [Queues -> Seq(Reqs)]
  BY DEF PlaceInv, Shape
<1>2. line'[q] = t /\ \A p \in Queues \ {q} : line'[p] = line[p]
  BY <1>1
<1>3. ASSUME NEW p \in Queues, NEW i \in 1 .. Len(line'[p])
      PROVE  /\ line'[p][i] \in Reqs \ {r}
             /\ \E j \in 1 .. Len(line[p]) : i <= j /\ line'[p][i] = line[p][j]
  <2>1. line'[p] \in Seq(Reqs) /\ line'[p][i] \in Reqs /\ i \in Nat
    BY <1>1, <1>2
  <2>2. CASE p = q
    BY <1>2, <2>1, <2>2 DEF Thinner
  <2>3. CASE p # q
    <3>1. line'[p] = line[p]
      BY <1>2, <2>3
    <3>2. Target(line[p][i]) = p
      BY <3>1 DEF PlaceInv, Standing
    <3> QED BY <2>1, <2>3, <3>1, <3>2
  <2> QED BY <2>2, <2>3
<1>4. Standing'
  <2> SUFFICES ASSUME NEW p \in Queues, NEW i \in 1 .. Len(line'[p])
               PROVE  (/\ Target(line[p][i]) = p
                       /\ ~started[line[p][i]]
                       /\ pc[line[p][i]] \notin {"idle", "send"}
                       /\ i > QueueSize => pc[line[p][i]] = "queued")'
    BY DEF Standing
  <2>1. PICK j \in 1 .. Len(line[p]) : i <= j /\ line'[p][i] = line[p][j]
    BY <1>3
  <2>2. (Target(line[p][i]))' = Target(line[p][j]) /\ QueueSize' = QueueSize
    BY <2>1 DEF Target, Priority, MaxQueue, QueueSize
  <2>3. /\ started'[line'[p][i]] = started[line[p][j]]
        /\ pc'[line'[p][i]] = pc[line[p][j]]
    <3> DEFINE x == line'[p][i]
    <3>1. x \in Reqs \ {r}
      BY <1>3
    <3>2. x = line[p][j]
      BY <2>1
    <3> HIDE DEF x
    <3>3. started'[x] = started[x] /\ pc'[x] = pc[x]
      BY <3>1
    <3> QED BY <3>2, <3>3 DEF x
  <2>4. QueueSize \in Nat
    BY QueueSizeNat DEF PlaceInv
  <2>5. i > QueueSize => j > QueueSize
    BY <1>1, <2>1, <2>4
  <2> QED BY <2>1, <2>2, <2>3, <2>5 DEF PlaceInv, Standing
<1>5. OnePlace'
  <2> SUFFICES ASSUME NEW p \in Queues
               PROVE  \A i, j \in 1 .. Len(line'[p]) : line'[p][i] = line'[p][j] => i = j
    BY DEF OnePlace
  <2>0. \A s \in Queues : \A i, j \in 1 .. Len(line[s]) : line[s][i] = line[s][j] => i = j
    BY DEF PlaceInv, OnePlace
  <2>1. CASE p = q
    <3>1. \A i, j \in 1 .. Len(t) : t[i] = t[j] => i = j
      BY <2>0 DEF Thinner
    <3> QED BY <1>2, <2>1, <3>1
  <2>2. CASE p # q
    <3>1. line'[p] = line[p]
      BY <1>2, <2>2
    <3> QED BY <2>0, <3>1
  <2> QED BY <2>1, <2>2
<1>6. line' \in [Queues -> Seq(Reqs)]
  BY <1>1
<1> QED BY <1>4, <1>5, <1>6

\* The channels as they are, while r, if it stands in one, stays a waiting request.
LEMMA LineSame ==
  ASSUME PlaceInv, NEW r, UNCHANGED <<line, cfg, started>>,
         \A p \in Reqs \ {r} : pc'[p] = pc[p],
         \A q \in Queues : \A i \in 1 .. Len(line[q]) : line[q][i] = r =>
           pc'[r] \notin {"idle", "send"} /\ (i > QueueSize => pc'[r] = "queued")
  PROVE  Standing' /\ OnePlace'
<1>1. Standing'
  <2> SUFFICES ASSUME NEW p \in Queues, NEW i \in 1 .. Len(line[p])
               PROVE  /\ Target(line[p][i])' = p
                      /\ ~started'[line[p][i]]
                      /\ pc'[line[p][i]] \notin {"idle", "send"}
                      /\ i > QueueSize' => pc'[line[p][i]] = "queued"
    BY DEF Standing
  <2>1. line[p][i] \in Reqs
    BY DEF PlaceInv, Shape
  <2>2. Target(line[p][i])' = Target(line[p][i]) /\ QueueSize' = QueueSize
    BY DEF Target, Priority, MaxQueue, QueueSize
  <2> QED BY <2>1, <2>2 DEF PlaceInv, Standing
<1> QED BY <1>1 DEF PlaceInv, OnePlace

\* The first request of a channel is taken.
LEMMA TakeThins ==
  ASSUME PlaceInv, NEW w \in Workers, NEW q \in Queues, Take(w, q)
  PROVE  LET r == Head(line[q])
         IN  /\ r \in Reqs /\ Target(r) = q /\ Start(w, r)
             /\ pc[r] \notin {"idle", "send"} /\ ~started[r]
             /\ line' \in [Queues -> Seq(Reqs)] /\ Standing' /\ OnePlace'
<1> DEFINE r == Head(line[q])
           t == Tail(line[q])
<1>1. line[q] \in Seq(Reqs) /\ line[q] # <<>>
  BY DEF PlaceInv, Shape, Take
<1>2. /\ r = line[q][1] /\ 1 \in 1 .. Len(line[q]) /\ r \in Reqs
      /\ t \in Seq(Reqs) /\ Thinner(t, line[q])
      /\ Len(t) = Len(line[q]) - 1
      /\ \A i \in 1 .. Len(t) : t[i] = line[q][i + 1]
  BY <1>1, TailThinner
<1>3. Target(r) = q /\ pc[r] \notin {"idle", "send"} /\ ~started[r]
  BY <1>2 DEF PlaceInv, Standing
<1>4. Start(w, r) /\ line' = [line EXCEPT ![q] = t] /\ UNCHANGED <<cfg, pc>>
  BY DEF Take, callerVars
<1>5. \A p \in Reqs \ {r} : started'[p] = started[p]
  BY <1>4 DEF Start, PlaceInv, Shape
<1>6. \A i \in 1 .. Len(t) : t[i] # r
  <2> SUFFICES ASSUME NEW i \in 1 .. Len(t), t[i] = r PROVE FALSE
    OBVIOUS
  <2>1. i + 1 \in 1 .. Len(line[q]) /\ i + 1 # 1 /\ line[q][i + 1] = line[q][1]
    BY <1>1, <1>2
  <2> QED BY <1>2, <2>1 DEF PlaceInv, OnePlace
<1> HIDE DEF r, t
<1>7. line' \in [Queues -> Seq(Reqs)] /\ Standing' /\ OnePlace'
  BY <1>2, <1>3, <1>4, <1>5, <1>6, LineThinned
<1> QED BY <1>2, <1>3, <1>4, <1>7 DEF r

\* A caller gives up: it leaves the channel, or its request waits in the buffer.
LEMMA LeaveThins ==
  ASSUME PlaceInv, NEW r \in Reqs, LeaveLine(r), UNCHANGED <<cfg, started>>,
         pc' = [pc EXCEPT ![r] = "returned"]
  PROVE  line' \in [Queues -> Seq(Reqs)] /\ Standing' /\ OnePlace'
<1>1. line \in [Queues -> Seq(Reqs)] /\ Target(r) \in Queues
      /\ DOMAIN pc = Reqs
  BY QueuesTwo DEF PlaceInv, Shape
<1>2. pc'[r] = "returned" /\ \A p \in Reqs \ {r} : pc'[p] = pc[p] /\ started'[p] = started[p]
  BY <1>1
<1>3. CASE ~Blocked(r) /\ UNCHANGED line
  <2>1. ASSUME NEW q \in Queues, NEW i \in 1 .. Len(line[q]), line[q][i] = r
        PROVE  pc'[r] \notin {"idle", "send"} /\ ~(i > QueueSize)
    <3>1. Target(r) = q
      BY <2>1 DEF PlaceInv, Standing
    <3> QED BY <1>1, <1>3, <2>1, <3>1 DEF Blocked, BlockedAt
  <2> QED BY <1>1, <1>2, <1>3, <2>1, LineSame
<1>4. CASE \E i \in 1 .. Len(line[Target(r)]) :
             BlockedAt(r, i) /\ line' = [line EXCEPT ![Target(r)] = RemoveAt(@, i)]
  <2> DEFINE q == Target(r)
  <2>1. PICK k \in 1 .. Len(line[q]) :
          line[q][k] = r /\ line' = [line EXCEPT ![q] = RemoveAt(line[q], k)]
    BY <1>4 DEF BlockedAt
  <2> DEFINE t == RemoveAt(line[q], k)
  <2>2. line[q] \in Seq(Reqs)
    BY <1>1
  <2>3. /\ t \in Seq(Reqs) /\ Thinner(t, line[q])
        /\ Len(t) = Len(line[q]) - 1
        /\ \A i \in 1 .. Len(t) : t[i] = IF i < k THEN line[q][i] ELSE line[q][i + 1]
    BY <2>2, RemoveAtThinner
  <2>4. \A i \in 1 .. Len(t) : t[i] # r
    <3> SUFFICES ASSUME NEW i \in 1 .. Len(t), t[i] = r PROVE FALSE
      OBVIOUS
    <3> DEFINE j == IF i < k THEN i ELSE i + 1
    <3>1. j \in 1 .. Len(line[q]) /\ j # k /\ line[q][j] = line[q][k]
      BY <2>1, <2>2, <2>3
    <3> QED BY <1>1, <2>1, <3>1 DEF PlaceInv, OnePlace
  <2>5. line' = [line EXCEPT ![q] = t] /\ q \in Queues /\ Target(r) = q
    BY <1>1, <2>1
  <2> HIDE DEF t, q
  <2> QED BY <1>2, <2>3, <2>4, <2>5, LineThinned
<1> QED BY <1>3, <1>4 DEF LeaveLine

\* What a worker that starts r changes, beside the channels.
LEMMA StartKeeps ==
  ASSUME PlaceInv, NEW w \in Workers, NEW r \in Reqs, Start(w, r),
         wpc[w] \notin {"run", "deliver"}, UNCHANGED <<closed, cfg, denied, outcome, delivered>>,
         line' \in [Queues -> Seq(Reqs)], pc' \in [Reqs -> {"idle", "send", "queued", "result", "returned"}],
         pc'[r] \notin {"idle", "send"}, \A p \in Reqs \ {r} : pc'[p] = pc[p]
  PROVE  Shape' /\ JobsTaken' /\ TakenInOrder'
<1>1. Shape'
  <2>1. overtaken' \in [Reqs -> [Workers -> Nat]]
    BY DEF Start, PlaceInv, Shape
  <2>2. {delivered', started'} \subseteq [Reqs -> BOOLEAN]
    BY DEF Start, PlaceInv, Shape
  <2> QED BY <2>1, <2>2 DEF Start, PlaceInv, Shape
<1>2. JobsTaken'
  BY BulkheadAssumption DEF Start, PlaceInv, Shape, JobsTaken
<1>3. TakenInOrder'
  BY DEF Start, PlaceInv, Shape, TakenInOrder
<1> QED BY <1>1, <1>2, <1>3

\* The invariant of the places is kept by every step.
LEMMA PlaceStep == PlaceInv /\ [Next]_vars => PlaceInv'
<1> SUFFICES ASSUME PlaceInv, [Next]_vars PROVE PlaceInv'
  OBVIOUS
<1>0. /\ Shape /\ JobsTaken /\ TakenInOrder
      /\ \A r \in Reqs : Target(r) \in Queues
  BY QueuesTwo DEF PlaceInv
\* The steps of a caller that has no request in a channel.
<1>1. ASSUME NEW r \in Reqs,
             UNCHANGED <<line, cfg, started>>, Shape', JobsTaken', TakenInOrder',
             pc[r] \in {"idle", "send"} \/ started[r],
             \A p \in Reqs \ {r} : pc'[p] = pc[p]
      PROVE  PlaceInv'
  <2>1. \A q \in Queues : \A i \in 1 .. Len(line[q]) : line[q][i] # r
    BY <1>1 DEF PlaceInv, Standing
  <2>2. Standing' /\ OnePlace'
    BY <1>1, <2>1, LineSame
  <2> QED BY <1>1, <2>2 DEF PlaceInv
<1>2. ASSUME NEW r \in Reqs, Call(r) PROVE PlaceInv'
  <2>1. Shape'
    <3>1. /\ pc' \in [Reqs -> {"idle", "send", "queued", "result", "returned"}]
          /\ outcome' \in [Reqs -> {"none", "result", "full", "ctx", "closed"}]
          /\ denied' = denied
      <4>1. CASE closed
        <5>1. Answer(r, "closed", 0)
          BY <1>2, <4>1 DEF Call
        <5> QED BY <1>0, <5>1 DEF Answer, Shape
      <4>2. CASE ~closed
        <5>1. Move(r, "send")
          BY <1>2, <4>2 DEF Call
        <5> QED BY <1>0, <5>1 DEF Move, Shape
      <4> QED BY <4>1, <4>2
    <3>2. UNCHANGED <<line, cfg, closed, workerVars, delivered, overtaken>>
      BY <1>2 DEF Call
    <3> QED BY <1>0, <3>1, <3>2 DEF workerVars, Shape
  <2>2. JobsTaken' /\ TakenInOrder'
    BY <1>0, <1>2 DEF Call, Answer, Move, workerVars, Shape, JobsTaken, TakenInOrder
  <2>3. /\ UNCHANGED <<line, cfg, started>> /\ pc[r] = "idle"
        /\ \A p \in Reqs \ {r} : pc'[p] = pc[p]
    BY <1>0, <1>2 DEF Call, Answer, Move, workerVars, Shape
  <2> QED BY <1>1, <2>1, <2>2, <2>3
<1>3. ASSUME NEW r \in Reqs, FailFast(r) PROVE PlaceInv'
  <2>1. Shape'
    BY <1>0, <1>3 DEF FailFast, Answer, workerVars, Shape
  <2>2. JobsTaken' /\ TakenInOrder'
    BY <1>0, <1>3 DEF FailFast, Answer, workerVars, Shape, JobsTaken, TakenInOrder
  <2>3. /\ UNCHANGED <<line, cfg, started>> /\ pc[r] = "send"
        /\ \A p \in Reqs \ {r} : pc'[p] = pc[p]
    BY <1>0, <1>3 DEF FailFast, Answer, workerVars, Shape
  <2> QED BY <1>1, <2>1, <2>2, <2>3
<1>4. ASSUME NEW r \in Reqs, SeeDequeued(r) PROVE PlaceInv'
  <2>1. Shape'
    BY <1>0, <1>4 DEF SeeDequeued, Move, workerVars, Shape
  <2>2. JobsTaken' /\ TakenInOrder'
    BY <1>0, <1>4 DEF SeeDequeued, Move, workerVars, Shape, JobsTaken, TakenInOrder
  <2>3. /\ UNCHANGED <<line, cfg, started>> /\ started[r]
        /\ \A p \in Reqs \ {r} : pc'[p] = pc[p]
    BY <1>0, <1>4 DEF SeeDequeued, Move, workerVars, Shape
  <2> QED BY <1>1, <2>1, <2>2, <2>3
<1>5. ASSUME NEW r \in Reqs, Receive(r) PROVE PlaceInv'
  <2>1. Shape'
    BY <1>0, <1>5 DEF Receive, Answer, workerVars, Shape
  <2>2. JobsTaken' /\ TakenInOrder'
    BY <1>0, <1>5 DEF Receive, Answer, workerVars, Shape, JobsTaken, TakenInOrder
  <2>3. /\ UNCHANGED <<line, cfg, started>> /\ started[r]
        /\ \A p \in Reqs \ {r} : pc'[p] = pc[p]
    BY <1>0, <1>5 DEF Receive, Answer, workerVars, Shape, TakenInOrder
  <2> QED BY <1>1, <2>1, <2>2, <2>3
<1>6. ASSUME NEW r \in Reqs, QueueTimeout(r) \/ CtxDone(r) PROVE PlaceInv'
  <2>1. /\ LeaveLine(r) /\ pc' = [pc EXCEPT ![r] = "returned"]
        /\ UNCHANGED <<cfg, closed, workerVars, delivered, overtaken>>
        /\ outcome' \in [Reqs -> {"none", "result", "full", "ctx", "closed"}]
        /\ denied' = denied + 1
    BY <1>0, <1>6 DEF QueueTimeout, CtxDone, Answer, Shape
  <2>2. line' \in [Queues -> Seq(Reqs)] /\ Standing' /\ OnePlace'
    BY <2>1, LeaveThins DEF workerVars
  <2>3. Shape'
    BY <1>0, <2>1, <2>2 DEF workerVars, Shape
  <2>4. JobsTaken' /\ TakenInOrder'
    BY <1>0, <2>1 DEF workerVars, Shape, JobsTaken, TakenInOrder
  <2> QED BY <2>2, <2>3, <2>4 DEF PlaceInv
<1>7. ASSUME NEW r \in Reqs, NEW w \in Workers, HandOver(r, w) PROVE PlaceInv'
  <2>1. /\ pc[r] = "send" /\ wpc[w] = "parked" /\ Start(w, r) /\ pc' = [pc EXCEPT ![r] = Sent]
        /\ UNCHANGED <<line, cfg, closed, delivered, outcome, denied>>
    BY <1>7 DEF HandOver, ParkedOn, Move
  <2>2. Sent \in {"queued", "result"}
    BY DEF Sent
  <2>3. /\ pc' \in [Reqs -> {"idle", "send", "queued", "result", "returned"}]
        /\ pc'[r] \notin {"idle", "send"} /\ \A p \in Reqs \ {r} : pc'[p] = pc[p]
    BY <1>0, <2>1, <2>2 DEF Shape
  <2>4. Shape' /\ JobsTaken' /\ TakenInOrder'
    BY <1>0, <2>1, <2>3, StartKeeps DEF Shape
  <2>5. \A q \in Queues : \A i \in 1 .. Len(line[q]) : line[q][i] # r
    BY <2>1 DEF PlaceInv, Standing
  <2>6. started' = [started EXCEPT ![r] = TRUE]
    BY <2>1 DEF Start
  <2>7. Standing'
    <3> SUFFICES ASSUME NEW q \in Queues, NEW i \in 1 .. Len(line[q])
                 PROVE  (/\ Target(line[q][i]) = q
                         /\ ~started[line[q][i]]
                         /\ pc[line[q][i]] \notin {"idle", "send"}
                         /\ i > QueueSize => pc[line[q][i]] = "queued")'
      BY <2>1 DEF Standing
    <3>1. line[q][i] \in Reqs \ {r}
      BY <1>0, <2>5 DEF Shape
    <3>2. /\ (Target(line[q][i]))' = Target(line[q][i]) /\ QueueSize' = QueueSize
          /\ started'[line[q][i]] = started[line[q][i]] /\ line' = line
      BY <1>0, <2>1, <2>6, <3>1 DEF Shape, Target, Priority, MaxQueue, QueueSize
    <3> QED BY <2>1, <2>3, <3>1, <3>2 DEF PlaceInv, Standing
  <2>8. OnePlace'
    BY <2>1 DEF PlaceInv, OnePlace
  <2> QED BY <2>4, <2>7, <2>8 DEF PlaceInv
<1>8. ASSUME NEW r \in Reqs, Enqueue(r) PROVE PlaceInv'
  <2> DEFINE q == Target(r)
             t == Append(line[q], r)
  <2>1. /\ pc[r] = "send" /\ MaxQueue # 0 /\ pc' = [pc EXCEPT ![r] = "queued"]
        /\ line' = [line EXCEPT ![q] = t]
        /\ UNCHANGED <<cfg, closed, workerVars, delivered, overtaken, outcome, denied>>
    <3>1. MaxQueue \in Nat /\ QueueSize = MaxQueue /\ Len(line[q]) \in Nat
      BY <1>0, QueueSizeNat DEF Shape
    <3>2. MaxQueue # 0
      BY <1>8, <3>1 DEF Enqueue
    <3> QED BY <1>8, <3>2 DEF Enqueue, Move, Sent
  <2>2. q \in Queues /\ line[q] \in Seq(Reqs)
    BY <1>0 DEF Shape
  <2>3. /\ t \in Seq(Reqs) /\ Len(t) = Len(line[q]) + 1 /\ Len(line[q]) \in Nat
        /\ \A i \in 1 .. Len(t) : t[i] = IF i <= Len(line[q]) THEN line[q][i] ELSE r
    BY <2>2, AppendFacts
  <2>4. \A p \in Queues : \A i \in 1 .. Len(line[p]) : line[p][i] # r /\ line[p][i] \in Reqs
    BY <1>0, <2>1 DEF PlaceInv, Standing, Shape
  <2>5. ~started[r]
    BY <1>0, <2>1 DEF TakenInOrder
  <2> HIDE DEF t
  <2>6. Shape'
    BY <1>0, <2>1, <2>2, <2>3 DEF workerVars, Shape
  <2>7. JobsTaken' /\ TakenInOrder'
    BY <1>0, <2>1, <2>5 DEF workerVars, Shape, JobsTaken, TakenInOrder
  <2>8. Standing'
    <3> SUFFICES ASSUME NEW p \in Queues, NEW i \in 1 .. Len(line'[p])
                 PROVE  (/\ Target(line[p][i]) = p
                         /\ ~started[line[p][i]]
                         /\ pc[line[p][i]] \notin {"idle", "send"}
                         /\ i > QueueSize => pc[line[p][i]] = "queued")'
      BY DEF Standing
    <3>1. \A x : (Target(x))' = Target(x)
      BY <2>1 DEF Target, Priority, MaxQueue
    <3>2. QueueSize' = QueueSize /\ started' = started
      BY <2>1 DEF QueueSize, MaxQueue, workerVars
    <3>3. CASE p = q /\ i > Len(line[q])
      <4>0. line'[p] = t
        BY <1>0, <2>1, <2>2, <3>3 DEF Shape
      <4>1. line'[p][i] = r
        BY <2>3, <3>3, <4>0
      <4>2. (Target(line[p][i]))' = Target(r)
        BY <2>1, <4>1 DEF Target, Priority, MaxQueue
      <4> QED BY <1>0, <2>1, <2>5, <3>2, <3>3, <4>1, <4>2 DEF Shape
    <3>4. CASE ~(p = q /\ i > Len(line[q]))
      <4>1. i \in 1 .. Len(line[p]) /\ line'[p][i] = line[p][i]
        <5>0. line \in [Queues -> Seq(Reqs)] /\ line' = [line EXCEPT ![q] = t]
          BY <1>0, <2>1 DEF Shape
        <5>1. CASE p = q
          <6>1. line'[p] = t
            BY <2>2, <5>0, <5>1
          <6>2. i \in 1 .. Len(t) /\ i <= Len(line[q])
            BY <2>3, <3>4, <5>1, <6>1
          <6> QED BY <2>3, <5>1, <6>1, <6>2
        <5>2. CASE p # q
          <6>1. line'[p] = line[p]
            BY <2>2, <5>0, <5>2
          <6> QED BY <6>1
        <5> QED BY <5>1, <5>2
      <4>2. (Target(line[p][i]))' = Target(line[p][i]) /\ pc'[line'[p][i]] = pc[line[p][i]]
        BY <1>0, <2>1, <2>4, <4>1 DEF Shape, Target, Priority, MaxQueue
      <4> QED BY <3>2, <4>1, <4>2 DEF PlaceInv, Standing
    <3> QED BY <3>3, <3>4
  <2>9. OnePlace'
    <3> SUFFICES ASSUME NEW p \in Queues
                 PROVE  \A i, j \in 1 .. Len(line'[p]) : line'[p][i] = line'[p][j] => i = j
      BY DEF OnePlace
    <3>1. \A i, j \in 1 .. Len(line[p]) : line[p][i] = line[p][j] => i = j
      BY DEF PlaceInv, OnePlace
    <3>2. CASE p = q
      <4>1. line'[p] = t
        BY <1>0, <2>1, <3>2 DEF Shape
      <4> QED BY <2>2, <2>3, <2>4, <3>1, <3>2, <4>1
    <3>3. CASE p # q
      BY <1>0, <2>1, <3>1, <3>3 DEF Shape
    <3> QED BY <3>2, <3>3
  <2> QED BY <2>6, <2>7, <2>8, <2>9 DEF PlaceInv
\* The steps of a worker.
<1>9. ASSUME NEW w \in Workers, NEW q \in Queues, Take(w, q), wpc[w] \in {"look", "inner"}
      PROVE  PlaceInv'
  <2> DEFINE r == Head(line[q])
  <2>1. /\ r \in Reqs /\ Start(w, r) /\ pc[r] \notin {"idle", "send"}
        /\ line' \in [Queues -> Seq(Reqs)] /\ Standing' /\ OnePlace'
    BY <1>9, TakeThins
  <2>2. UNCHANGED <<cfg, closed, callerVars, delivered>>
    BY <1>9 DEF Take
  <2> HIDE DEF r
  <2>3. Shape' /\ JobsTaken' /\ TakenInOrder'
    BY <1>0, <1>9, <2>1, <2>2, StartKeeps DEF Shape, callerVars
  <2> QED BY <2>1, <2>3 DEF PlaceInv
<1>10. ASSUME NEW w \in Workers, NEW to \in {"inner", "parked", "exited"}, Goto(w, to),
              wpc[w] \in {"look", "inner", "parked"}
       PROVE  PlaceInv'
  <2>1. Shape' /\ JobsTaken' /\ TakenInOrder' /\ UNCHANGED <<line, cfg, started, pc>>
    BY <1>0, <1>10 DEF Goto, callerVars, Shape, JobsTaken, TakenInOrder
  <2>2. Standing' /\ OnePlace'
    BY <2>1 DEF PlaceInv, Standing, OnePlace, Target, QueueSize, Priority, MaxQueue
  <2> QED BY <2>1, <2>2 DEF PlaceInv
<1>11. ASSUME NEW w \in Workers, Look(w) PROVE PlaceInv'
  BY <1>9, <1>10, <1>11, QueuesTwo DEF Look
<1>12. ASSUME NEW w \in Workers, Select(w) PROVE PlaceInv'
  BY <1>9, <1>10, <1>12 DEF Select, Watched
<1>13. ASSUME NEW w \in Workers, Quit(w) PROVE PlaceInv'
  BY <1>10, <1>13 DEF Quit
<1>14. ASSUME NEW w \in Workers, Finish(w) \/ Deliver(w) PROVE PlaceInv'
  <2>1. Shape' /\ JobsTaken' /\ TakenInOrder' /\ UNCHANGED <<line, cfg, started, pc>>
    <3>1. CASE Finish(w)
      BY <1>0, <3>1 DEF Finish, callerVars, Shape, JobsTaken, TakenInOrder
    <3>2. CASE Deliver(w)
      BY <1>0, <3>2, BulkheadAssumption DEF Deliver, callerVars, Shape, JobsTaken, TakenInOrder
    <3> QED BY <1>14, <3>1, <3>2
  <2>2. Standing' /\ OnePlace'
    BY <2>1 DEF PlaceInv, Standing, OnePlace, Target, QueueSize, Priority, MaxQueue
  <2> QED BY <2>1, <2>2 DEF PlaceInv
<1>15. CASE Close \/ UNCHANGED vars
  <2>1. /\ UNCHANGED <<line, cfg, started, pc, wpc, job, inFlight, denied, outcome, delivered, overtaken>>
        /\ closed' \in BOOLEAN
    BY <1>0, <1>15 DEF Close, vars, workerVars, callerVars, Shape
  <2>2. Shape' /\ JobsTaken' /\ TakenInOrder'
    BY <1>0, <2>1 DEF Shape, JobsTaken, TakenInOrder
  <2>3. Standing' /\ OnePlace'
    BY <2>1 DEF PlaceInv, Standing, OnePlace, Target, QueueSize, Priority, MaxQueue
  <2> QED BY <2>2, <2>3 DEF PlaceInv
<1> QED
  BY <1>2, <1>3, <1>4, <1>5, <1>6, <1>7, <1>8, <1>11, <1>12, <1>13, <1>14, <1>15
     DEF Next, Caller, Worker, Terminating

\* Where a request stands, and who runs it.
THEOREM PlaceInvariant == Spec => []PlaceInv
<1>1. Init => PlaceInv
  BY PlaceInit
<1>2. PlaceInv /\ [Next]_vars => PlaceInv'
  BY PlaceStep
<1> QED BY <1>1, <1>2, PTL DEF Spec

-----------------------------------------------------------------------------
(* The workers. *)

\* No step puts a worker to sleep, or a request in a channel, beside the other.
LEMMA NoIdleStep ==
  PlaceInv /\ NoIdleWhileQueued /\ [Next]_vars => NoIdleWhileQueued'
<1> SUFFICES ASSUME PlaceInv, NoIdleWhileQueued, [Next]_vars,
                    ~closed', NEW v \in Workers, wpc'[v] = "parked", NEW p \in Queues
             PROVE  line'[p] = <<>>
  BY DEF NoIdleWhileQueued
<1>0. Shape /\ \A r \in Reqs : Target(r) \in Queues
  BY QueuesTwo DEF PlaceInv
<1>1. ~closed
  BY <1>0 DEF Shape, vars, Next, Caller, Worker, Terminating, Call, Enqueue, FailFast, HandOver,
         SeeDequeued, QueueTimeout, CtxDone, Receive, Look, Select, Quit, Finish, Deliver, Close,
         Take, Goto
<1>2. (\E w \in Workers : wpc[w] = "parked") => \A q \in Queues : line[q] = <<>>
  BY <1>1 DEF NoIdleWhileQueued
<1>3. ASSUME UNCHANGED <<line, wpc>> PROVE line'[p] = <<>>
  BY <1>2, <1>3
<1>4. ASSUME NEW r \in Reqs, Call(r) \/ FailFast(r) \/ SeeDequeued(r) \/ Receive(r)
      PROVE  line'[p] = <<>>
  BY <1>3, <1>4 DEF Call, FailFast, SeeDequeued, Receive, workerVars
<1>5. ASSUME NEW r \in Reqs, Enqueue(r) PROVE line'[p] = <<>>
  <2>1. wpc[v] = "parked" /\ ParkedOn(Target(r)) = {}
    BY <1>5 DEF Enqueue, workerVars
  <2> QED BY <1>0, <1>1, <2>1 DEF ParkedOn, Watched
<1>6. ASSUME NEW r \in Reqs, QueueTimeout(r) \/ CtxDone(r) PROVE line'[p] = <<>>
  <2>1. LeaveLine(r) /\ wpc' = wpc
    BY <1>6 DEF QueueTimeout, CtxDone, workerVars
  <2>2. \A q \in Queues : line[q] = <<>> /\ Len(line[q]) = 0
    BY <1>2, <2>1
  <2>3. UNCHANGED line
    BY <1>0, <2>1, <2>2 DEF LeaveLine
  <2> QED BY <2>2, <2>3
<1>7. ASSUME NEW r \in Reqs, NEW w \in Workers, HandOver(r, w) PROVE line'[p] = <<>>
  <2>1. UNCHANGED line /\ wpc[w] = "parked"
    BY <1>7 DEF HandOver, ParkedOn
  <2> QED BY <1>2, <2>1
<1>8. ASSUME NEW w \in Workers, NEW q \in Queues, Take(w, q) PROVE line'[p] = <<>>
  <2>1. line[q] # <<>> /\ wpc' = [wpc EXCEPT ![w] = "run"]
    BY <1>8 DEF Take, Start
  <2>2. wpc[v] = "parked"
    BY <1>0, <2>1 DEF Shape
  <2> QED BY <1>2, <2>1, <2>2
<1>9. ASSUME NEW w \in Workers, NEW to \in {"inner", "exited"}, Goto(w, to) PROVE line'[p] = <<>>
  <2>1. UNCHANGED line /\ wpc' = [wpc EXCEPT ![w] = to]
    BY <1>9 DEF Goto
  <2>2. wpc[v] = "parked"
    BY <1>0, <2>1 DEF Shape
  <2> QED BY <1>2, <2>1, <2>2
<1>10. ASSUME NEW w \in Workers, Finish(w) \/ Deliver(w) PROVE line'[p] = <<>>
  <2>1. UNCHANGED line /\ \E to \in {"deliver", "look"} : wpc' = [wpc EXCEPT ![w] = to]
    BY <1>10 DEF Finish, Deliver
  <2>2. wpc[v] = "parked"
    BY <1>0, <2>1 DEF Shape
  <2> QED BY <1>2, <2>1, <2>2
<1>11. ASSUME NEW w \in Workers, Look(w) \/ Quit(w) PROVE line'[p] = <<>>
  BY <1>8, <1>9, <1>11, QueuesTwo DEF Look, Quit
<1>12. ASSUME NEW w \in Workers, Select(w) PROVE line'[p] = <<>>
  <2>1. CASE \E q \in Queues : Take(w, q)
    BY <1>8, <2>1
  <2>2. CASE (\A q \in Queues : line[q] = <<>>) /\ Goto(w, "parked")
    BY <2>2 DEF Goto
  <2> QED BY <1>12, <2>1, <2>2 DEF Select, Watched
<1> QED
  BY <1>3, <1>4, <1>5, <1>6, <1>7, <1>10, <1>11, <1>12
     DEF Next, Caller, Worker, Terminating, Close, workerVars, vars

\* No wake-up is lost: a parked worker and a request in a channel never coexist.
THEOREM NoLostWakeup == Spec => []NoIdleWhileQueued
<1>1. Init => NoIdleWhileQueued
  BY DEF Init, NoIdleWhileQueued
<1>2. PlaceInv /\ NoIdleWhileQueued /\ [Next]_vars => NoIdleWhileQueued'
  BY NoIdleStep
<1> QED BY <1>1, <1>2, PlaceInvariant, PTL DEF Spec

\* A subset of the workers is finite; how it changes with one worker.
LEMMA WorkersFinite ==
  ASSUME NEW S \in SUBSET Workers
  PROVE  /\ IsFiniteSet(S)
         /\ Cardinality(S) \in Nat /\ Cardinality(Workers) \in Nat
         /\ Cardinality(S) <= Cardinality(Workers)
         /\ \A w \in S : Cardinality(S \ {w}) = Cardinality(S) - 1
         /\ \A w \in Workers \ S : Cardinality(S \cup {w}) = Cardinality(S) + 1
<1>1. IsFiniteSet(Workers)
  BY BulkheadAssumption
<1>2. IsFiniteSet(S) /\ Cardinality(S) <= Cardinality(Workers)
  BY <1>1, FS_Subset
<1>3. Cardinality(S) \in Nat /\ Cardinality(Workers) \in Nat
  BY <1>1, <1>2, FS_CardinalityType
<1>4. \A w \in S : Cardinality(S \ {w}) = Cardinality(S) - 1
  BY <1>2, FS_RemoveElement
<1>5. \A w \in Workers \ S : Cardinality(S \cup {w}) = Cardinality(S) + 1
  BY <1>2, FS_AddElement
<1> QED BY <1>2, <1>3, <1>4, <1>5

\* inFlight counts the workers that are in next.
LEMMA InFlightStep == PlaceInv /\ InFlightExact /\ [Next]_vars => InFlightExact'
<1> SUFFICES ASSUME PlaceInv, inFlight = Cardinality(Busy), [Next]_vars
             PROVE  inFlight' = Cardinality(Busy')
  BY DEF InFlightExact, Busy
<1>0. DOMAIN wpc = Workers /\ Busy \in SUBSET Workers
  BY DEF PlaceInv, Shape, Busy
<1>1. ASSUME UNCHANGED <<inFlight, wpc>> PROVE inFlight' = Cardinality(Busy')
  BY <1>1 DEF Busy
<1>2. ASSUME NEW w \in Workers, NEW r, Start(w, r), wpc[w] # "run"
      PROVE  inFlight' = Cardinality(Busy')
  <2>1. inFlight' = inFlight + 1 /\ Busy' = Busy \cup {w} /\ w \notin Busy
    BY <1>0, <1>2 DEF Start, Busy
  <2> QED BY <1>0, <2>1, WorkersFinite
<1>3. ASSUME NEW w \in Workers, Finish(w) PROVE inFlight' = Cardinality(Busy')
  <2>1. inFlight' = inFlight - 1 /\ Busy' = Busy \ {w} /\ w \in Busy
    BY <1>0, <1>3 DEF Finish, Busy
  <2> QED BY <1>0, <2>1, WorkersFinite
<1>4. ASSUME NEW w \in Workers, NEW to \in {"look", "inner", "parked", "exited"},
             wpc[w] # "run", wpc' = [wpc EXCEPT ![w] = to], UNCHANGED inFlight
      PROVE  inFlight' = Cardinality(Busy')
  BY <1>0, <1>4 DEF Busy
<1>5. ASSUME NEW w \in Workers, Worker(w) PROVE inFlight' = Cardinality(Busy')
  <2>1. CASE Look(w)
    BY <1>2, <1>4, <2>1 DEF Look, Take, Goto
  <2>2. CASE Select(w)
    BY <1>2, <1>4, <2>2 DEF Select, Take, Goto
  <2>3. CASE Quit(w)
    BY <1>4, <2>3 DEF Quit, Goto
  <2>4. CASE Deliver(w)
    BY <1>4, <2>4 DEF Deliver
  <2> QED BY <1>3, <1>5, <2>1, <2>2, <2>3, <2>4 DEF Worker
<1>6. ASSUME NEW r \in Reqs, NEW w \in Workers, HandOver(r, w)
      PROVE  inFlight' = Cardinality(Busy')
  BY <1>2, <1>6 DEF HandOver, ParkedOn
<1> QED
  BY <1>1, <1>5, <1>6
     DEF Next, Caller, Call, Enqueue, FailFast, SeeDequeued, QueueTimeout, CtxDone, Receive,
         Terminating, Close, workerVars, vars

\* InFlight() is exact, whichever callers gave up and however next ended.
THEOREM InFlightCorrect == Spec => []InFlightExact
<1>1. Init => InFlightExact
  <2> SUFFICES ASSUME Init PROVE inFlight = Cardinality(Busy)
    BY DEF InFlightExact, Busy
  <2>1. Busy = {} /\ inFlight = 0
    BY DEF Init, Busy
  <2> QED BY <2>1, FS_EmptySet
<1>2. PlaceInv /\ InFlightExact /\ [Next]_vars => InFlightExact'
  BY InFlightStep
<1> QED BY <1>1, <1>2, PlaceInvariant, PTL DEF Spec

-----------------------------------------------------------------------------
(* The callers. *)

LEMMA ReqsFinite ==
  ASSUME NEW S \in SUBSET Reqs
  PROVE  /\ IsFiniteSet(S)
         /\ Cardinality(S) \in Nat /\ Cardinality(Reqs) \in Nat
         /\ Cardinality(S) <= Cardinality(Reqs)
         /\ \A r \in S : Cardinality(S \ {r}) = Cardinality(S) - 1
<1>1. IsFiniteSet(Reqs)
  BY BulkheadAssumption
<1>2. IsFiniteSet(S) /\ Cardinality(S) <= Cardinality(Reqs)
  BY <1>1, FS_Subset
<1>3. Cardinality(S) \in Nat /\ Cardinality(Reqs) \in Nat
  BY <1>1, <1>2, FS_CardinalityType
<1>4. \A r \in S : Cardinality(S \ {r}) = Cardinality(S) - 1
  BY <1>2, FS_RemoveElement
<1> QED BY <1>2, <1>3, <1>4

LEMMA DeniedStep == PlaceInv /\ DeniedOnce /\ [Next]_vars => DeniedOnce'
<1> SUFFICES ASSUME PlaceInv, DeniedOnce, [Next]_vars PROVE DeniedOnce'
  OBVIOUS
<1>0. /\ DOMAIN pc = Reqs /\ denied \in Nat
      /\ Unanswered \in SUBSET Reqs
      /\ Cardinality(Unanswered) \in Nat /\ Cardinality(Reqs) \in Nat
  BY ReqsFinite DEF PlaceInv, Shape, Unanswered
<1>1. ASSUME UNCHANGED <<pc, denied>> PROVE DeniedOnce'
  BY <1>1 DEF DeniedOnce, Unanswered
<1>2. ASSUME NEW r \in Reqs, NEW to \in {"send", "queued", "result"},
             Move(r, to), pc[r] # "returned"
      PROVE  DeniedOnce'
  <2>1. Unanswered' = Unanswered /\ denied' = denied
    BY <1>0, <1>2 DEF Move, Unanswered
  <2> QED BY <2>1 DEF DeniedOnce
<1>3. ASSUME NEW r \in Reqs, NEW d \in {0, 1}, NEW o, Answer(r, o, d), pc[r] # "returned"
      PROVE  DeniedOnce'
  <2>1. Unanswered' = Unanswered \ {r} /\ r \in Unanswered /\ denied' = denied + d
    BY <1>0, <1>3 DEF Answer, Unanswered
  <2>2. Cardinality(Unanswered') = Cardinality(Unanswered) - 1
    BY <1>0, <2>1, ReqsFinite
  <2> QED BY <1>0, <2>1, <2>2 DEF DeniedOnce
<1>4. ASSUME NEW r \in Reqs, Call(r) PROVE DeniedOnce'
  BY <1>2, <1>3, <1>4 DEF Call
<1>5. ASSUME NEW r \in Reqs, Enqueue(r) \/ SeeDequeued(r) \/ \E w \in Workers : HandOver(r, w)
      PROVE  DeniedOnce'
  BY <1>2, <1>5 DEF Enqueue, SeeDequeued, HandOver, Sent
<1>6. ASSUME NEW r \in Reqs, FailFast(r) \/ QueueTimeout(r) \/ CtxDone(r) \/ Receive(r)
      PROVE  DeniedOnce'
  BY <1>3, <1>6 DEF FailFast, QueueTimeout, CtxDone, Receive
<1> QED
  BY <1>1, <1>4, <1>5, <1>6
     DEF Next, Caller, Worker, Look, Select, Quit, Finish, Deliver, Take, Goto, Terminating, Close,
         callerVars, vars

\* Every variable has its type; the counters stay within the workers and the calls.
THEOREM TypeCorrect == Spec => []TypeOK
<1>1. Init => DeniedOnce
  <2> SUFFICES ASSUME Init PROVE DeniedOnce
    OBVIOUS
  <2>1. Unanswered = Reqs /\ denied = 0 /\ Cardinality(Reqs) \in Nat
    BY ReqsFinite DEF Init, Unanswered
  <2> QED BY <2>1 DEF DeniedOnce
<1>2. PlaceInv /\ DeniedOnce /\ [Next]_vars => DeniedOnce'
  BY DeniedStep
<1>3. PlaceInv /\ InFlightExact /\ DeniedOnce => TypeOK
  <2> SUFFICES ASSUME PlaceInv, InFlightExact, DeniedOnce PROVE TypeOK
    OBVIOUS
  <2>1. inFlight \in 0 .. Cardinality(Workers)
    <3>1. inFlight = Cardinality(Busy) /\ Busy \in SUBSET Workers
      BY DEF InFlightExact, Busy
    <3> QED BY <3>1, WorkersFinite
  <2>2. denied \in 0 .. Cardinality(Reqs)
    <3>1. Cardinality(Unanswered) \in Nat /\ Cardinality(Reqs) \in Nat
      BY ReqsFinite DEF Unanswered
    <3> QED BY <3>1 DEF PlaceInv, Shape, DeniedOnce
  <2> QED BY <2>1, <2>2 DEF PlaceInv, Shape, TypeOK
<1> QED BY <1>1, <1>2, <1>3, PlaceInvariant, InFlightCorrect, PTL DEF Spec

\* A fail-fast bulkhead never lets a call wait for a worker.
THEOREM FailFastCorrect == Spec => []FailFastNeverQueues
<1>1. PlaceInv => FailFastNeverQueues
  BY DEF PlaceInv, TakenInOrder, FailFastNeverQueues
<1> QED BY <1>1, PlaceInvariant, PTL

-----------------------------------------------------------------------------
(* Priority. *)

\* A request in the high channel has priority, and priorities are in use.
LEMMA HighIsPriority ==
  ASSUME PlaceInv, NEW r \in Reqs, Contains(line["high"], r)
  PROVE  Priority /\ Target(r) = "high" /\ pc[r] \notin {"idle", "send"} /\ line["high"] # <<>>
<1>1. PICK i \in 1 .. Len(line["high"]) : line["high"][i] = r
  BY DEF Contains
<1>2. Target(r) = "high" /\ pc[r] \notin {"idle", "send"}
  BY <1>1, QueuesTwo DEF PlaceInv, Standing
<1>3. Priority
  BY <1>2 DEF Target
<1>4. line["high"] # <<>>
  BY <1>1
<1> QED BY <1>2, <1>3, <1>4

\* Requests stand in the high channel after a step that stood there before it, or
\* that have been sent by it.
LEMMA HighKept ==
  ASSUME PlaceInv, [Next]_vars, NEW r \in Reqs, Contains(line["high"], r)'
  PROVE  Contains(line["high"], r) \/ (pc[r] = "send" /\ Enqueue(r))
<1>0. line \in [Queues -> Seq(Reqs)] /\ \A q \in Reqs : Target(q) \in Queues
  BY QueuesTwo DEF PlaceInv, Shape
<1>1. ASSUME UNCHANGED line PROVE Contains(line["high"], r)
  BY <1>1 DEF Contains
<1>2. ASSUME NEW q \in Queues, NEW t \in Seq(Reqs), Thinner(t, line[q]),
             line' = [line EXCEPT ![q] = t]
      PROVE  Contains(line["high"], r)
  <2>1. PICK i \in 1 .. Len(line'["high"]) : line'["high"][i] = r
    BY DEF Contains
  <2>2. CASE q = "high"
    BY <1>0, <1>2, <2>1, <2>2 DEF Thinner, Contains
  <2>3. CASE q # "high"
    BY <1>0, <1>2, <2>1, <2>3, QueuesTwo DEF Contains
  <2> QED BY <2>2, <2>3
<1>3. ASSUME NEW w \in Workers, NEW q \in Queues, Take(w, q) PROVE Contains(line["high"], r)
  <2>1. line[q] \in Seq(Reqs) /\ line[q] # <<>> /\ line' = [line EXCEPT ![q] = Tail(line[q])]
    BY <1>0, <1>3 DEF Take
  <2> QED BY <1>2, <2>1, TailThinner
<1>4. ASSUME NEW p \in Reqs, QueueTimeout(p) \/ CtxDone(p) PROVE Contains(line["high"], r)
  <2>1. LeaveLine(p)
    BY <1>4 DEF QueueTimeout, CtxDone
  <2>2. CASE UNCHANGED line
    BY <1>1, <2>2
  <2>3. CASE \E i \in 1 .. Len(line[Target(p)]) :
               line' = [line EXCEPT ![Target(p)] = RemoveAt(@, i)]
    <3>1. PICK i \in 1 .. Len(line[Target(p)]) :
            line' = [line EXCEPT ![Target(p)] = RemoveAt(line[Target(p)], i)]
      BY <2>3
    <3>2. line[Target(p)] \in Seq(Reqs) /\ Target(p) \in Queues
      BY <1>0
    <3> QED BY <1>2, <3>1, <3>2, RemoveAtThinner
  <2> QED BY <2>1, <2>2, <2>3 DEF LeaveLine
<1>5. ASSUME NEW p \in Reqs, Enqueue(p)
      PROVE  Contains(line["high"], r) \/ (pc[r] = "send" /\ Enqueue(r))
  <2>1. /\ line' = [line EXCEPT ![Target(p)] = Append(line[Target(p)], p)]
        /\ pc[p] = "send" /\ line[Target(p)] \in Seq(Reqs)
    BY <1>0, <1>5 DEF Enqueue
  <2>2. PICK i \in 1 .. Len(line'["high"]) : line'["high"][i] = r
    BY DEF Contains
  <2>3. CASE Target(p) = "high"
    <3>1. line'["high"] = Append(line["high"], p) /\ line["high"] \in Seq(Reqs)
      BY <1>0, <2>1, <2>3
    <3>2. r = p \/ (i \in 1 .. Len(line["high"]) /\ line["high"][i] = r)
      BY <2>2, <3>1, AppendFacts
    <3> QED BY <1>5, <2>1, <3>2 DEF Contains
  <2>4. CASE Target(p) # "high"
    BY <1>0, <2>1, <2>2, <2>4, QueuesTwo DEF Contains
  <2> QED BY <2>3, <2>4
<1> QED
  BY <1>1, <1>3, <1>4, <1>5, QueuesTwo
     DEF Next, Caller, Worker, Call, FailFast, HandOver, SeeDequeued, Receive, Look, Select,
         Watched, Quit, Finish, Deliver, Goto, Terminating, Close, vars

LEMMA OvertakingStep ==
  PlaceInv /\ NoIdleWhileQueued /\ OvertakingInv /\ [Next]_vars => OvertakingInv'
<1> SUFFICES ASSUME PlaceInv, NoIdleWhileQueued, OvertakingInv, [Next]_vars,
                    NEW r \in Reqs, NEW v \in Workers
             PROVE  /\ pc'[r] \in {"idle", "send"} => overtaken'[r][v] = 0
                    /\ overtaken'[r][v] <= 1
                    /\ Contains(line["high"], r)' /\ wpc'[v] = "inner" => overtaken'[r][v] = 0
  BY DEF OvertakingInv
<1> DEFINE Goal == /\ pc'[r] \in {"idle", "send"} => overtaken'[r][v] = 0
                   /\ overtaken'[r][v] <= 1
                   /\ Contains(line["high"], r)' /\ wpc'[v] = "inner" => overtaken'[r][v] = 0
<1>0. /\ Shape
      /\ overtaken[r][v] \in Nat /\ overtaken[r][v] <= 1
      /\ pc[r] \in {"idle", "send"} => overtaken[r][v] = 0
      /\ Contains(line["high"], r) /\ wpc[v] = "inner" => overtaken[r][v] = 0
  BY DEF PlaceInv, Shape, OvertakingInv
<1>1. pc'[r] \in {"idle", "send"} => pc[r] \in {"idle", "send"}
  BY <1>0 DEF Shape, vars, Next, Caller, Worker, Call, Enqueue, FailFast, HandOver, SeeDequeued,
         QueueTimeout, CtxDone, Receive, Look, Select, Quit, Finish, Deliver, Take, Goto,
         Answer, Move, Sent, callerVars, Close, Terminating
<1>2. Contains(line["high"], r)' => Contains(line["high"], r) \/ pc[r] = "send"
  BY HighKept
\* Steps with which nobody overtakes, and no worker comes between its selects.
<1>3. ASSUME overtaken' = overtaken, wpc' = wpc \/ \E w \in Workers : \E to \in
               {"look", "parked", "deliver", "exited"} : wpc' = [wpc EXCEPT ![w] = to]
      PROVE  Goal
  <2>1. wpc'[v] = "inner" => wpc[v] = "inner"
    BY <1>0, <1>3 DEF Shape
  <2> QED BY <1>0, <1>1, <1>2, <1>3, <2>1
\* A worker goes on to the inner select when the high channel is empty.
<1>4. ASSUME NEW w \in Workers, Look(w), Goto(w, "inner"), line["high"] = <<>> PROVE Goal
  <2>1. overtaken' = overtaken /\ line' = line
    BY <1>4 DEF Goto
  <2>2. ~Contains(line["high"], r)'
    BY <1>4, <2>1 DEF Contains
  <2> QED BY <1>0, <1>1, <2>1, <2>2
\* A worker starts x: it overtakes a priority request only from between its selects.
<1>5. ASSUME NEW w \in Workers, NEW x \in Reqs, Start(w, x),
             Target(x) = "normal" /\ Contains(line["high"], r) => wpc[w] = "inner"
      PROVE  Goal
  <2> DEFINE passes == Target(x) = "normal" /\ Contains(line["high"], r) /\ v = w
  <2>1. /\ wpc' = [wpc EXCEPT ![w] = "run"]
        /\ overtaken'[r][v] = IF passes THEN overtaken[r][v] + 1 ELSE overtaken[r][v]
    BY <1>0, <1>5 DEF Start, Shape
  <2>2. wpc'[v] = "inner" => wpc[v] = "inner" /\ v # w
    BY <1>0, <2>1 DEF Shape
  <2>3. CASE passes
    <3>1. overtaken[r][v] = 0 /\ overtaken'[r][v] = 1
      BY <1>0, <1>5, <2>1, <2>3
    <3>2. pc[r] \notin {"idle", "send"}
      BY <2>3, HighIsPriority
    <3> QED BY <1>1, <2>2, <2>3, <3>1, <3>2
  <2>4. CASE ~passes
    <3>1. overtaken'[r][v] = overtaken[r][v]
      BY <2>1, <2>4
    <3> QED BY <1>0, <1>1, <1>2, <2>2, <3>1
  <2> QED BY <2>3, <2>4
<1>6. ASSUME NEW w \in Workers, NEW q \in Queues, Take(w, q),
             q = "high" \/ wpc[w] = "inner" \/ ~Priority
      PROVE  Goal
  <2> DEFINE x == Head(line[q])
  <2>1. x \in Reqs /\ Target(x) = q /\ Start(w, x)
    BY <1>6, TakeThins
  <2>2. Target(x) = "normal" /\ Contains(line["high"], r) => wpc[w] = "inner"
    BY <1>6, <2>1, HighIsPriority
  <2> HIDE DEF x
  <2> QED BY <1>5, <2>1, <2>2
<1>7. ASSUME NEW p \in Reqs, NEW w \in Workers, HandOver(p, w) PROVE Goal
  <2>1. wpc[w] = "parked" /\ ~closed /\ Start(w, p)
    BY <1>7 DEF HandOver, ParkedOn
  <2>2. line["high"] = <<>>
    BY <2>1, QueuesTwo DEF NoIdleWhileQueued
  <2>3. ~Contains(line["high"], r)
    BY <2>2 DEF Contains
  <2> QED BY <1>5, <2>1, <2>3
<1>8. ASSUME NEW w \in Workers, Look(w) PROVE Goal
  BY <1>4, <1>6, <1>8, QueuesTwo DEF Look
<1>9. ASSUME NEW w \in Workers, Select(w) PROVE Goal
  <2>1. CASE \E q \in Queues : Take(w, q)
    BY <1>6, <1>9, <2>1 DEF Select
  <2>2. CASE Goto(w, "parked")
    BY <1>3, <2>2 DEF Goto
  <2> QED BY <1>9, <2>1, <2>2 DEF Select, Watched
<1>10. ASSUME NEW w \in Workers, Quit(w) \/ Finish(w) \/ Deliver(w) PROVE Goal
  BY <1>3, <1>10 DEF Quit, Finish, Deliver, Goto
<1>11. ASSUME NEW p \in Reqs,
              Call(p) \/ Enqueue(p) \/ FailFast(p) \/ SeeDequeued(p) \/ QueueTimeout(p)
                \/ CtxDone(p) \/ Receive(p)
       PROVE  Goal
  BY <1>3, <1>11 DEF Call, Enqueue, FailFast, SeeDequeued, QueueTimeout, CtxDone, Receive, workerVars
<1>12. CASE Close \/ UNCHANGED vars
  BY <1>3, <1>12 DEF Close, vars, workerVars
<1> QED
  BY <1>7, <1>8, <1>9, <1>10, <1>11, <1>12 DEF Next, Caller, Worker, Terminating

\* A worker overtakes a waiting priority request with at most one normal request.
THEOREM OvertakingCorrect == Spec => []BoundedOvertaking
<1>1. Init => OvertakingInv
  <2> SUFFICES ASSUME Init, NEW r \in Reqs, NEW w \in Workers PROVE overtaken[r][w] = 0
    BY DEF OvertakingInv
  <2> QED BY DEF Init
<1>2. PlaceInv /\ NoIdleWhileQueued /\ OvertakingInv /\ [Next]_vars => OvertakingInv'
  BY OvertakingStep
<1>3. OvertakingInv => BoundedOvertaking
  BY DEF OvertakingInv, BoundedOvertaking
<1> QED BY <1>1, <1>2, <1>3, PlaceInvariant, NoLostWakeup, PTL DEF Spec

-----------------------------------------------------------------------------
(* Requests that were given up. *)

\* The image of a finite set is no larger.
LEMMA ImageBounded ==
  ASSUME NEW f, NEW S, IsFiniteSet(S)
  PROVE  LET T == {f[x] : x \in S}
         IN  IsFiniteSet(T) /\ Cardinality(T) \in Nat /\ Cardinality(T) <= Cardinality(S)
<1> DEFINE T == {f[x] : x \in S}
           g == [x \in S |-> f[x]]
<1>1. g \in [S -> T] /\ \A y \in T : \E x \in S : g[x] = y
  OBVIOUS
<1>2. g \in Surjection(S, T)
  BY <1>1 DEF Surjection
<1>3. IsFiniteSet(T) /\ Cardinality(T) <= Cardinality(S)
  BY <1>2, FS_Surjection
<1>4. Cardinality(T) \in Nat
  BY <1>3, FS_CardinalityType
<1> QED BY <1>3, <1>4

\* What the buffer of channel q holds is at most QueueSize requests.
Buffered(q) == {line[q][i] : i \in {j \in 1 .. QueueSize : j <= Len(line[q])}}

LEMMA BufferedBounded ==
  ASSUME PlaceInv, NEW q \in Queues
  PROVE  IsFiniteSet(Buffered(q)) /\ Cardinality(Buffered(q)) \in 0 .. QueueSize
<1> DEFINE I == {j \in 1 .. QueueSize : j <= Len(line[q])}
<1>1. QueueSize \in Nat
  BY QueueSizeNat DEF PlaceInv
<1>2. IsFiniteSet(1 .. QueueSize) /\ Cardinality(1 .. QueueSize) = QueueSize
  BY <1>1, FS_Interval
<1>3. IsFiniteSet(I) /\ Cardinality(I) <= QueueSize /\ Cardinality(I) \in Nat
  BY <1>2, FS_Subset, FS_CardinalityType
<1> HIDE DEF I
<1>4. /\ IsFiniteSet(Buffered(q)) /\ Cardinality(Buffered(q)) \in Nat
      /\ Cardinality(Buffered(q)) <= Cardinality(I)
  <2> DEFINE f == line[q]
  <2>1. Buffered(q) = {f[i] : i \in I}
    BY DEF Buffered, I
  <2> HIDE DEF f
  <2>2. IsFiniteSet({f[i] : i \in I}) /\ Cardinality({f[i] : i \in I}) \in Nat
        /\ Cardinality({f[i] : i \in I}) <= Cardinality(I)
    BY <1>3, ImageBounded
  <2> QED BY <2>1, <2>2
<1> QED BY <1>1, <1>3, <1>4

\* A request in a channel that nobody waits for stands in the buffer: behind it each
\* caller waits.
LEMMA AbandonedWhere ==
  ASSUME PlaceInv, NEW q \in Queues
  PROVE  Abandoned(q) \subseteq Buffered(q)
<1> SUFFICES ASSUME NEW r \in Abandoned(q) PROVE r \in Buffered(q)
  OBVIOUS
<1>1. PICK i \in 1 .. Len(line[q]) : line[q][i] = r
  BY DEF Abandoned, Contains
<1>2. pc[r] = "returned" /\ QueueSize \in Nat /\ line[q] \in Seq(Reqs)
  BY QueueSizeNat DEF Abandoned, PlaceInv, Shape
<1>3. ~(i > QueueSize)
  BY <1>1, <1>2 DEF PlaceInv, Standing
<1>4. i \in {j \in 1 .. QueueSize : j <= Len(line[q])}
  BY <1>1, <1>2, <1>3
<1> QED BY <1>1, <1>4 DEF Buffered

\* Requests whose callers gave up never pile up beyond the buffer of their channel.
THEOREM AbandonedCorrect == Spec => []AbandonedBounded
<1>1. PlaceInv => AbandonedBounded
  <2> SUFFICES ASSUME PlaceInv, NEW q \in Queues PROVE Cardinality(Abandoned(q)) <= QueueSize
    BY DEF AbandonedBounded
  <2>1. IsFiniteSet(Buffered(q)) /\ Cardinality(Buffered(q)) \in 0 .. QueueSize
    BY BufferedBounded
  <2>2. IsFiniteSet(Abandoned(q)) /\ Cardinality(Abandoned(q)) <= Cardinality(Buffered(q))
    BY <2>1, AbandonedWhere, FS_Subset
  <2>3. Cardinality(Abandoned(q)) \in Nat
    BY <2>2, FS_CardinalityType
  <2> QED BY <2>1, <2>2, <2>3, QueueSizeNat DEF PlaceInv
<1> QED BY <1>1, PlaceInvariant, PTL

-----------------------------------------------------------------------------
(* Refinement of BulkheadSpec. *)

\* A request is held by one worker; its result is there when none holds it any
\* more; and its caller has been told nothing until Execute returns.
ServeInv ==
  /\ PlaceInv
  /\ \A v, w \in Workers : job[v] = job[w] /\ job[w] # NoReq => v = w
  /\ \A r \in Reqs :
       /\ delivered[r] => started[r] /\ \A w \in Workers : job[w] # r
       /\ outcome[r] = "none" <=> pc[r] # "returned"

\* A step of a caller moves no worker; of the results it may only take its own.
LEMMA CallerServes ==
  ASSUME ServeInv, PlaceInv', UNCHANGED <<job, started>>, NEW r \in Reqs,
         \/ UNCHANGED <<pc, outcome>>
         \/ \E to \in {"send", "queued", "result"} : Move(r, to) /\ pc[r] # "returned"
         \/ \E v \in {"result", "full", "ctx", "closed"}, d \in {0, 1} : Answer(r, v, d),
         delivered' = delivered \/ delivered' = [delivered EXCEPT ![r] = FALSE]
  PROVE  ServeInv'
<1>1. Shape
  BY DEF ServeInv, PlaceInv
<1>2. ASSUME NEW p \in Reqs PROVE outcome'[p] = "none" <=> pc'[p] # "returned"
  BY <1>1 DEF ServeInv, Shape, Move, Answer
<1>3. ASSUME NEW p \in Reqs, delivered'[p] PROVE started'[p] /\ \A w \in Workers : job'[w] # p
  <2>1. delivered[p]
    BY <1>1, <1>3 DEF Shape
  <2> QED BY <2>1 DEF ServeInv
<1> QED BY <1>2, <1>3 DEF ServeInv

\* A worker that starts a request is the only one to hold it.
LEMMA StartServes ==
  ASSUME ServeInv, PlaceInv', NEW w \in Workers, NEW r \in Reqs, Start(w, r), ~started[r],
         UNCHANGED <<delivered, outcome>>,
         \/ UNCHANGED pc
         \/ \E to \in {"queued", "result"} : pc' = [pc EXCEPT ![r] = to] /\ pc[r] # "returned"
  PROVE  ServeInv'
<1>1. Shape /\ JobsTaken /\ NoReq \notin Reqs
  BY BulkheadAssumption DEF ServeInv, PlaceInv
<1>2. \A v \in Workers : job[v] # r
  BY <1>1 DEF JobsTaken
<1>3. job' = [job EXCEPT ![w] = r] /\ started' = [started EXCEPT ![r] = TRUE]
  BY DEF Start
<1>4. \A u, v \in Workers : job'[u] = job'[v] /\ job'[v] # NoReq => u = v
  BY <1>1, <1>2, <1>3 DEF ServeInv, Shape
<1>5. ASSUME NEW p \in Reqs, delivered'[p] PROVE started'[p] /\ \A v \in Workers : job'[v] # p
  <2>1. delivered[p] /\ started[p] /\ p # r /\ \A v \in Workers : job[v] # p
    BY <1>5 DEF ServeInv
  <2> QED BY <1>1, <1>3, <2>1 DEF Shape
<1>6. ASSUME NEW p \in Reqs PROVE outcome'[p] = "none" <=> pc'[p] # "returned"
  BY <1>1 DEF ServeInv, Shape
<1> QED BY <1>4, <1>5, <1>6 DEF ServeInv

LEMMA ServeStep == ServeInv /\ [Next]_vars => ServeInv'
<1> SUFFICES ASSUME ServeInv, [Next]_vars PROVE ServeInv'
  OBVIOUS
<1>0. PlaceInv' /\ PlaceInv /\ Shape /\ JobsTaken /\ NoReq \notin Reqs
  BY PlaceStep, BulkheadAssumption DEF ServeInv, PlaceInv
<1>1. ASSUME NEW r \in Reqs, Call(r) \/ Enqueue(r) \/ FailFast(r) \/ SeeDequeued(r)
      PROVE  ServeInv'
  <2>1. UNCHANGED <<job, started, delivered>>
    BY <1>1 DEF Call, Enqueue, FailFast, SeeDequeued, workerVars
  <2>2. \/ \E to \in {"send", "queued", "result"} : Move(r, to) /\ pc[r] # "returned"
        \/ \E v \in {"result", "full", "ctx", "closed"}, d \in {0, 1} : Answer(r, v, d)
    BY <1>1 DEF Call, Enqueue, FailFast, SeeDequeued, Sent
  <2> QED BY <1>0, <2>1, <2>2, CallerServes
<1>2. ASSUME NEW r \in Reqs, QueueTimeout(r) \/ CtxDone(r) \/ Receive(r) PROVE ServeInv'
  <2>1. UNCHANGED <<job, started>>
    BY <1>2 DEF QueueTimeout, CtxDone, Receive, workerVars
  <2>2. /\ \E v \in {"result", "full", "ctx", "closed"}, d \in {0, 1} : Answer(r, v, d)
        /\ delivered' = delivered \/ delivered' = [delivered EXCEPT ![r] = FALSE]
    BY <1>2 DEF QueueTimeout, CtxDone, Receive
  <2> QED BY <1>0, <2>1, <2>2, CallerServes
<1>3. ASSUME NEW r \in Reqs, NEW w \in Workers, HandOver(r, w) PROVE ServeInv'
  <2>1. ~started[r]
    BY <1>0, <1>3 DEF HandOver, PlaceInv, TakenInOrder
  <2>2. /\ Start(w, r) /\ UNCHANGED <<delivered, outcome>>
        /\ \E to \in {"queued", "result"} : pc' = [pc EXCEPT ![r] = to] /\ pc[r] # "returned"
    BY <1>3 DEF HandOver, Move, Sent
  <2> QED BY <1>0, <2>1, <2>2, StartServes
<1>4. ASSUME NEW w \in Workers, NEW q \in Queues, Take(w, q) PROVE ServeInv'
  <2>1. Head(line[q]) \in Reqs /\ Start(w, Head(line[q])) /\ ~started[Head(line[q])]
    BY <1>0, <1>4, TakeThins
  <2>2. UNCHANGED <<delivered, outcome, pc>>
    BY <1>4 DEF Take, callerVars
  <2> QED BY <1>0, <2>1, <2>2, StartServes
<1>5. ASSUME UNCHANGED <<job, started, delivered, pc, outcome>> PROVE ServeInv'
  BY <1>0, <1>5 DEF ServeInv
<1>6. ASSUME NEW w \in Workers, Finish(w) PROVE ServeInv'
  BY <1>5, <1>6 DEF Finish, callerVars
<1>7. ASSUME NEW w \in Workers, NEW to, Goto(w, to) PROVE ServeInv'
  BY <1>5, <1>7 DEF Goto, callerVars
<1>8. ASSUME NEW w \in Workers, Deliver(w) PROVE ServeInv'
  <2>1. job[w] \in Reqs /\ started[job[w]]
    BY <1>0, <1>8 DEF Deliver, Shape, JobsTaken
  <2>2. /\ job' = [job EXCEPT ![w] = NoReq] /\ delivered' = [delivered EXCEPT ![job[w]] = TRUE]
        /\ UNCHANGED <<started, pc, outcome>>
    BY <1>8 DEF Deliver, callerVars
  <2>3. \A u, v \in Workers : job'[u] = job'[v] /\ job'[v] # NoReq => u = v
    BY <1>0, <2>2 DEF ServeInv, Shape
  <2>4. ASSUME NEW p \in Reqs, delivered'[p] PROVE started'[p] /\ \A v \in Workers : job'[v] # p
    <3>1. CASE p = job[w]
      <4>1. \A v \in Workers \ {w} : job[v] # p
        BY <1>0, <2>1, <3>1 DEF ServeInv
      <4> QED BY <1>0, <2>1, <2>2, <3>1, <4>1 DEF Shape
    <3>2. CASE p # job[w]
      <4>1. delivered[p]
        BY <1>0, <2>2, <2>4, <3>2 DEF Shape
      <4> QED BY <1>0, <2>2, <4>1 DEF ServeInv, Shape
    <3> QED BY <3>1, <3>2
  <2> QED BY <1>0, <2>2, <2>3, <2>4 DEF ServeInv
<1>9. CASE Close \/ UNCHANGED vars
  BY <1>5, <1>9 DEF Close, workerVars, callerVars, vars
<1> QED
  BY <1>1, <1>2, <1>3, <1>4, <1>6, <1>7, <1>8, <1>9, QueuesTwo
     DEF Next, Caller, Worker, Look, Select, Quit, Terminating, Watched

\* Each request is held by one worker at most, and a caller that finds a result
\* finds that of a request which was run to its end.
THEOREM ServeInvariant == Spec => []ServeInv
<1>1. Init => ServeInv
  <2> SUFFICES ASSUME Init PROVE ServeInv
    OBVIOUS
  <2>1. PlaceInv
    BY PlaceInit
  <2> QED BY <2>1 DEF Init, ServeInv
<1>2. ServeInv /\ [Next]_vars => ServeInv'
  BY ServeStep
<1> QED BY <1>1, <1>2, PTL DEF Spec

InLine(r) == \E q \in Queues : Contains(line[q], r)
RunBy(w, r) == wpc[w] = "run" /\ job[w] = r

\* What a request is depends on the workers, on started and on the channels.
LEMMA WorkKept ==
  ASSUME NEW p \in Reqs, \A w \in Workers : RunBy(w, p)' <=> RunBy(w, p),
         started'[p] = started[p], InLine(p)' <=> InLine(p)
  PROVE  (Work(p))' = Work(p)
<1>1. (\E w \in Workers : RunBy(w, p)') <=> (\E w \in Workers : RunBy(w, p))
  OBVIOUS
<1> QED BY <1>1 DEF Work, RunBy, InLine

\* When the work of r alone changes, and how it is read off the state.
LEMMA WorkBecomes ==
  ASSUME NEW r \in Reqs, NEW a, (Work(r))' = a,
         \A p \in Reqs \ {r} : (Work(p))' = Work(p)
  PROVE  Abstract!Becomes(r, a)
BY DEF Abstract!Becomes

LEMMA WorkSame ==
  ASSUME UNCHANGED <<wpc, job, started, line>>
  PROVE  ([r \in Reqs |-> Work(r)])' = [r \in Reqs |-> Work(r)]
BY DEF Work

LEMMA WorkIs ==
  ASSUME ServeInv, NEW r \in Reqs
  PROVE  /\ InLine(r) => Work(r) = "waiting" /\ ~started[r]
         /\ ~started[r] /\ ~InLine(r) => Work(r) = "absent"
         /\ ~started[r] => Work(r) \in {"absent", "waiting"} /\ \A w \in Workers : ~RunBy(w, r)
         /\ \A w \in Workers : RunBy(w, r) => Work(r) = "running"
         /\ (\A w \in Workers : ~RunBy(w, r)) /\ started[r] => Work(r) = "done"
         /\ pc[r] \in {"idle", "send"} => Work(r) = "absent" /\ ~started[r] /\ ~InLine(r)
<1>1. JobsTaken /\ Standing /\ TakenInOrder /\ NoReq \notin Reqs
  BY BulkheadAssumption DEF ServeInv, PlaceInv
<1>2. InLine(r) => ~started[r] /\ pc[r] \notin {"idle", "send"}
  BY <1>1 DEF InLine, Contains, Standing
<1>3. ~started[r] => \A w \in Workers : ~RunBy(w, r)
  BY <1>1 DEF JobsTaken, RunBy
<1>4. pc[r] \in {"idle", "send"} => ~started[r] /\ ~InLine(r)
  BY <1>1, <1>2 DEF TakenInOrder
<1> QED BY <1>2, <1>3, <1>4 DEF Work, RunBy, InLine

\* What stands in a channel after each of its changes.
LEMMA AppendContains ==
  ASSUME NEW S, NEW s \in Seq(S), NEW e \in S, NEW x
  PROVE  Contains(Append(s, e), x) <=> Contains(s, x) \/ x = e
<1> DEFINE t == Append(s, e)
<1>1. /\ Len(t) = Len(s) + 1 /\ Len(s) \in Nat
      /\ \A i \in 1 .. Len(t) : t[i] = IF i <= Len(s) THEN s[i] ELSE e
  BY AppendFacts
<1> HIDE DEF t
<1>2. Len(t) \in 1 .. Len(t) /\ t[Len(t)] = e
  BY <1>1
<1>3. \A i \in 1 .. Len(s) : i \in 1 .. Len(t) /\ t[i] = s[i]
  BY <1>1
<1>4. \A i \in 1 .. Len(t) : t[i] = e \/ (i \in 1 .. Len(s) /\ t[i] = s[i])
  BY <1>1
<1>5. Contains(t, x) <=> Contains(s, x) \/ x = e
  BY <1>2, <1>3, <1>4 DEF Contains
<1> QED BY <1>5 DEF t

LEMMA TailContains ==
  ASSUME NEW S, NEW s \in Seq(S), s # <<>>, NEW x
  PROVE  Contains(s, x) <=> Contains(Tail(s), x) \/ x = Head(s)
<1> DEFINE t == Tail(s)
<1>1. /\ Head(s) = s[1] /\ 1 \in 1 .. Len(s) /\ Len(t) = Len(s) - 1
      /\ \A i \in 1 .. Len(t) : t[i] = s[i + 1]
  BY TailThinner
<1>2. Len(s) \in Nat
  OBVIOUS
<1> HIDE DEF t
<1>3. \A i \in 1 .. Len(t) : i + 1 \in 1 .. Len(s) /\ t[i] = s[i + 1]
  BY <1>1, <1>2
<1>4. \A i \in 1 .. Len(s) : i = 1 \/ (i - 1 \in 1 .. Len(t) /\ s[i] = t[i - 1])
  BY <1>1, <1>2
<1>5. Contains(s, x) <=> Contains(t, x) \/ x = Head(s)
  BY <1>1, <1>3, <1>4 DEF Contains
<1> QED BY <1>5 DEF t

LEMMA RemoveContains ==
  ASSUME NEW S, NEW s \in Seq(S), NEW k \in 1 .. Len(s), NEW x,
         \A i, j \in 1 .. Len(s) : s[i] = s[j] => i = j
  PROVE  Contains(RemoveAt(s, k), x) <=> Contains(s, x) /\ x # s[k]
<1> DEFINE t == RemoveAt(s, k)
<1>1. /\ Len(t) = Len(s) - 1
      /\ \A i \in 1 .. Len(t) : t[i] = IF i < k THEN s[i] ELSE s[i + 1]
  BY RemoveAtThinner
<1>2. Len(s) \in Nat /\ k \in Nat /\ k >= 1 /\ k <= Len(s)
  OBVIOUS
<1> HIDE DEF t
<1>3. \A i \in 1 .. Len(t) : \E j \in 1 .. Len(s) : j # k /\ t[i] = s[j]
  <2> TAKE i \in 1 .. Len(t)
  <2>1. CASE i < k
    BY <1>1, <1>2, <2>1
  <2>2. CASE i >= k
    <3>1. i + 1 \in 1 .. Len(s) /\ i + 1 # k /\ t[i] = s[i + 1]
      BY <1>1, <1>2, <2>2
    <3> QED BY <3>1
  <2> QED BY <1>2, <2>1, <2>2
<1>4. \A j \in 1 .. Len(s) : j # k => \E i \in 1 .. Len(t) : t[i] = s[j]
  <2> TAKE j \in 1 .. Len(s)
  <2>1. CASE j < k
    <3>1. j \in 1 .. Len(t) /\ t[j] = s[j]
      BY <1>1, <1>2, <2>1
    <3> QED BY <3>1
  <2>2. CASE j > k
    <3>1. j - 1 \in 1 .. Len(t) /\ t[j - 1] = s[j]
      BY <1>1, <1>2, <2>2
    <3> QED BY <3>1
  <2> QED BY <1>2, <2>1, <2>2
<1>5. Contains(t, x) <=> Contains(s, x) /\ x # s[k]
  <2>1. ASSUME Contains(t, x) PROVE Contains(s, x) /\ x # s[k]
    <3>1. PICK i \in 1 .. Len(t) : t[i] = x
      BY <2>1 DEF Contains
    <3>2. PICK j \in 1 .. Len(s) : j # k /\ t[i] = s[j]
      BY <1>3
    <3> QED BY <3>1, <3>2 DEF Contains
  <2>2. ASSUME Contains(s, x), x # s[k] PROVE Contains(t, x)
    <3>1. PICK j \in 1 .. Len(s) : s[j] = x
      BY <2>2 DEF Contains
    <3>2. PICK i \in 1 .. Len(t) : t[i] = s[j]
      BY <1>4, <2>2, <3>1
    <3> QED BY <3>1, <3>2 DEF Contains
  <2> QED BY <2>1, <2>2
<1> QED BY <1>5 DEF t

\* Fewer requests run than there are workers, as long as one of them does not.
LEMMA RoomToRun ==
  ASSUME ServeInv, NEW w \in Workers, wpc[w] # "run"
  PROVE  Cardinality(Abstract!Running) < Cardinality(Workers)
<1> DEFINE T == {job[v] : v \in Workers \ {w}}
<1>1. Abstract!Running \subseteq T
  <2> SUFFICES ASSUME NEW r \in Reqs, Work(r) = "running" PROVE r \in T
    BY DEF Abstract!Running
  <2>1. PICK v \in Workers : wpc[v] = "run" /\ job[v] = r
    BY DEF Work
  <2>2. v # w
    BY <2>1
  <2> QED BY <2>1, <2>2
<1>2. IsFiniteSet(Workers \ {w}) /\ Cardinality(Workers \ {w}) = Cardinality(Workers) - 1
      /\ Cardinality(Workers) \in Nat
  BY WorkersFinite
<1>3. IsFiniteSet(T) /\ Cardinality(T) \in Nat /\ Cardinality(T) <= Cardinality(Workers \ {w})
  BY <1>2, ImageBounded
<1> HIDE DEF T
<1>4. Cardinality(Abstract!Running) \in Nat /\ Cardinality(Abstract!Running) <= Cardinality(T)
  BY <1>1, <1>3, FS_Subset, FS_CardinalityType
<1> QED BY <1>2, <1>3, <1>4

\* BulkheadSpec's instance of FiniteSets counts as ours does.
LEMMA SameCardinality == ASSUME NEW S PROVE Abstract!Cardinality(S) = Cardinality(S)
  BY DEF Abstract!Cardinality, Cardinality

\* A worker that starts a request that stands nowhere any more runs it.
LEMMA StartRuns ==
  ASSUME ServeInv, NEW w \in Workers, NEW r \in Reqs, Start(w, r), UNCHANGED outcome,
         wpc[w] \notin {"run", "deliver"}, ~started[r],
         InLine(r) \/ outcome[r] = "none",
         \A p \in Reqs \ {r} : InLine(p)' <=> InLine(p)
  PROVE  Abstract!Run(r)
<1>1. Shape /\ JobsTaken /\ NoReq \notin Reqs
  BY BulkheadAssumption DEF ServeInv, PlaceInv
<1>2. job[w] = NoReq
  BY <1>1 DEF JobsTaken
<1>3. wpc' = [wpc EXCEPT ![w] = "run"] /\ job' = [job EXCEPT ![w] = r] /\ started' = [started EXCEPT ![r] = TRUE]
  BY DEF Start
<1>4. (Work(r))' = "running"
  BY <1>1, <1>3 DEF Shape, Work
<1>5. ASSUME NEW p \in Reqs \ {r} PROVE (Work(p))' = Work(p)
  <2>1. \A v \in Workers : RunBy(v, p)' <=> RunBy(v, p)
    BY <1>1, <1>2, <1>3 DEF Shape, RunBy
  <2>2. started'[p] = started[p]
    BY <1>1, <1>3 DEF Shape
  <2> QED BY <2>1, <2>2, WorkKept
<1>6. Abstract!Becomes(r, "running")
  BY <1>4, <1>5, WorkBecomes
<1>7. Work(r) = "waiting" \/ (Work(r) = "absent" /\ outcome[r] = "none")
  BY WorkIs
<1>8. Abstract!Cardinality(Abstract!Running) < Cardinality(Workers)
  BY RoomToRun, SameCardinality
<1> QED BY <1>6, <1>7, <1>8 DEF Abstract!Run

\* What a caller's answer is to the specification.
LEMMA AnswerTells ==
  ASSUME ServeInv, NEW r \in Reqs, NEW v, NEW d, Answer(r, v, d), pc[r] # "returned"
  PROVE  Abstract!Tell(r, v)
BY DEF ServeInv, Answer, Abstract!Tell

\* The steps that a caller takes outside the channels.
LEMMA CallerImplements ==
  ASSUME ServeInv, NEW r \in Reqs, Call(r) \/ FailFast(r) \/ SeeDequeued(r) \/ Receive(r)
  PROVE  [Abstract!Next]_(Abstract!avars)
<1>1. UNCHANGED <<wpc, job, started, line>>
  BY DEF Call, FailFast, SeeDequeued, Receive, workerVars
<1>2. ([p \in Reqs |-> Work(p)])' = [p \in Reqs |-> Work(p)]
  BY <1>1, WorkSame
<1>3. CASE UNCHANGED outcome
  BY <1>2, <1>3 DEF Abstract!avars
<1>4. CASE Call(r) /\ Answer(r, "closed", 0)
  <2>1. Abstract!Tell(r, "closed") /\ Work(r) = "absent"
    BY <1>4, AnswerTells, WorkIs DEF Call
  <2>2. Abstract!Shut(r)
    BY <1>2, <2>1 DEF Abstract!Shut
  <2> QED BY <2>2 DEF Abstract!Next
<1>5. CASE FailFast(r)
  <2>1. Abstract!Tell(r, "full")
    BY <1>5, AnswerTells DEF FailFast
  <2>2. Abstract!Refuse(r)
    BY <1>2, <2>1 DEF Abstract!Refuse
  <2> QED BY <2>2 DEF Abstract!Next
<1>6. CASE Receive(r)
  <2>1. Abstract!Tell(r, "result")
    BY <1>6, AnswerTells DEF Receive
  <2>2. started[r] /\ \A w \in Workers : ~RunBy(w, r)
    BY <1>6 DEF Receive, ServeInv, RunBy
  <2>3. Work(r) = "done"
    BY <2>2, WorkIs
  <2>4. Abstract!Succeed(r)
    BY <1>2, <2>1, <2>3 DEF Abstract!Succeed
  <2> QED BY <2>4 DEF Abstract!Next
<1> QED BY <1>3, <1>4, <1>5, <1>6 DEF Call, SeeDequeued, Move

\* A sender that gives up takes its request back; what is in the buffer stays.
LEMMA GiveUpImplements ==
  ASSUME ServeInv, NEW r \in Reqs, QueueTimeout(r) \/ CtxDone(r)
  PROVE  [Abstract!Next]_(Abstract!avars)
<1>1. UNCHANGED <<wpc, job, started>> /\ LeaveLine(r)
  BY DEF QueueTimeout, CtxDone, workerVars
<1>2. PICK v \in {"full", "ctx"} : Abstract!Tell(r, v)
  <2>1. \E v \in {"full", "ctx"} : Answer(r, v, 1) /\ pc[r] # "returned"
    BY DEF QueueTimeout, CtxDone
  <2> QED BY <2>1, AnswerTells
<1>3. CASE UNCHANGED line
  <2>1. ([p \in Reqs |-> Work(p)])' = [p \in Reqs |-> Work(p)]
    BY <1>1, <1>3, WorkSame
  <2>2. Abstract!Refuse(r)
    BY <1>2, <2>1 DEF Abstract!Refuse
  <2> QED BY <2>2 DEF Abstract!Next
<1>4. ASSUME NEW i \in 1 .. Len(line[Target(r)]), BlockedAt(r, i),
             line' = [line EXCEPT ![Target(r)] = RemoveAt(@, i)]
      PROVE  Abstract!Refuse(r)
  <2> DEFINE q == Target(r)
  <2>0. q \in Queues /\ line[q] \in Seq(Reqs) /\ line[q][i] = r /\ line' = [line EXCEPT ![q] = RemoveAt(line[q], i)]
        /\ line \in [Queues -> Seq(Reqs)]
    BY <1>4, QueuesTwo DEF BlockedAt, ServeInv, PlaceInv, Shape
  <2> HIDE DEF q
  <2>1. InLine(r) /\ \A s \in Queues : Contains(line[s], r) => s = q
    BY <1>4, <2>0 DEF InLine, Contains, ServeInv, PlaceInv, Standing, q
  <2>2. \A x : Contains(line'[q], x) <=> Contains(line[q], x) /\ x # r
    <3>1. \A j, k \in 1 .. Len(line[q]) : line[q][j] = line[q][k] => j = k
      BY <2>0 DEF ServeInv, PlaceInv, OnePlace
    <3>2. line'[q] = RemoveAt(line[q], i) /\ i \in 1 .. Len(line[q])
      BY <1>4, <2>0 DEF q
    <3> QED BY <2>0, <3>1, <3>2, RemoveContains
  <2>3. \A s \in Queues \ {q} : line'[s] = line[s]
    BY <2>0
  <2>4. ~InLine(r)' /\ \A p \in Reqs \ {r} : InLine(p)' <=> InLine(p)
    BY <2>1, <2>2, <2>3 DEF InLine
  <2>5. ASSUME NEW p \in Reqs \ {r} PROVE (Work(p))' = Work(p)
    BY <1>1, <2>4, WorkKept DEF RunBy
  <2>6. Work(r) = "waiting" /\ (Work(r))' = "absent"
    <3>1. Work(r) = "waiting" /\ ~started[r] /\ \A w \in Workers : ~RunBy(w, r)
      BY <2>1, WorkIs
    <3>2. ~started'[r] /\ \A w \in Workers : ~(wpc'[w] = "run" /\ job'[w] = r)
      BY <1>1, <3>1 DEF RunBy
    <3> QED BY <2>4, <3>1, <3>2 DEF Work, InLine
  <2>7. Abstract!Becomes(r, "absent")
    BY <2>5, <2>6, WorkBecomes
  <2> QED BY <1>2, <2>6, <2>7 DEF Abstract!Refuse
<1> QED BY <1>1, <1>3, <1>4 DEF LeaveLine, Abstract!Next

\* A request enters a channel, or goes to a worker at once.
LEMMA SendImplements ==
  ASSUME ServeInv, NEW r \in Reqs, Enqueue(r) \/ \E w \in Workers : HandOver(r, w)
  PROVE  [Abstract!Next]_(Abstract!avars)
<1>1. Work(r) = "absent" /\ ~started[r] /\ outcome[r] = "none" /\ UNCHANGED outcome
  BY WorkIs DEF Enqueue, HandOver, Move, ServeInv
<1>2. CASE Enqueue(r)
  <2> DEFINE q == Target(r)
  <2>1. /\ q \in Queues /\ line \in [Queues -> Seq(Reqs)] /\ line[q] \in Seq(Reqs)
        /\ line' = [line EXCEPT ![q] = Append(line[q], r)] /\ UNCHANGED <<wpc, job, started>>
    BY <1>2, QueuesTwo DEF Enqueue, ServeInv, PlaceInv, Shape, workerVars
  <2> HIDE DEF q
  <2>2. \A x : Contains(line'[q], x) <=> Contains(line[q], x) \/ x = r
    <3>1. line'[q] = Append(line[q], r)
      BY <2>1
    <3> QED BY <2>1, <3>1, AppendContains
  <2>3. \A s \in Queues \ {q} : line'[s] = line[s]
    BY <2>1
  <2>4. InLine(r)' /\ \A p \in Reqs \ {r} : InLine(p)' <=> InLine(p)
    BY <2>1, <2>2, <2>3 DEF InLine
  <2>5. ASSUME NEW p \in Reqs \ {r} PROVE (Work(p))' = Work(p)
    BY <2>1, <2>4, WorkKept DEF RunBy
  <2>6. (Work(r))' = "waiting"
    <3>1. ~started'[r] /\ \A w \in Workers : ~(wpc'[w] = "run" /\ job'[w] = r)
      BY <1>1, <2>1, WorkIs DEF RunBy
    <3> QED BY <2>4, <3>1 DEF Work, InLine
  <2>7. Abstract!Becomes(r, "waiting")
    BY <2>5, <2>6, WorkBecomes
  <2>8. Abstract!Admit(r)
    BY <1>1, <2>7 DEF Abstract!Admit
  <2> QED BY <2>8 DEF Abstract!Next
<1>3. ASSUME NEW w \in Workers, HandOver(r, w) PROVE Abstract!Run(r)
  <2>1. Start(w, r) /\ wpc[w] \notin {"run", "deliver"} /\ UNCHANGED line
    BY <1>3 DEF HandOver, ParkedOn
  <2>2. \A p \in Reqs \ {r} : InLine(p)' <=> InLine(p)
    BY <2>1 DEF InLine
  <2> QED BY <1>1, <2>1, <2>2, StartRuns
<1> QED BY <1>2, <1>3 DEF Abstract!Next

\* A worker takes the first request of a channel.
LEMMA TakeImplements ==
  ASSUME ServeInv, NEW w \in Workers, NEW q \in Queues, Take(w, q), wpc[w] \notin {"run", "deliver"}
  PROVE  [Abstract!Next]_(Abstract!avars)
<1>0. Head(line[q]) \in Reqs /\ Start(w, Head(line[q])) /\ ~started[Head(line[q])]
  BY TakeThins DEF ServeInv
<1> PICK r \in Reqs : r = Head(line[q])
  BY <1>0
<1>1. Start(w, r) /\ ~started[r]
  BY <1>0
<1>2. /\ line \in [Queues -> Seq(Reqs)] /\ line[q] \in Seq(Reqs) /\ line[q] # <<>>
      /\ line' = [line EXCEPT ![q] = Tail(line[q])] /\ UNCHANGED outcome
  BY DEF Take, ServeInv, PlaceInv, Shape, callerVars
<1>3. \A x : Contains(line[q], x) <=> Contains(line'[q], x) \/ x = r
  <2>1. line'[q] = Tail(line[q])
    BY <1>2
  <2> QED BY <1>2, <2>1, TailContains
<1>4. \A s \in Queues \ {q} : line'[s] = line[s]
  BY <1>2
<1>5. InLine(r) /\ \A p \in Reqs \ {r} : InLine(p)' <=> InLine(p)
  BY <1>3, <1>4 DEF InLine
<1>6. Abstract!Run(r)
  BY <1>1, <1>2, <1>5, StartRuns
<1> QED BY <1>1, <1>6 DEF Abstract!Next

\* A worker ends a request and delivers its result.
LEMMA WorkerImplements ==
  ASSUME ServeInv, NEW w \in Workers, Finish(w) \/ Deliver(w)
  PROVE  [Abstract!Next]_(Abstract!avars)
<1>0. Shape /\ JobsTaken /\ NoReq \notin Reqs
  BY BulkheadAssumption DEF ServeInv, PlaceInv
<1>1. /\ job[w] \in Reqs /\ started[job[w]] /\ wpc[w] \in {"run", "deliver"}
      /\ UNCHANGED <<started, line, outcome>>
  BY <1>0 DEF Finish, Deliver, callerVars, Shape, JobsTaken
<1> PICK r \in Reqs : r = job[w]
  BY <1>1
<1>2. \A v \in Workers \ {w} : job[v] # r
  BY <1>0 DEF ServeInv
<1>3. \A p \in Reqs : InLine(p)' <=> InLine(p)
  BY <1>1 DEF InLine
<1>4. CASE Finish(w)
  <2>1. wpc[w] = "run" /\ wpc' = [wpc EXCEPT ![w] = "deliver"] /\ job' = job
    BY <1>4 DEF Finish
  <2>2. ASSUME NEW p \in Reqs \ {r} PROVE (Work(p))' = Work(p)
    <3>1. \A v \in Workers : RunBy(v, p)' <=> RunBy(v, p)
      BY <1>0, <2>1 DEF RunBy, Shape
    <3> QED BY <1>1, <1>3, <3>1, WorkKept
  <2>3. Work(r) = "running" /\ (Work(r))' = "done"
    <3>1. Work(r) = "running"
      BY <1>1, <2>1 DEF Work
    <3>2. \A v \in Workers : ~(wpc'[v] = "run" /\ job'[v] = r)
      BY <1>0, <1>2, <2>1 DEF Shape
    <3> QED BY <1>1, <3>1, <3>2 DEF Work
  <2>4. Abstract!Becomes(r, "done")
    BY <1>1, <2>2, <2>3, WorkBecomes
  <2>5. Abstract!End(r)
    BY <1>1, <2>3, <2>4 DEF Abstract!End
  <2> QED BY <1>1, <2>5 DEF Abstract!Next
<1>5. CASE Deliver(w)
  <2>1. wpc[w] = "deliver" /\ wpc' = [wpc EXCEPT ![w] = "look"] /\ job' = [job EXCEPT ![w] = NoReq]
    BY <1>5 DEF Deliver
  <2>2. ASSUME NEW p \in Reqs PROVE (Work(p))' = Work(p)
    <3>1. \A v \in Workers : RunBy(v, p)' <=> RunBy(v, p)
      BY <1>0, <2>1 DEF RunBy, Shape
    <3> QED BY <1>1, <1>3, <3>1, WorkKept
  <2>3. ([p \in Reqs |-> Work(p)])' = [p \in Reqs |-> Work(p)]
    BY <2>2
  <2> QED BY <1>1, <2>3 DEF Abstract!avars
<1> QED BY <1>4, <1>5

\* A worker that looks elsewhere, parks or exits changes no request.
LEMMA GotoImplements ==
  ASSUME ServeInv, NEW w \in Workers, NEW to \in {"inner", "parked", "exited"}, Goto(w, to), wpc[w] # "run"
  PROVE  UNCHANGED Abstract!avars
<1>0. Shape
  BY DEF ServeInv, PlaceInv
<1>1. wpc' = [wpc EXCEPT ![w] = to] /\ UNCHANGED <<job, started, line, outcome>>
  BY DEF Goto, callerVars
<1>2. ASSUME NEW p \in Reqs PROVE (Work(p))' = Work(p)
  <2>1. \A v \in Workers : RunBy(v, p)' <=> RunBy(v, p)
    BY <1>0, <1>1 DEF RunBy, Shape
  <2>2. InLine(p)' <=> InLine(p)
    BY <1>1 DEF InLine
  <2> QED BY <1>1, <2>1, <2>2, WorkKept
<1>3. ([p \in Reqs |-> Work(p)])' = [p \in Reqs |-> Work(p)]
  BY <1>2
<1> QED BY <1>1, <1>3 DEF Abstract!avars

\* The workers, channels and timers of bulkhead.go implement the bulkhead of
\* BulkheadSpec: at most MaxConcurrent requests at once, none twice, none that was
\* taken back, and results only of requests that were run to their end.
THEOREM Refinement == Spec => ImplementsBulkheadSpec
<1>1. Init => Abstract!Init
  <2> SUFFICES ASSUME Init PROVE Abstract!Init
    OBVIOUS
  <2>1. ASSUME NEW r \in Reqs PROVE Work(r) = "absent"
    <3>1. \A q \in Queues : line[q] = <<>> /\ Len(line[q]) = 0
      BY DEF Init
    <3> QED BY <3>1 DEF Init, Work, Contains
  <2> QED BY <2>1 DEF Init, Abstract!Init
<1>2. ASSUME ServeInv, [Next]_vars
      PROVE  [Abstract!Next]_(Abstract!avars)
  <2> USE <1>2
  <2>1. ASSUME NEW r \in Reqs, Call(r) \/ Caller(r) \/ CtxDone(r)
        PROVE  [Abstract!Next]_(Abstract!avars)
    BY <2>1, CallerImplements, GiveUpImplements, SendImplements DEF Caller
  <2>2. ASSUME NEW w \in Workers, Worker(w)
        PROVE  [Abstract!Next]_(Abstract!avars)
    <3>1. ASSUME NEW to \in {"inner", "parked", "exited"}, Goto(w, to), wpc[w] # "run"
          PROVE  [Abstract!Next]_(Abstract!avars)
      BY <3>1, GotoImplements
    <3>2. ASSUME NEW q \in Queues, Take(w, q), wpc[w] \notin {"run", "deliver"}
          PROVE  [Abstract!Next]_(Abstract!avars)
      BY <3>2, TakeImplements
    <3>3. CASE Look(w)
      BY <3>1, <3>2, <3>3, QueuesTwo DEF Look
    <3>4. CASE Select(w)
      BY <3>1, <3>2, <3>4 DEF Select, Watched
    <3>5. CASE Quit(w)
      BY <3>1, <3>5 DEF Quit
    <3> QED BY <2>2, <3>3, <3>4, <3>5, WorkerImplements DEF Worker
  <2>3. ASSUME UNCHANGED <<wpc, job, started, line, outcome>>
        PROVE  UNCHANGED Abstract!avars
    BY <2>3, WorkSame DEF Abstract!avars
  <2>4. CASE Close \/ UNCHANGED vars
    BY <2>3, <2>4 DEF Close, workerVars, callerVars, vars
  <2> QED BY <2>1, <2>2, <2>4 DEF Next, Terminating
<1> QED BY <1>1, <1>2, ServeInvariant, PTL DEF Spec, ImplementsBulkheadSpec, Abstract!ASpec
=============================================================================
