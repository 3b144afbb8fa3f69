-------------------------------- MODULE Cache --------------------------------
(***************************************************************************)
(* CachePolicy (cache.go) as a layer of the chain.  Execute looks its key  *)
(* up under mu.RLock, judges the entry's age after the unlock, calls next  *)
(* without a lock on a miss, reads the response's body into memory and     *)
(* stores it under mu.Lock.  The readings of the clock in one critical     *)
(* section are one.                                                        *)
(***************************************************************************)
EXTENDS ClientStats

CONSTANTS TTL, MaxEntries,  \* CacheConfig
          NoEntry           \* not in the map

ASSUME CacheAssumption == TTL \in Nat \ {0} /\ MaxEntries \in Nat \ {0}

VARIABLES entries,  \* c.entries: the body, and createdAt
          found,    \* what each caller has found there
          ties      \* auxiliary: see Store

cacheVars == <<entries, found, ties>>

Entry == [body : {"whole", "part"}, created : Nat]

CacheInit ==
  /\ entries = [k \in Keys |-> NoEntry]
  /\ found = [c \in Callers |-> NoEntry]
  /\ ties = 0

-----------------------------------------------------------------------------
Cacheable(c) == key[c] # NoKey

CacheSkips(c) ==
  /\ At(c, "cache", "in") /\ ~Cacheable(c)
  /\ CallNext(c)
  /\ UNCHANGED <<context, statsVars, cacheVars>>

Lookup(c) ==
  /\ At(c, "cache", "in") /\ Cacheable(c)
  /\ found' = [found EXCEPT ![c] = entries[key[c]]]
  /\ Goto(c, "age")
  /\ UNCHANGED <<context, at, resp, statsVars, entries, ties>>

\* time.Since(entry.createdAt) < c.cfg.TTL
Fresh(c) == found[c] # NoEntry /\ clock - found[c].created < TTL

\* if c.stats != nil
CountHere(n) == IF cfg.counted THEN Count(n) ELSE UNCHANGED stats

\* A copy of the response, with a reader of its own over the entry's bytes.
Hit(c) ==
  /\ pc[c] = "age" /\ Fresh(c)
  /\ CountHere("hits")
  /\ Return(c, OK(found[c].body))
  /\ found' = [found EXCEPT ![c] = NoEntry]
  /\ UNCHANGED <<context, seen, reader, entries, ties>>

Miss(c) ==
  /\ pc[c] = "age" /\ ~Fresh(c)
  /\ CountHere("misses")
  /\ CallNext(c)
  /\ found' = [found EXCEPT ![c] = NoEntry]
  /\ UNCHANGED <<context, seen, reader, entries, ties>>

\* An error, no response, a panic, or a method that is not cached.
CachePasses(c) ==
  /\ At(c, "cache", "out")
  /\ resp[c].status # "ok" \/ ~Cacheable(c)
  /\ Return(c, resp[c])
  /\ UNCHANGED <<context, statsVars, cacheVars>>

Readable(c) == At(c, "cache", "out") /\ Cacheable(c) /\ resp[c].status = "ok" /\ resp[c].body # "nil"

\* Mutant: the caller is given the body that ReadAll has used up.
FillUsedUp(c) ==
  /\ Readable(c)
  /\ Goto(c, "store")
  /\ resp' = [resp EXCEPT ![c].body = "part"]
  /\ UNCHANGED <<context, at, statsVars, cacheVars>>

\* io.ReadAll, whose error is dropped: what was read becomes the body.
Fill(c) ==
  /\ Readable(c)
  /\ Goto(c, "store")
  /\ \E b \in BodyRead(c) : resp' = [resp EXCEPT ![c].body = b]
  /\ UNCHANGED <<context, at, statsVars, cacheVars>>

\* io.ReadAll of a nil Body panics.
FillPanics(c) ==
  /\ At(c, "cache", "out") /\ Cacheable(c) /\ resp[c] = OK("nil")
  /\ Return(c, Panic)
  /\ UNCHANGED <<context, statsVars, cacheVars>>

Stored == {k \in Keys : entries[k] # NoEntry}

\* Mutant: the cache is full only when it is above MaxEntries.
FullAbove == Cardinality(Stored) > MaxEntries

Full == Cardinality(Stored) >= MaxEntries

\* The entries that the scan may evict: the oldest of those created before now;
\* the order of a map decides between equals.
Evictable ==
  LET past == {k \in Stored : entries[k].created < clock}
  IN  {k \in past : \A l \in past : entries[k].created <= entries[l].created}

Evictions == IF Full /\ Evictable # {} THEN {{k} : k \in Evictable} ELSE {{}}

\* The entry of an overwritten key counts for Full, and another may be evicted
\* for it.  ties counts the stores that found the cache full of entries of the
\* present instant and evicted none.
Store(c) ==
  /\ pc[c] = "store"
  /\ \E out \in Evictions :
       /\ entries' = [k \in Keys |-> IF k = key[c] THEN [body |-> resp[c].body, created |-> clock]
                                     ELSE IF k \in out THEN NoEntry ELSE entries[k]]
       /\ ties' = IF Full /\ out = {} /\ key[c] \notin Stored THEN ties + 1 ELSE ties
  /\ Return(c, resp[c])
  /\ UNCHANGED <<context, statsVars, found>>

CacheStep(c) ==
  \/ CacheSkips(c) \/ Lookup(c) \/ Hit(c) \/ Miss(c)
  \/ CachePasses(c) \/ Fill(c) \/ FillPanics(c) \/ Store(c)
=============================================================================
