----------------------------- MODULE CacheStore -----------------------------
\* The store of src/data/stream_cache.py: StreamCache.put, get, get_latest, clear,
\* clear_symbol and the removal of expired entries, with the eviction policies and
\* the index by symbol; and SymbolCache, a bounded window of ticks.
\*
\* Every operation holds the cache's lock and is one action.  A datum has a symbol,
\* a key, a deduplication hash and a time.  The key and the hash are made of the
\* symbol's ticker alone, so data of two symbols with one ticker may share them.
\* Left out: the statistics, and the since argument of get.
EXTENDS Integers, Lists, SequencesExt, FiniteSets, Functions

CONSTANTS
  Symbols,   \* Symbol: ticker and exchange
  Items,     \* data that is put
  SymbolOf, KeyOf, HashOf, TimeOf,  \* what _generate_key and the hash make of it
  MaxSize,   \* max_size
  Policies,  \* CachePolicy: the values explored
  Dedup,     \* enable_dedup: the values explored
  MaxTicks,  \* bound: ticks added to a SymbolCache; its max_size is MaxSize
  MaxOps     \* bound: operations explored

VARIABLES
  policy,   \* _policy
  dedup,    \* _enable_dedup
  entries,  \* _cache: datum by key
  order,    \* the keys as the policy orders them, the one to evict first
  expired,  \* keys whose entry is older than ttl_seconds
  index,    \* _symbol_indices: keys by symbol, a defaultdict
  seen,     \* _seen_hashes
  ticks,    \* SymbolCache._ticks
  added,    \* SymbolCache._tick_count
  ops       \* bound: operations so far

vars == <<policy, dedup, entries, order, expired, index, seen, ticks, added, ops>>
store == <<entries, order, expired, index>>

Init ==
  /\ policy \in Policies /\ dedup \in Dedup
  /\ entries = << >> /\ order = << >> /\ expired = {}
  /\ index = << >> /\ seen = {}
  /\ ticks = << >> /\ added = 0 /\ ops = 0

Op == ops < MaxOps /\ ops' = ops + 1

Keys(s) == IF s \in DOMAIN index THEN index[s] ELSE {}

\* The symbol's set of keys, given the default or taken out of the dictionary.
WithKeys(ix, s, keys) == [x \in DOMAIN ix \union {s} |-> IF x = s THEN keys ELSE ix[x]]
Without(f, keys) == Restrict(f, DOMAIN f \ keys)
Others(list, keys) == Selected(list, ToSet(list) \ keys)

\* The entry _evict_entry chooses: TTL prefers one that has expired; otherwise
\* "order" is by last use (LRU, TTL), by time of storing (FIFO), or the
\* dictionary's (COUNT).
Victims == IF policy = "TTL" /\ expired # {} THEN expired ELSE {order[1]}

\* mutant: the whole set goes with the entry
EvictedIndex_DropsSymbol(k) == Without(index, {SymbolOf[entries[k]]})

\* The index once the entry is evicted; an empty set goes with it.
EvictedIndex(k) ==
  LET s == SymbolOf[entries[k]]
      keys == Keys(s) \ {k}
  IN IF keys = {} THEN Without(index, {s}) ELSE WithKeys(index, s, keys)

\* put: a hash that was seen is refused.  A full cache evicts first, even if the
\* key is there already and will only be overwritten.
Put(d) ==
  /\ Op
  /\ seen' = IF dedup THEN seen \union {HashOf[d]} ELSE seen
  /\ IF dedup /\ HashOf[d] \in seen THEN UNCHANGED store
     ELSE \E victims \in IF Cardinality(DOMAIN entries) >= MaxSize
                         THEN {{v} : v \in Victims} ELSE {{}} :
            LET k == KeyOf[d]
                s == SymbolOf[d]
                kept == Without(entries, victims)
                ix == IF victims = {} THEN index
                      ELSE EvictedIndex(CHOOSE v \in victims : TRUE)
                rest == Others(order, victims)
            IN /\ entries' = [x \in DOMAIN kept \union {k} |-> IF x = k THEN d ELSE kept[x]]
               /\ order' = IF policy = "COUNT" /\ Contains(rest, k) THEN rest
                           ELSE Append(Others(rest, {k}), k)
               /\ expired' = expired \ (victims \union {k})
               /\ index' = WithKeys(ix, s, (IF s \in DOMAIN ix THEN ix[s] ELSE {}) \union {k})
  /\ UNCHANGED <<policy, dedup, ticks, added>>

\* touch() of the entries read, in the order of the set of keys.
Touch(keys) ==
  IF policy \in {"LRU", "TTL"}
  THEN \E seq \in [1..Cardinality(keys) -> keys] :
         /\ ToSet(seq) = keys
         /\ order' = Others(order, keys) \o seq
  ELSE UNCHANGED order

\* get: every entry of the symbol that is there and has not expired.
Fresh(s) == {k \in Keys(s) : k \in DOMAIN entries /\ k \notin expired}

Get(s) ==
  /\ Op
  /\ Touch(Fresh(s))
  /\ UNCHANGED <<policy, dedup, entries, expired, index, seen, ticks, added>>

\* get_latest: the latest of them, the first that is met among equals.
GetLatest(s) ==
  /\ Op
  /\ IF Fresh(s) = {} THEN UNCHANGED order
     ELSE \E k \in Fresh(s) :
            /\ \A x \in Fresh(s) : TimeOf[entries[x]] <= TimeOf[entries[k]]
            /\ Touch({k})
  /\ UNCHANGED <<policy, dedup, entries, expired, index, seen, ticks, added>>

Clear ==
  /\ Op
  /\ entries' = << >> /\ order' = << >> /\ expired' = {} /\ index' = << >> /\ seen' = {}
  /\ UNCHANGED <<policy, dedup, ticks, added>>

\* clear_symbol: the keys of its index, whosever entry is under them now.
ClearSymbol(s) ==
  /\ Op /\ s \in DOMAIN index
  /\ entries' = Without(entries, index[s])
  /\ order' = Others(order, index[s])
  /\ expired' = expired \ index[s]
  /\ index' = Without(index, {s})
  /\ UNCHANGED <<policy, dedup, seen, ticks, added>>

\* Time passes ttl_seconds for an entry; the cleanup loop removes what expired
\* and leaves the symbols' sets behind, empty or not.
Age(k) ==
  /\ Op /\ expired' = expired \union {k}
  /\ UNCHANGED <<policy, dedup, entries, order, index, seen, ticks, added>>

CleanupExpired ==
  /\ Op /\ expired # {}
  /\ entries' = Without(entries, expired)
  /\ order' = Others(order, expired)
  /\ index' = [s \in DOMAIN index |-> {k \in index[s] : k \in expired => SymbolOf[entries[k]] # s}]
  /\ expired' = {}
  /\ UNCHANGED <<policy, dedup, seen, ticks, added>>

\* SymbolCache: a deque with a maximum length; get_ticks(count) is the slice
\* [-count:], which for zero is everything.
AddTick ==
  /\ added < MaxTicks /\ added' = added + 1
  /\ ticks' = IF Len(ticks) < MaxSize THEN Append(ticks, added + 1)
              ELSE Append(Tail(ticks), added + 1)
  /\ UNCHANGED <<policy, dedup, store, seen, ops>>

GetTicks(count) ==
  IF count = 0 \/ count >= Len(ticks) THEN ticks
  ELSE SubSeq(ticks, Len(ticks) - count + 1, Len(ticks))

ClearTicks ==
  /\ Op /\ ticks' = << >> /\ added' = 0
  /\ UNCHANGED <<policy, dedup, store, seen>>

Next ==
  \/ \E d \in Items : Put(d)
  \/ \E s \in Symbols : Get(s) \/ GetLatest(s) \/ ClearSymbol(s)
  \/ \E k \in DOMAIN entries \ expired : Age(k)
  \/ Clear \/ CleanupExpired \/ AddTick \/ ClearTicks

Spec == Init /\ [][Next]_vars

-----------------------------------------------------------------------------
\* The shape of the store.
TypeOK ==
  /\ policy \in Policies /\ dedup \in BOOLEAN
  /\ Range(entries) \subseteq Items /\ DOMAIN index \subseteq Symbols
  /\ IsInjective(order) /\ ToSet(order) = DOMAIN entries
  /\ expired \subseteq DOMAIN entries
  /\ Len(ticks) <= MaxSize /\ added \in 0..MaxTicks /\ ops \in 0..MaxOps

\* The store stays within its size, and an entry is always found under the symbol
\* of its datum, whatever was evicted, cleared or overwritten under the same key.
EntriesAreFound ==
  /\ Cardinality(DOMAIN entries) <= MaxSize
  /\ \A k \in DOMAIN entries : KeyOf[entries[k]] = k /\ k \in Keys(SymbolOf[entries[k]])

\* The last ticks asked for are the last that were added, in order.
WindowIsRecent ==
  \A count \in 1..MaxSize :
    LET got == GetTicks(count)
    IN /\ Len(got) = IF Len(ticks) < count THEN Len(ticks) ELSE count
       /\ \A i \in 1..Len(got) : got[i] = added - Len(got) + i
=============================================================================
