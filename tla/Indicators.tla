----------------------------- MODULE Indicators -----------------------------
\* src/algorithms/indicators_registry.py: IndicatorRegistry, IndicatorCache, and
\* compute of IndicatorBatchProcessor, which reads the cache before the registry.
\*
\* All of it is synchronous: an action is one call.  An indicator gives Length values
\* for a series of data, numbered 1 to Length; what compute returns is always a tail
\* of them and is modelled by the number of its first value.
\* Left out: what an indicator computes, tags and descriptions, and the other
\* computations of the batch processor, which use neither registry nor cache.
EXTENDS Integers, Lists

CONSTANTS
  Names,        \* indicator names
  Categories,
  Data,         \* series of data
  HashOf,       \* _hash_data of each: long series share one with the same ends and mean
  Length,       \* values an indicator gives for a series
  Warmups,      \* warmup arguments
  CacheMax,     \* max_size
  MaxListed     \* bound: entries of a category's list

VARIABLES
  specs,        \* _specs: the category of each name
  byCategory,   \* _by_category
  results,      \* _cache, oldest entry first
  answer        \* history: the last answer of compute

indicatorVars == <<specs, byCategory, results, answer>>

NoAnswer == [first |-> 0, warmup |-> 0, data |-> 0, of |-> 0]

Init ==
  /\ specs = [n \in {} |-> 0]
  /\ byCategory = [c \in Categories |-> << >>]
  /\ results = << >> /\ answer = NoAnswer

Least(a, b) == IF a < b THEN a ELSE b
IsListed(n, c) == \E i \in 1..Len(byCategory[c]) : byCategory[c][i] = n

\* register appends the name to its category again, and leaves it in an old one.
Register(n, c) ==
  /\ Len(byCategory[c]) < MaxListed
  /\ specs' = [o \in DOMAIN specs \union {n} |-> IF o = n THEN c ELSE specs[o]]
  /\ byCategory' = [byCategory EXCEPT ![c] = Append(@, n)]
  /\ answer' = NoAnswer /\ UNCHANGED results

\* list.remove: the first of them.
RemoveFirst(list, n) ==
  IF \A i \in 1..Len(list) : list[i] # n THEN list
  ELSE LET at == CHOOSE i \in 1..Len(list) : list[i] = n /\ \A j \in 1..(i - 1) : list[j] # n
       IN SubSeq(list, 1, at - 1) \o SubSeq(list, at + 1, Len(list))

Unregister(n) ==
  /\ n \in DOMAIN specs
  /\ byCategory' = [byCategory EXCEPT ![specs[n]] = RemoveFirst(@, n)]
  /\ specs' = [o \in DOMAIN specs \ {n} |-> specs[o]]
  /\ answer' = NoAnswer /\ UNCHANGED results

Hits(n, d) == {i \in 1..Len(results) : results[i].name = n /\ results[i].hash = HashOf[d]}

\* The value behind the last, for a tail that is empty.
Behind == Length + 1

\* A hit: what was stored, which has lost its own warmup, loses this one as well.
Served(entry, warmup) == Least(entry.first + warmup, Behind)

\* A miss: computed, stored without its warmup, the oldest entry making room.  A hit
\* does not make an entry younger.
Stored(n, d, warmup) ==
  LET kept == IF Len(results) >= CacheMax THEN Tail(results) ELSE results
  IN Append(kept, [name |-> n, hash |-> HashOf[d], first |-> Least(1 + warmup, Behind), of |-> d])

Compute(n, d, warmup) ==
  IF Hits(n, d) # {}
  THEN LET entry == results[CHOOSE i \in Hits(n, d) : TRUE]
       IN /\ answer' = [first |-> Served(entry, warmup), warmup |-> warmup, data |-> d, of |-> entry.of]
          /\ UNCHANGED <<specs, byCategory, results>>
  ELSE /\ n \in DOMAIN specs
       /\ results' = Stored(n, d, warmup)
       /\ answer' = [first |-> Least(1 + warmup, Behind), warmup |-> warmup, data |-> d, of |-> d]
       /\ UNCHANGED <<specs, byCategory>>

\* invalidate, of one indicator or of all.
Invalidate(gone) ==
  /\ results' = Selected(results, {results[i] : i \in {j \in 1..Len(results) : results[j].name \notin gone}})
  /\ answer' = NoAnswer /\ UNCHANGED <<specs, byCategory>>

Next ==
  \/ \E n \in Names, c \in Categories : Register(n, c)
  \/ \E n \in Names : Unregister(n)
  \/ \E n \in Names, d \in Data, warmup \in Warmups : Compute(n, d, warmup)
  \/ \E gone \in {Names} \union {{n} : n \in Names} : Invalidate(gone)

IndicatorsSpec == Init /\ [][Next]_indicatorVars

-----------------------------------------------------------------------------
\* The shape of registry and cache.
TypeOK ==
  /\ DOMAIN specs \subseteq Names
  /\ \A n \in DOMAIN specs : specs[n] \in Categories
  /\ \A c \in Categories : Len(byCategory[c]) <= MaxListed
  /\ Len(results) <= CacheMax
  /\ \A i \in 1..Len(results) : results[i].first \in 1..Behind
  /\ answer.first \in 0..Behind

\* However names are registered again, under other categories, and removed: a
\* registered indicator is listed under its category.  A cached or computed answer
\* never holds a value of the warmup, and no key is cached twice.
LookupsAreSound ==
  /\ \A n \in DOMAIN specs : IsListed(n, specs[n])
  /\ answer # NoAnswer =>
       /\ answer.first > Least(answer.warmup, Length)
       /\ HashOf[answer.data] = HashOf[answer.of]
  /\ \A i, j \in 1..Len(results) :
       results[i].name = results[j].name /\ results[i].hash = results[j].hash => i = j

\* What the batch processor's documentation says of warmup periods: the first values
\* are discarded, as many as the caller asked for and no others, whether the answer
\* is computed or cached.
WarmupIsExact ==
  answer # NoAnswer => answer.first = Least(1 + answer.warmup, Behind)
=============================================================================
