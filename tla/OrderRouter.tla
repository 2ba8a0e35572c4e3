----------------------------- MODULE OrderRouter -----------------------------
\* The order router, src/trading/order_router.py: its brokers with their metrics,
\* its rules, the strategies that choose a broker or split an order, and the
\* connectivity check.
\*
\* route_order suspends nowhere, so a routing is one action.  check_all_brokers
\* suspends once for every broker, and the registry may change in between.  The
\* check iterates the dictionary itself, so the dictionary is modelled as CPython
\* keeps it: a list of entries in order of insertion, holes where one was deleted,
\* rebuilt without its holes when an insertion finds the list full.
\* Quantities are counted in units; the parts of a split are integers over the
\* common denominator "scale".  Left out: the broker's own interface, logging,
\* the callbacks, and the 28 digits to which Decimal rounds an equal share.
EXTENDS Integers, Sequences, SequencesExt, FiniteSets, Lists

CONSTANTS
  Brokers,       \* names a broker may be registered under
  Contexts,      \* contexts an order may be routed in
  MinSplit,      \* RouterConfig.min_split_quantity
  MaxParts,      \* RouterConfig.max_split_parts
  SplitEqual,    \* RouterConfig.split_equal: the set of values explored
  FixedName,     \* RouterConfig.fixed_broker_name
  MaxQuantity,   \* bound: units of an order
  MaxChanges     \* bound: changes to registry, rules and metrics

VARIABLES
  table,     \* _brokers and _metrics: the names in order of registration, 0 for a hole
  room,      \* external: the entries the dictionary has space for
  metrics,   \* _metrics by name
  up,        \* external: what each broker's is_connected() returns
  rules,     \* _rules
  index,     \* RouterConfig.round_robin_index
  equal,     \* RouterConfig.split_equal
  check,     \* check_all_brokers, when it is under way
  changes    \* bound: changes so far

vars == <<table, room, metrics, up, rules, index, equal, check, changes>>
registry == <<table, room, metrics>>

Strategies == {"cost", "latency", "fill_rate", "split", "round_robin", "fixed", "volume"}

\* BrokerMetrics: the connectivity flag, the averages routing looks at, and the
\* counters behind them.  The fill rate is kept as the pair it was computed from.
NewMetrics == [flag |-> FALSE, cost |-> 0, latency |-> 0, total |-> 0, filled |-> 0,
               rate |-> <<0, 1>>]
\* check_all_brokers: the broker it asks, the place of its entry, how many items
\* its iterator still expects, and how many there were when it began.  visited and
\* rebuilt are history: who was asked since it was last registered, and whether
\* the dictionary was rebuilt since the check began.
NoCheck == [at |-> "idle", name |-> 0, pos |-> 0, left |-> 0, size |-> 0, visited |-> {},
            rebuilt |-> FALSE]
NoResult == [ok |-> FALSE, names |-> << >>, parts |-> << >>, scale |-> 1]

\* A hash table of 2^k slots has space for two thirds as many entries.
Usable(k) == (2 * 2^k) \div 3

\* A router that has its brokers; past says that two others came and went, and
\* that each broker filled an order.
Init ==
  /\ \E names \in {SetToSeq(Brokers), Tail(SetToSeq(Brokers))}, past \in BOOLEAN :
       /\ table = (IF past THEN <<0, 0>> ELSE << >>) \o names
       /\ metrics = [b \in Brokers |-> IF past THEN [NewMetrics EXCEPT !.filled = 1, !.total = 1]
                                      ELSE NewMetrics]
  /\ room = Usable(Min({k \in 3..(3 + Len(table)) : Usable(k) >= Len(table)}))
  /\ up = [b \in Brokers |-> TRUE]
  /\ rules = << >> /\ index = 0 /\ equal \in SplitEqual
  /\ check = NoCheck /\ changes = 0

Registered == ToSet(table) \ {0}
Change == changes < MaxChanges /\ changes' = changes + 1

\* --------------------------------------------------------------------- registry

\* An insertion into a full list of n names: the dictionary is rebuilt with at
\* least three slots for each, and its iterator goes on from the place it had.
Rebuild(b) ==
  LET n == Cardinality(Registered)
  IN /\ table' = Append(Selected(table, Registered), b)
     /\ room' = Usable(Min({k \in 3..(3 + n) : 2^k >= 3 * n}))
     /\ check' = [check EXCEPT !.rebuilt = TRUE]

Insert(b) ==
  IF b \in Registered THEN UNCHANGED <<table, room, check>>
  ELSE IF Len(table) < room THEN table' = Append(table, b) /\ UNCHANGED <<room, check>>
  ELSE Rebuild(b)

\* register_broker: a name that is known keeps its place and gets new metrics.
Register(b) ==
  /\ Change /\ Insert(b)
  /\ metrics' = [metrics EXCEPT ![b] = NewMetrics]
  /\ UNCHANGED <<up, rules, index, equal>>

\* unregister_broker leaves a hole.
Unregister(b) ==
  /\ Change /\ b \in Registered
  /\ table' = [i \in 1..Len(table) |-> IF table[i] = b THEN 0 ELSE table[i]]
  /\ metrics' = [metrics EXCEPT ![b] = NewMetrics]
  /\ check' = [check EXCEPT !.visited = @ \ {b}]
  /\ UNCHANGED <<room, up, rules, index, equal>>

\* add_rule keeps the rules sorted by priority, those of equal priority in the
\* order they were added; remove_rule takes out the first equal rule.
AddRule(rule) ==
  /\ Change
  /\ LET below == {i \in 1..Len(rules) : rules[i].priority < rule.priority}
     IN rules' = InsertAt(rules, Min(below \union {Len(rules) + 1}), rule)
  /\ UNCHANGED <<registry, up, index, equal, check>>

RemoveRule(rule) ==
  /\ Change /\ Contains(rules, rule)
  /\ rules' = RemoveFirst(rules, rule)
  /\ UNCHANGED <<registry, up, index, equal, check>>

\* ---------------------------------------------------------------------- metrics

\* update_metrics replaces the object, its connectivity flag with it.
UpdateMetrics(b, cost, latency) ==
  /\ Change /\ b \in Registered
  /\ metrics' = [metrics EXCEPT ![b] = [NewMetrics EXCEPT !.cost = cost, !.latency = latency]]
  /\ UNCHANGED <<table, room, up, rules, index, equal, check>>

UpdateConnectivity(b, flag) ==
  /\ Change /\ b \in Registered
  /\ metrics' = [metrics EXCEPT ![b].flag = flag]
  /\ UNCHANGED <<table, room, up, rules, index, equal, check>>

\* record_submit with record_fill or record_rejection, which renew the fill rate.
Rate(m) == [m EXCEPT !.rate = IF m.total = 0 THEN <<0, 1>> ELSE <<m.filled, m.total>>]

Record(b, filled) ==
  /\ Change /\ b \in Registered
  /\ LET m == metrics[b]
         more == IF filled THEN m.filled + 1 ELSE m.filled
     IN metrics' = [metrics EXCEPT ![b] = Rate([m EXCEPT !.total = m.total + 1, !.filled = more])]
  /\ UNCHANGED <<table, room, up, rules, index, equal, check>>

\* A broker goes up or down.
Flip(b) ==
  /\ Change
  /\ up' = [up EXCEPT ![b] = ~@]
  /\ UNCHANGED <<registry, rules, index, equal, check>>

\* ---------------------------------------------------------------------- routing

\* _get_available_brokers: the flag, or else what the broker says.
Available == Selected(table, {b \in Registered : metrics[b].flag \/ up[b]})

\* The strategy of the first rule that matches, or the one asked for.  A rule
\* without a condition matches every context.
Chosen(context, strategy) ==
  LET hits == {i \in 1..Len(rules) : rules[i].context \in {0, context}}
  IN IF hits = {} THEN strategy ELSE rules[Min(hits)].strategy

\* min and max take the first of the best.
FirstBest(names, better(_, _)) ==
  CHOOSE i \in 1..Len(names) :
    /\ \A k \in 1..Len(names) : ~better(names[k], names[i])
    /\ \A k \in 1..(i - 1) : better(names[i], names[k])

Whole(name, q) == [ok |-> TRUE, names |-> <<name>>, parts |-> <<q>>, scale |-> 1]

\* _split_order into equal parts, each q / n.
EqualParts(q, n) == [scale |-> n, parts |-> [i \in 1..n |-> q]]

\* mutant: every share is cut to whole units, and the last is not the remainder
WeightedParts_NoRemainder(q, w) ==
  LET total == Total(w)
  IN [scale |-> total, parts |-> [i \in 1..Len(w) |-> ((q * w[i]) \div total) * total]]

\* _split_order by weights: a share is at least one unit, and the last part is
\* what remains, or nothing.
WeightedParts(q, w) ==
  LET total == Total(w)
      share(i) == IF q * w[i] < total THEN total ELSE q * w[i]
      firsts == [i \in 1..(Len(w) - 1) |-> share(i)]
      rest == q * total - Total(firsts)
  IN [scale |-> total, parts |-> Append(firsts, IF rest < 0 THEN 0 ELSE rest)]

Parts(names, split) ==
  [ok |-> TRUE, names |-> names, parts |-> split.parts, scale |-> split.scale]

\* _route_split; without equal parts it has no weights to give, and raises.
RouteSplit(q, names) ==
  LET n == Len(names)
  IN IF n = 1 \/ q < MinSplit THEN Whole(names[1], q)
     ELSE LET parts == IF n < MaxParts THEN n ELSE MaxParts
          IN IF parts <= 1 THEN Parts(names, [scale |-> 1, parts |-> <<q>>])
             ELSE IF equal THEN Parts(names, EqualParts(q, parts))
             ELSE NoResult

\* _route_volume_weighted: by the orders each broker filled; a single weight is
\* no split at all.
RouteVolume(q, names) ==
  LET w == [i \in 1..Len(names) |-> metrics[names[i]].filled]
  IN IF Total(w) = 0 THEN RouteSplit(q, names)
     ELSE IF Len(names) = 1 THEN Whole(names[1], q)
     ELSE Parts(names, WeightedParts(q, w))

\* The strategies that choose one broker.
Best(strategy, names) ==
  CASE strategy = "cost" ->
         names[FirstBest(names, LAMBDA a, b : metrics[a].cost < metrics[b].cost)]
    [] strategy = "latency" ->
         names[FirstBest(names, LAMBDA a, b : metrics[a].latency < metrics[b].latency)]
    [] strategy = "fill_rate" ->
         names[FirstBest(names, LAMBDA a, b : metrics[a].rate[1] * metrics[b].rate[2] >
                                              metrics[b].rate[1] * metrics[a].rate[2])]
    [] strategy = "fixed" -> IF Contains(names, FixedName) THEN FixedName ELSE names[1]
    [] strategy = "round_robin" -> names[(index % Len(names)) + 1]

\* The RoutingResult that route_order returns: rules, then the strategy over the
\* brokers available.
RoutingResult(q, context, wanted) ==
  LET strategy == Chosen(context, wanted)
      names == Available
  IN IF names = << >> THEN NoResult
     ELSE CASE strategy = "split" -> RouteSplit(q, names)
            [] strategy = "volume" -> RouteVolume(q, names)
            [] OTHER -> Whole(Best(strategy, names), q)

\* route_order changes nothing but the round robin's index, which advances modulo
\* the brokers available now.
Route(context, wanted) ==
  /\ Chosen(context, wanted) = "round_robin" /\ Available # << >>
  /\ index' = ((index % Len(Available)) + 1) % Len(Available)
  /\ UNCHANGED <<registry, up, rules, equal, check, changes>>

\* ------------------------------------------------------------ connectivity check

\* The entries the iterator of check c has not reached.
Ahead(c) == {i \in 1..Len(table) : i > c.pos /\ table[i] # 0}

\* mutant: the iteration stops after the items it began with, and never looks at
\* the size of the dictionary
Ended_NoSizeCheck(c) == IF c.left = 0 \/ Ahead(c) = {} THEN "returned" ELSE "asking"

\* The iterator raises when the size is not what it was, ends behind the last
\* entry, and raises at an entry more than there were.
Ended(c) ==
  IF Cardinality(Registered) # c.size THEN "raised"
  ELSE IF Ahead(c) = {} THEN "returned"
  ELSE IF c.left = 0 THEN "raised" ELSE "asking"

\* The check goes on with the next entry, or ends.
NextItem(c) ==
  LET i == Min(Ahead(c))
  IN IF Ended(c) = "asking"
     THEN [c EXCEPT !.at = "asking", !.name = table[i], !.pos = i, !.left = c.left - 1]
     ELSE [c EXCEPT !.at = Ended(c)]

StartCheck ==
  /\ check.at # "asking"
  /\ LET n == Cardinality(Registered)
     IN check' = NextItem([NoCheck EXCEPT !.left = n, !.size = n])
  /\ UNCHANGED <<registry, up, rules, index, equal, changes>>

\* A broker answers in its executor, or the wait for it times out.  A name that
\* was unregistered meanwhile has no metrics: the KeyError leaves the check.
Answer ==
  /\ check.at = "asking"
  /\ LET asked == [check EXCEPT !.visited = check.visited \union {check.name}]
     IN IF check.name \in Registered
        THEN /\ \E answer \in {up[check.name], FALSE} :
                  metrics' = [metrics EXCEPT ![check.name].flag = answer]
             /\ check' = NextItem(asked)
        ELSE metrics' = metrics /\ check' = [asked EXCEPT !.at = "raised"]
  /\ UNCHANGED <<table, room, up, rules, index, equal, changes>>

\* The rules explored.
Rules == [context : {0}, strategy : {"split"}, priority : {0}]
           \union [context : Contexts, strategy : {"round_robin"}, priority : {0, 1}]

Next ==
  \/ \E b \in Brokers :
       \/ Register(b) \/ Unregister(b) \/ Flip(b)
       \/ \E flag \in BOOLEAN : UpdateConnectivity(b, flag) \/ Record(b, flag)
       \/ \E cost \in 0..1 : UpdateMetrics(b, cost, 1 - cost)
  \/ \E rule \in Rules : AddRule(rule) \/ RemoveRule(rule)
  \/ \E c \in Contexts, s \in Strategies : Route(c, s)
  \/ StartCheck \/ Answer

Spec == Init /\ [][Next]_vars

-----------------------------------------------------------------------------
\* The shape of the router's state; one entry for each broker.
TypeOK ==
  /\ Registered \subseteq Brokers
  /\ \A i, j \in 1..Len(table) : table[i] = table[j] /\ table[i] # 0 => i = j
  /\ \A b \in Brokers :
       /\ metrics[b].flag \in BOOLEAN /\ {metrics[b].cost, metrics[b].latency} \subseteq Nat
       /\ metrics[b].filled \in 0..metrics[b].total
  /\ up \in [Brokers -> BOOLEAN]
  /\ ToSet(rules) \subseteq Rules
  /\ \A i, j \in 1..Len(rules) : i < j => rules[i].priority >= rules[j].priority
  /\ index \in Nat /\ equal \in BOOLEAN
  /\ check.at \in {"idle", "asking", "returned", "raised"}
  /\ changes \in 0..MaxChanges

\* The parts of a routed order add up to the order at least, and to less than a
\* unit more for every part that was rounded up to one unit.
PartsCoverOrder ==
  \A q \in 1..MaxQuantity, c \in Contexts, s \in Strategies :
    LET r == RoutingResult(q, c, s)
        sum == Total(r.parts)
    IN r.ok => /\ sum >= q * r.scale
               /\ sum <= (q + Len(r.parts) - 1) * r.scale
               /\ Len(r.parts) <= Len(r.names)

\* A connectivity check that returns ("Check connectivity for all registered
\* brokers") has asked every broker registered then: what was registered while it
\* waited is either asked or makes it raise.  This holds unless the dictionary was
\* rebuilt meanwhile.  Then the iterator goes on from the place it had in the old
\* list: with A to E registered and A being asked, unregistering A and registering
\* F keeps the size and closes the hole, and B is never asked.
CheckIsComplete ==
  [][check.at = "asking" /\ check'.at = "returned" /\ ~check'.rebuilt =>
       Registered \subseteq check'.visited]_vars
=============================================================================
