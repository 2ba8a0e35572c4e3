---------------------------- MODULE BrokersProofs ----------------------------
(***************************************************************************)
(* Proofs about Brokers, for any constants: an inductive invariant for     *)
(* each adapter, and what follows from them for every state of BrokersSpec. *)
(***************************************************************************)
EXTENDS Brokers, Lists, FiniteSetTheorems, SequenceTheorems, WellFoundedInduction,
        NaturalsInduction, TLAPS

-----------------------------------------------------------------------------
(* The IG adapter.                                                         *)

(* What the adapter holds of a call, and what its stage says of it.        *)
Calls == [op : Ops \union {"none"}, stage : Stages, order : Orders \union {0}, deal : Nat,
          ref : Nat, side : {"none", "BUY", "SELL"}, tries : 0..RetryAttempts,
          polls : 0..MaxPolls, wire : Wires, tok : 0..MaxLogins,
          ans : Answers \union {"none"}, body : SUBSET Nat]

Ends == {"cancel", "update", "close"}

(* A call, with the references R and the deals D of the exchange.          *)
Shaped(j, R, D) ==
  /\ j \in Calls
  /\ j.deal \in 0..Len(D) /\ j.ref \in 0..Len(R)
  /\ j = Idle \/ (j.wire # "none" /\ j.stage # "idle")
  /\ j.body \subseteq 0..Len(D)
  /\ j.stage \in {"positions", "orders"} => j.body \subseteq 1..Len(D)

Staged(j, R, D) ==
  /\ j.stage = "create" => j.op = "submit"
  /\ j.stage = "accounts" => j.op = "connect"
  /\ j.stage \in {"close", "delete", "find"} => j.op \in Ends
  /\ j.stage = "confirm" => j.op \in Ends \union {"submit"}
  /\ j.op \in {"submit", "update"} => j.order \in Orders
  /\ j.op \in Ends => j.deal \in 1..Len(D)
  /\ j.stage \in {"create", "close", "delete", "confirm"} => j.ref \in 1..Len(R)

(* What the exchange accepted for the call is what the call asked for.     *)
Answering(j, R, D) ==
  /\ j.op = "submit" /\ j.stage \in {"create", "confirm"} /\ R[j.ref].state = "accepted" =>
       R[j.ref].deal \in 1..Len(D) /\ D[R[j.ref].deal].order = j.order
  /\ j.op \in Ends /\ j.stage \in {"close", "delete", "confirm"} /\ R[j.ref].state = "accepted" =>
       ~D[j.deal].open
  /\ j.op \in Ends /\ j.stage \in {"positions", "orders"} => ~D[j.deal].open

Served(j, R, D) == Shaped(j, R, D) /\ Staged(j, R, D) /\ Answering(j, R, D)

JobsInv ==
  /\ DOMAIN job = Tasks
  /\ \A t \in Tasks : Served(job[t], refs, deals)

(* No two calls use one deal reference.                                    *)
RefsInv == \A t, u \in Tasks : t # u /\ job[t].ref # 0 => job[t].ref # job[u].ref

BooksInv ==
  /\ connected \in BOOLEAN /\ token \in 0..MaxLogins
  /\ positions \subseteq 1..Len(deals) /\ working \subseteq 1..Len(deals)
  /\ session \in 0..MaxLogins /\ logins \in 0..MaxLogins
  /\ deals \in Seq([order : Orders, ref : Nat, open : BOOLEAN])
  /\ \A d \in 1..Len(deals) : deals[d].ref \in 1..Len(refs)
  /\ refs \in Seq([state : Confirmations, deal : Nat])
  /\ \A r \in 1..Len(refs) : refs[r].deal \in 0..Len(deals)
  /\ submits \in [Orders -> 0..MaxSubmits + 1]
  /\ calls \in 0..MaxCalls /\ faults \in 0..MaxFaults

IdsInv ==
  /\ brokerId \in [Orders -> 0..Len(deals)]
  /\ TrackedIsDealt

(* The calls that may still open a deal for an order.                      *)
Opens(j, R, o) ==
  /\ j.order = o
  /\ \/ j.op = "update"
     \/ j.stage = "create" /\ R[j.ref].state = "unknown"
Pending(o) == {t \in Tasks : Opens(job[t], refs, o)}
Dealt(o) == {d \in 1..Len(deals) : deals[d].order = o}

(* Each submit_order has opened its deal, may still open it, or never will. *)
CountInv ==
  \A o \in Orders :
    /\ IsFiniteSet(Pending(o))
    /\ Cardinality(Dealt(o)) + Cardinality(Pending(o)) <= submits[o]

IgInv == JobsInv /\ RefsInv /\ BooksInv /\ IdsInv /\ CountInv

-----------------------------------------------------------------------------
LEMMA OneMore ==
  ASSUME NEW S, NEW x, IsFiniteSet(S)
  PROVE  IsFiniteSet(S \union {x}) /\ Cardinality(S \union {x}) <= Cardinality(S) + 1
<1>1. Cardinality(S) \in Nat
  BY FS_CardinalityType
<1>2. CASE x \in S
  BY <1>1, <1>2, FS_AddElement
<1>3. CASE x \notin S
  BY <1>1, <1>3, FS_AddElement
<1>4. QED BY <1>2, <1>3

LEMMA IdleServed ==
  ASSUME NEW R, NEW D, Len(R) \in Nat, Len(D) \in Nat
  PROVE  Served(Idle, R, D) /\ Idle \in Calls
<1>1. Idle \in Calls
  BY IgConstants DEF Idle, Calls, Stages, Wires
<1>2. QED BY <1>1 DEF Idle, Served, Shaped, Staged, Answering, Ends

LEMMA RequestFields ==
  ASSUME NEW j \in Calls, NEW stage \in Stages \ {"idle"}, NEW tok \in 0..MaxLogins
  PROVE  LET k == Request(j, stage, tok)
         IN /\ k \in Calls /\ k.op = j.op /\ k.order = j.order /\ k.deal = j.deal /\ k.ref = j.ref
            /\ k.side = j.side /\ k.polls = j.polls /\ k.stage = stage /\ k.body = {}
            /\ k.wire # "none"
<1> DEFINE w == IF tok = 0 THEN "login" ELSE "out"
<1>1. w \in Wires /\ w # "none" /\ 1 \in 0..RetryAttempts /\ {} \in SUBSET Nat
  BY IgConstants DEF Wires
<1> HIDE DEF w
<1>2. Request(j, stage, tok) = [j EXCEPT !.stage = stage, !.tries = 1, !.tok = tok, !.ans = "none",
                                         !.body = {}, !.wire = w]
  BY DEF Request, w
<1>3. QED BY <1>1, <1>2 DEF Calls

(* A request is served when its stage fits the call.                       *)
LEMMA RequestServed ==
  ASSUME NEW R, NEW D, Len(R) \in Nat, Len(D) \in Nat,
         NEW j \in Calls, NEW stage \in Stages \ {"idle"}, NEW tok \in 0..MaxLogins,
         j.deal \in 0..Len(D), j.ref \in 0..Len(R),
         Staged([j EXCEPT !.stage = stage], R, D), Answering([j EXCEPT !.stage = stage], R, D)
  PROVE  Served(Request(j, stage, tok), R, D)
<1> DEFINE k == Request(j, stage, tok)
           i == [j EXCEPT !.stage = stage]
<1>1. /\ k \in Calls /\ k.op = j.op /\ k.order = j.order /\ k.deal = j.deal /\ k.ref = j.ref
      /\ k.stage = stage /\ k.body = {} /\ k.wire # "none"
  BY RequestFields
<1>2. i.op = j.op /\ i.order = j.order /\ i.deal = j.deal /\ i.ref = j.ref /\ i.stage = stage
  BY DEF Calls
<1> HIDE DEF k, i
<1>3. Shaped(k, R, D)
  BY <1>1 DEF Shaped
<1>4. Staged(k, R, D)
  BY <1>1, <1>2 DEF Staged, i
<1>5. Answering(k, R, D)
  BY <1>1, <1>2 DEF Answering, i
<1>6. QED BY <1>3, <1>4, <1>5 DEF Served, k

(* What another call does leaves a call served.                            *)
LEMMA StaysServed ==
  ASSUME NEW R, NEW D, NEW R2, NEW D2, NEW j,
         Len(R) \in Nat, Len(R2) \in Nat, Len(D) \in Nat, Len(D2) \in Nat,
         Served(j, R, D), Len(R) <= Len(R2), Len(D) <= Len(D2),
         j.ref \in 1..Len(R) => R2[j.ref] = R[j.ref],
         \A r \in 1..Len(R) : R[r].deal \in 0..Len(D),
         \A d \in 1..Len(D) : D2[d].order = D[d].order /\ (D2[d].open => D[d].open)
  PROVE  Served(j, R2, D2)
<1>1. Shaped(j, R2, D2)
  BY DEF Served, Shaped, Calls
<1>2. Staged(j, R2, D2)
  BY DEF Served, Staged, Shaped, Calls
<1>3. Answering(j, R2, D2)
  <2>1. /\ j.stage \in {"create", "close", "delete", "confirm"} => j.ref \in 1..Len(R)
        /\ j.op \in Ends => j.deal \in 1..Len(D)
    BY DEF Served, Staged
  <2>2. j.op = "submit" /\ j.stage \in {"create", "confirm"} /\ R2[j.ref].state = "accepted" =>
           R2[j.ref].deal \in 1..Len(D2) /\ D2[R2[j.ref].deal].order = j.order
    BY <2>1 DEF Served, Answering
  <2>3. j.op \in Ends /\ j.stage \in {"close", "delete", "confirm"} /\ R2[j.ref].state = "accepted" =>
           ~D2[j.deal].open
    BY <2>1 DEF Served, Answering
  <2>4. j.op \in Ends /\ j.stage \in {"positions", "orders"} => ~D2[j.deal].open
    BY <2>1 DEF Served, Answering
  <2>5. QED BY <2>2, <2>3, <2>4 DEF Answering
<1>4. QED BY <1>1, <1>2, <1>3 DEF Served

-----------------------------------------------------------------------------
(* One call goes from job[t] to j; the exchange at most answers its own    *)
(* reference, hands out new ones, opens and closes deals.                  *)
Goes(t, j) ==
  /\ job' = [job EXCEPT ![t] = j]
  /\ Len(refs) <= Len(refs') /\ Len(refs') \in Nat
  /\ Len(deals) <= Len(deals') /\ Len(deals') \in Nat
  /\ \A r \in 1..Len(refs) : r = job[t].ref \/ refs'[r] = refs[r]
  /\ \A d \in 1..Len(deals) :
       deals'[d].order = deals[d].order /\ (deals'[d].open => deals[d].open)
  /\ j.ref = 0 \/ j.ref = job[t].ref \/ j.ref > Len(refs)
  /\ Served(j, refs', deals')

LEMMA GoesJobs ==
  ASSUME IgInv, NEW t \in Tasks, NEW j, Goes(t, j)
  PROVE  JobsInv' /\ RefsInv' /\ (\A u \in Tasks \ {t} : job'[u] = job[u]) /\ job'[t] = j
<1>1. /\ DOMAIN job' = Tasks /\ job'[t] = j
      /\ \A u \in Tasks \ {t} : job'[u] = job[u]
  BY DEF Goes, IgInv, JobsInv
<1>2. Len(refs) \in Nat /\ Len(deals) \in Nat
  BY LenProperties DEF IgInv, BooksInv
<1>3. ASSUME NEW u \in Tasks PROVE Served(job[u], refs, deals) /\ job[u].ref \in 0..Len(refs)
  BY DEF IgInv, JobsInv, Served, Shaped
<1>4. ASSUME NEW u \in Tasks \ {t} PROVE Served(job[u], refs', deals')
  <2>1. job[u].ref \in 1..Len(refs) => refs'[job[u].ref] = refs[job[u].ref]
    BY <1>2 DEF IgInv, RefsInv, Goes
  <2>2. \A r \in 1..Len(refs) : refs[r].deal \in 0..Len(deals)
    BY DEF IgInv, BooksInv
  <2>3. QED BY <2>1, <2>2, <1>2, <1>3, StaysServed DEF Goes
<1>5. JobsInv'
  BY <1>1, <1>4 DEF JobsInv, Goes
<1>6. RefsInv'
  <2> SUFFICES ASSUME NEW u \in Tasks, NEW v \in Tasks, u # v, job'[u].ref # 0
               PROVE  job'[u].ref # job'[v].ref
    BY DEF RefsInv
  <2>1. j.ref \in Nat
    BY DEF Goes, Served, Shaped, Calls
  <2>2. job[u].ref # 0 => job[u].ref # job[v].ref
    BY DEF IgInv, RefsInv
  <2>2a. job[v].ref # 0 => job[v].ref # job[u].ref
    BY DEF IgInv, RefsInv
  <2>3. CASE u = t
    BY <2>1, <2>2, <2>2a, <2>3, <1>1, <1>2, <1>3 DEF Goes
  <2>4. CASE v = t
    BY <2>1, <2>2, <2>2a, <2>4, <1>1, <1>2, <1>3 DEF Goes
  <2>5. QED BY <2>2, <2>3, <2>4, <1>1
<1>7. QED BY <1>1, <1>5, <1>6

(* The other calls keep what they may still open.                          *)
LEMMA OthersPending ==
  ASSUME IgInv, NEW t \in Tasks, NEW j, Goes(t, j), NEW u \in Tasks \ {t}, NEW o
  PROVE  Opens(job[u], refs', o) => Opens(job[u], refs, o)
<1>1. Len(refs) \in Nat
  BY LenProperties DEF IgInv, BooksInv
<1>2. /\ job[u].stage = "create" => job[u].ref \in 1..Len(refs)
      /\ job[t].ref \in Nat
  BY DEF IgInv, JobsInv, Served, Staged, Shaped
<1>3. job[u].stage = "create" => job[u].ref # job[t].ref
  BY <1>1, <1>2 DEF IgInv, RefsInv
<1>4. job[u].stage = "create" => refs'[job[u].ref] = refs[job[u].ref]
  BY <1>2, <1>3 DEF Goes
<1>5. QED BY <1>4 DEF Opens

(* The deals of each order are as before, and a call that may open one     *)
(* more than before has been counted.                                      *)
LEMMA GoesCounted ==
  ASSUME IgInv, NEW t \in Tasks, NEW j, Goes(t, j),
         Len(deals') = Len(deals), submits' \in [Orders -> Nat],
         \A o \in Orders : submits[o] <= submits'[o],
         \A o \in Orders : Opens(j, refs', o) => Opens(job[t], refs, o) \/ submits[o] < submits'[o]
  PROVE  CountInv'
<1> SUFFICES ASSUME NEW o \in Orders
             PROVE  /\ IsFiniteSet(Pending(o)')
                    /\ Cardinality(Dealt(o)') + Cardinality(Pending(o)') <= submits'[o]
  BY DEF CountInv
<1>1. /\ IsFiniteSet(Pending(o)) /\ Cardinality(Dealt(o)) + Cardinality(Pending(o)) <= submits[o]
      /\ submits[o] \in Nat
  BY DEF IgInv, CountInv, BooksInv
<1>2. Dealt(o)' = Dealt(o)
  BY DEF Dealt, Goes
<1>3. Pending(o)' \subseteq Pending(o) \union {t}
  BY OthersPending, GoesJobs DEF Pending
<1>4. t \in Pending(o)' => t \in Pending(o) \/ submits[o] < submits'[o]
  BY GoesJobs DEF Pending
<1>5. IsFiniteSet(Dealt(o)) /\ Cardinality(Dealt(o)) \in Nat
  <2>1. IsFiniteSet(1..Len(deals))
    BY FS_Interval, LenProperties DEF IgInv, BooksInv
  <2>2. QED BY <2>1, FS_Subset, FS_CardinalityType DEF Dealt
<1>6. Cardinality(Pending(o)) \in Nat
  BY <1>1, FS_CardinalityType
<1>7. CASE Pending(o)' \subseteq Pending(o)
  <2>1. IsFiniteSet(Pending(o)') /\ Cardinality(Pending(o)') <= Cardinality(Pending(o))
    BY <1>1, <1>7, FS_Subset
  <2>2. Cardinality(Pending(o)') \in Nat
    BY <2>1, FS_CardinalityType
  <2>3. submits'[o] \in Nat /\ submits[o] <= submits'[o]
    OBVIOUS
  <2>4. QED BY <1>1, <1>2, <1>5, <1>6, <2>1, <2>2, <2>3
<1>8. CASE ~(Pending(o)' \subseteq Pending(o))
  <2>1. submits[o] < submits'[o] /\ submits'[o] \in Nat
    BY <1>3, <1>4, <1>8
  <2>2. IsFiniteSet(Pending(o) \union {t}) /\ Cardinality(Pending(o) \union {t}) <= Cardinality(Pending(o)) + 1
    BY <1>1, OneMore
  <2>3. IsFiniteSet(Pending(o)') /\ Cardinality(Pending(o)') <= Cardinality(Pending(o) \union {t})
    BY <2>2, <1>3, FS_Subset
  <2>4. Cardinality(Pending(o)') \in Nat /\ Cardinality(Pending(o) \union {t}) \in Nat
    BY <2>2, <2>3, FS_CardinalityType
  <2>5. QED BY <1>1, <1>2, <1>5, <1>6, <2>1, <2>2, <2>3, <2>4
<1>9. QED BY <1>7, <1>8

-----------------------------------------------------------------------------
(* The adapter's own steps: a call goes on, returns, or is retried.  They  *)
(* open no deal and hand out at most one reference.                        *)
Moves(t, j) ==
  /\ job' = [job EXCEPT ![t] = j]
  /\ refs' = refs \/ refs' = Append(refs, [state |-> "unknown", deal |-> 0])
  /\ j.ref = 0 \/ j.ref = job[t].ref \/ (j.ref = Len(refs) + 1 /\ refs' # refs)
  /\ Served(j, refs', deals)
  /\ \A o \in Orders : Opens(j, refs', o) => Opens(job[t], refs, o)

Handed == Append(refs, [state |-> "unknown", deal |-> 0])

LEMMA HandedOut ==
  ASSUME BooksInv
  PROVE  /\ Len(refs) \in Nat /\ Len(deals) \in Nat
         /\ Handed \in Seq([state : Confirmations, deal : Nat]) /\ Len(Handed) = Len(refs) + 1
         /\ \A r \in 1..Len(refs) : Handed[r] = refs[r]
         /\ Handed[Len(refs) + 1] = [state |-> "unknown", deal |-> 0]
         /\ Handed # refs
<1>1. /\ refs \in Seq([state : Confirmations, deal : Nat]) /\ Len(refs) \in Nat /\ Len(deals) \in Nat
      /\ [state |-> "unknown", deal |-> 0] \in [state : Confirmations, deal : Nat]
  BY LenProperties DEF BooksInv, Confirmations
<1>2. QED BY <1>1, AppendProperties DEF Handed

LEMMA MovesHolds ==
  ASSUME IgInv, NEW t \in Tasks, NEW j, Moves(t, j), deals' = deals, submits' = submits
  PROVE  /\ JobsInv' /\ RefsInv' /\ CountInv'
         /\ refs' \in Seq([state : Confirmations, deal : Nat])
         /\ Len(refs) <= Len(refs') /\ Len(refs') \in Nat
         /\ \A r \in 1..Len(refs') : refs'[r].deal \in 0..Len(deals)
<1>1. BooksInv /\ Len(refs) \in Nat /\ Len(deals) \in Nat
  BY HandedOut DEF IgInv
<1>2. /\ refs' \in Seq([state : Confirmations, deal : Nat])
      /\ Len(refs') \in Nat /\ Len(refs) <= Len(refs')
      /\ \A r \in 1..Len(refs) : refs'[r] = refs[r]
      /\ \A r \in 1..Len(refs') : refs'[r].deal \in 0..Len(deals)
  <2>1. CASE refs' = refs
    BY <2>1, <1>1 DEF BooksInv
  <2>2. CASE refs' = Handed
    <3>1. \A r \in 1..Len(refs) : refs[r].deal \in 0..Len(deals)
      BY <1>1 DEF BooksInv
    <3>2. \A r \in 1..(Len(refs) + 1) : r \in 1..Len(refs) \/ r = Len(refs) + 1
      BY <1>1
    <3>3. /\ Handed \in Seq([state : Confirmations, deal : Nat]) /\ Len(Handed) = Len(refs) + 1
          /\ \A r \in 1..Len(refs) : Handed[r] = refs[r]
          /\ Handed[Len(refs) + 1] = [state |-> "unknown", deal |-> 0]
      BY <1>1, HandedOut
    <3>4. \A r \in 1..Len(Handed) : Handed[r].deal \in 0..Len(deals)
      <4>1. Handed[Len(refs) + 1].deal \in 0..Len(deals)
        BY <1>1, <3>3
      <4>2. QED BY <3>1, <3>2, <3>3, <4>1
    <3>5. /\ Len(Handed) \in Nat /\ Len(refs) <= Len(Handed)
      BY <1>1, <3>3
    <3>6. QED BY <2>2, <3>3, <3>4, <3>5
  <2>3. QED BY <2>1, <2>2 DEF Moves, Handed
<1>3. Goes(t, j)
  <2>1. \A d \in 1..Len(deals) :
          deals'[d].order = deals[d].order /\ (deals'[d].open => deals[d].open)
    OBVIOUS
  <2>2. j.ref = 0 \/ j.ref = job[t].ref \/ j.ref > Len(refs)
    BY <1>1 DEF Moves
  <2>3. QED BY <1>1, <1>2, <2>1, <2>2 DEF Goes, Moves
<1>4. CountInv'
  <2>1. submits \in [Orders -> Nat] /\ \A o \in Orders : submits[o] <= submits'[o]
    BY IgConstants, <1>1 DEF BooksInv
  <2>2. QED BY <1>3, <2>1, GoesCounted DEF Moves
<1>5. QED BY <1>2, <1>3, <1>4, GoesJobs

(* A call's reference is new: nothing has been answered to it.             *)
LEMMA NewServed ==
  ASSUME IgInv, NEW j \in Calls, NEW stage \in {"create", "close", "delete"},
         NEW tok \in 0..MaxLogins, j.deal \in 0..Len(deals),
         stage = "create" => j.op = "submit" /\ j.order \in Orders,
         stage # "create" => j.op \in Ends /\ j.deal \in 1..Len(deals)
                             /\ (j.op = "update" => j.order \in Orders)
  PROVE  LET k == Request(NewReference(j), stage, tok)
         IN /\ Served(k, Handed, deals) /\ k.ref = Len(refs) + 1
            /\ k.order = j.order /\ k.op = j.op /\ k.stage = stage
<1> DEFINE i == NewReference(j)
           e == [i EXCEPT !.stage = stage]
<1>1. /\ BooksInv /\ Len(refs) \in Nat /\ Len(deals) \in Nat /\ Len(Handed) = Len(refs) + 1
      /\ Handed[Len(refs) + 1] = [state |-> "unknown", deal |-> 0]
  BY HandedOut DEF IgInv
<1>2. /\ i \in Calls /\ i.ref = Len(refs) + 1 /\ i.op = j.op /\ i.order = j.order
      /\ i.deal = j.deal
  BY <1>1 DEF NewReference, Calls
<1> HIDE DEF i
<1>3. stage \in Stages \ {"idle"}
  BY DEF Stages
<1>4. e.op = j.op /\ e.order = j.order /\ e.deal = j.deal /\ e.ref = Len(refs) + 1 /\ e.stage = stage
  BY <1>2 DEF Calls
<1> HIDE DEF e
<1>5. Staged(e, Handed, deals) /\ Answering(e, Handed, deals)
  BY <1>1, <1>4 DEF Staged, Answering, Ends
<1>6. Served(Request(i, stage, tok), Handed, deals)
  BY <1>1, <1>2, <1>3, <1>5, RequestServed DEF e
<1>7. /\ Request(i, stage, tok).ref = i.ref /\ Request(i, stage, tok).order = i.order
      /\ Request(i, stage, tok).op = i.op /\ Request(i, stage, tok).stage = stage
  BY <1>2, <1>3, RequestFields
<1>8. QED BY <1>2, <1>6, <1>7 DEF i

LEMMA ReturnMoves ==
  ASSUME IgInv, NEW t \in Tasks, NEW tok \in 0..MaxLogins, Return(t, tok)
  PROVE  \E j : Moves(t, j)
<1>1. /\ BooksInv /\ Len(refs) \in Nat /\ Len(deals) \in Nat /\ DOMAIN job = Tasks
      /\ Served(job[t], refs, deals)
  BY HandedOut DEF IgInv, JobsInv
<1>2. Idle \in Calls /\ Served(Idle, refs, deals)
  BY <1>1, IdleServed
<1>3. CASE ~(job[t].op = "update" /\ connected)
  <2>1. job' = [job EXCEPT ![t] = Idle] /\ refs' = refs
    BY <1>3 DEF Return
  <2>2. Idle.ref = 0 /\ \A o \in Orders : ~Opens(Idle, refs', o)
    BY DEF Idle, Opens
  <2>3. Moves(t, Idle)
    BY <2>1, <2>2, <1>2 DEF Moves
  <2>4. QED BY <2>3
<1>4. CASE job[t].op = "update" /\ connected
  <2> DEFINE i == [Idle EXCEPT !.op = "submit", !.order = job[t].order]
             k == Request(NewReference(i), "create", tok)
  <2>1. job' = [job EXCEPT ![t] = k] /\ refs' = Handed
    BY <1>4 DEF Return, HandOut, Handed
  <2>2. job[t].order \in Orders
    BY <1>1, <1>4 DEF Served, Staged
  <2>3. i \in Calls /\ i.op = "submit" /\ i.order = job[t].order /\ i.deal = 0
    BY <2>2, <1>2 DEF Idle, Calls, Ops
  <2> HIDE DEF i
  <2>4. Served(k, Handed, deals) /\ k.ref = Len(refs) + 1 /\ k.order = job[t].order
    BY <2>2, <2>3, <1>1, NewServed
  <2> HIDE DEF k
  <2>5. \A o \in Orders : Opens(k, refs', o) => Opens(job[t], refs, o)
    BY <2>4, <1>4 DEF Opens
  <2>6. refs' # refs
    BY <2>1, <1>1, HandedOut
  <2>7. Moves(t, k)
    BY <2>1, <2>4, <2>5, <2>6 DEF Moves, Handed
  <2>8. QED BY <2>7
<1>5. QED BY <1>3, <1>4

LEMMA GoOnMoves ==
  ASSUME IgInv, NEW t \in Tasks, NEW tok \in 0..MaxLogins, NEW j \in Calls,
         NEW stage, GoOn(t, j, stage, tok),
         j.op = job[t].op, j.order = job[t].order, j.deal = job[t].deal, j.ref = job[t].ref,
         stage # "return" =>
           /\ stage \in Stages \ {"idle", "create"}
           /\ Staged([j EXCEPT !.stage = stage], refs, deals)
           /\ Answering([j EXCEPT !.stage = stage], refs, deals)
  PROVE  \E k : Moves(t, k)
<1>1. /\ BooksInv /\ Len(refs) \in Nat /\ Len(deals) \in Nat
      /\ Served(job[t], refs, deals)
  BY HandedOut DEF IgInv, JobsInv
<1>2. CASE stage = "return"
  BY <1>2, ReturnMoves DEF GoOn
<1>3. CASE stage # "return"
  <2> DEFINE k == Request(j, stage, tok)
  <2>1. job' = [job EXCEPT ![t] = k] /\ refs' = refs
    BY <1>3 DEF GoOn
  <2>2. j.deal \in 0..Len(deals) /\ j.ref \in 0..Len(refs)
    BY <1>1 DEF Served, Shaped
  <2>3. stage \in Stages \ {"idle"} /\ stage # "create"
    BY <1>3
  <2>4. Served(k, refs, deals)
    BY <1>1, <1>3, <2>2, <2>3, RequestServed
  <2>5. k.op = job[t].op /\ k.order = job[t].order /\ k.ref = job[t].ref /\ k.stage = stage
    BY <2>3, RequestFields
  <2> HIDE DEF k
  <2>6. \A o \in Orders : Opens(k, refs', o) => Opens(job[t], refs, o)
    BY <2>3, <2>5 DEF Opens
  <2>7. Moves(t, k)
    BY <2>1, <2>4, <2>5, <2>6 DEF Moves
  <2>8. QED BY <2>7
<1>4. QED BY <1>2, <1>3

LEMMA PollAgainMoves ==
  ASSUME IgInv, NEW t \in Tasks, NEW tok \in 0..MaxLogins,
         job[t].stage = "confirm", PollAgain(t, tok)
  PROVE  \E k : Moves(t, k)
<1>1. job[t] \in Calls /\ Staged(job[t], refs, deals) /\ Answering(job[t], refs, deals)
  BY DEF IgInv, JobsInv, Served, Shaped
<1>2. CASE job[t].polls < MaxPolls
  <2> DEFINE j == [job[t] EXCEPT !.polls = @ + 1]
             e == [j EXCEPT !.stage = "confirm"]
  <2>1. GoOn(t, j, "confirm", tok)
    BY <1>2 DEF PollAgain
  <2>2. job[t].polls + 1 \in 0..MaxPolls
    BY <1>1, <1>2, IgConstants DEF Calls
  <2>3. /\ j \in Calls /\ j.op = job[t].op /\ j.order = job[t].order /\ j.deal = job[t].deal
        /\ j.ref = job[t].ref
    BY <1>1, <2>2 DEF Calls
  <2> HIDE DEF j
  <2>4. /\ e.op = job[t].op /\ e.order = job[t].order /\ e.deal = job[t].deal
        /\ e.ref = job[t].ref /\ e.stage = job[t].stage
    BY <2>3 DEF Calls
  <2>5. Staged(e, refs, deals) /\ Answering(e, refs, deals)
    <3> HIDE DEF e
    <3>1. QED BY <1>1, <2>4 DEF Staged, Answering
  <2>6. QED BY <2>1, <2>3, <2>5, GoOnMoves DEF Stages
<1>3. CASE ~(job[t].polls < MaxPolls)
  BY <1>3, ReturnMoves DEF PollAgain
<1>4. QED BY <1>2, <1>3

LEMMA AfterRefreshFits ==
  ASSUME IgInv, NEW t \in Tasks, job[t].stage \in {"positions", "orders"},
         AfterRefresh(job[t].op, job[t].stage) # "return"
  PROVE  LET e == [job[t] EXCEPT !.stage = AfterRefresh(job[t].op, job[t].stage)]
         IN /\ AfterRefresh(job[t].op, job[t].stage) \in Stages \ {"idle", "create"}
            /\ Staged(e, refs, deals) /\ Answering(e, refs, deals)
<1>1. job[t] \in Calls /\ Staged(job[t], refs, deals) /\ Answering(job[t], refs, deals)
  BY DEF IgInv, JobsInv, Served, Shaped
<1>2. AfterRefresh(job[t].op, job[t].stage) = "orders"
  BY DEF AfterRefresh
<1> DEFINE e == [job[t] EXCEPT !.stage = "orders"]
<1>3. e.op = job[t].op /\ e.order = job[t].order /\ e.deal = job[t].deal /\ e.ref = job[t].ref
      /\ e.stage = "orders"
  BY <1>1 DEF Calls
<1> HIDE DEF e
<1>4. Staged(e, refs, deals) /\ Answering(e, refs, deals)
  BY <1>1, <1>3 DEF Staged, Answering
<1>5. QED BY <1>2, <1>4 DEF e, Stages

(* A position is closed under a new reference.                             *)
LEMMA CloseMoves ==
  ASSUME IgInv, NEW t \in Tasks, NEW tok \in 0..MaxLogins, NEW side \in {"BUY", "SELL"},
         job[t].stage = "find",
         job' = [job EXCEPT ![t] = Request(NewReference([job[t] EXCEPT !.side = side]), "close", tok)],
         HandOut
  PROVE  \E k : Moves(t, k)
<1> DEFINE j == [job[t] EXCEPT !.side = side]
           k == Request(NewReference(j), "close", tok)
<1>1. /\ job[t] \in Calls /\ job[t].op \in Ends /\ job[t].deal \in 1..Len(deals)
      /\ job[t].op = "update" => job[t].order \in Orders
      /\ BooksInv
  BY DEF IgInv, JobsInv, Served, Shaped, Staged
<1>2. /\ j \in Calls /\ j.op = job[t].op /\ j.deal = job[t].deal /\ j.order = job[t].order
  BY <1>1 DEF Calls
<1> HIDE DEF j
<1>3. /\ Served(k, Handed, deals) /\ k.ref = Len(refs) + 1
      /\ k.order = job[t].order /\ k.op = job[t].op /\ k.stage = "close"
  BY <1>1, <1>2, NewServed
<1>4. job' = [job EXCEPT ![t] = k] /\ refs' = Handed
  BY DEF HandOut, Handed, j
<1> HIDE DEF k
<1>5. \A o \in Orders : Opens(k, refs', o) => Opens(job[t], refs, o)
  BY <1>3 DEF Opens
<1>6. Moves(t, k)
  BY <1>1, <1>3, <1>4, <1>5, HandedOut DEF Moves, Handed
<1>7. QED BY <1>6

LEMMA RaiseMoves ==
  ASSUME IgInv, NEW t \in Tasks, NEW tok \in 0..MaxLogins, NEW permanent \in BOOLEAN,
         Raise(t, tok, permanent)
  PROVE  \E k : Moves(t, k)
<1>1. job[t] \in Calls
  BY DEF IgInv, JobsInv, Served, Shaped
<1>2. CASE job[t].stage \in {"positions", "orders"}
  <2>1. GoOn(t, job[t], AfterRefresh(job[t].op, job[t].stage), tok)
    BY <1>2 DEF Raise
  <2>2. QED BY <1>1, <1>2, <2>1, GoOnMoves, AfterRefreshFits
<1>3. CASE job[t].stage = "confirm"
  BY <1>3, PollAgainMoves DEF Raise
<1>4. CASE job[t].stage = "find" /\ permanent
  <2>1. /\ job' = [job EXCEPT ![t] = Request(NewReference([job[t] EXCEPT !.side = "BUY"]), "close", tok)]
        /\ HandOut
    BY <1>4 DEF Raise
  <2>2. QED BY <1>4, <2>1, CloseMoves
<1>5. CASE /\ job[t].stage \notin {"positions", "orders", "confirm"}
           /\ ~(job[t].stage = "find" /\ permanent)
  BY <1>5, ReturnMoves DEF Raise
<1>6. QED BY <1>2, <1>3, <1>4, <1>5

-----------------------------------------------------------------------------
(* The actions.                                                            *)

LEMMA MovesStep ==
  ASSUME IgInv, NEW t \in Tasks, \E k : Moves(t, k), deals' = deals, submits' = submits,
         connected' \in BOOLEAN, token' \in 0..MaxLogins,
         positions' \subseteq 1..Len(deals), working' \subseteq 1..Len(deals),
         session' \in 0..MaxLogins, logins' \in 0..MaxLogins,
         calls' \in 0..MaxCalls, faults' \in 0..MaxFaults, IdsInv'
  PROVE  IgInv'
<1>1. PICK k : Moves(t, k)
  OBVIOUS
<1>2. /\ JobsInv' /\ RefsInv' /\ CountInv'
      /\ refs' \in Seq([state : Confirmations, deal : Nat])
      /\ Len(refs) <= Len(refs') /\ Len(refs') \in Nat
      /\ \A r \in 1..Len(refs') : refs'[r].deal \in 0..Len(deals)
  BY <1>1, MovesHolds
<1>3. Len(refs) \in Nat /\ BooksInv
  BY HandedOut DEF IgInv
<1>4. \A d \in 1..Len(deals) : deals[d].ref \in 1..Len(refs')
  <2> TAKE d \in 1..Len(deals)
  <2>1. deals[d].ref \in 1..Len(refs)
    BY <1>3 DEF BooksInv
  <2>2. QED BY <2>1, <1>2, <1>3
<1>5. BooksInv'
  BY <1>2, <1>3, <1>4 DEF BooksInv
<1>6. QED BY <1>2, <1>5 DEF IgInv

LEMMA AnsweredHolds ==
  ASSUME IgInv, NEW t \in Tasks, Answered(t)
  PROVE  IgInv'
<1> DEFINE j == job[t]
<1>1. /\ j \in Calls /\ Staged(j, refs, deals) /\ Answering(j, refs, deals)
      /\ j.body \subseteq 0..Len(deals)
      /\ j.stage \in {"positions", "orders"} => j.body \subseteq 1..Len(deals)
      /\ BooksInv
  BY DEF IgInv, JobsInv, Served, Shaped
<1>2. /\ connected' \in BOOLEAN /\ token' \in 0..MaxLogins
      /\ positions' \subseteq 1..Len(deals) /\ working' \subseteq 1..Len(deals)
  <2>1. connected' \in BOOLEAN
    BY <1>1 DEF Answered, BooksInv
  <2>2. token' \in 0..MaxLogins
    BY <1>1, IgConstants DEF Answered, BooksInv
  <2>3. positions' \subseteq 1..Len(deals)
    BY <1>1 DEF Answered, BooksInv
  <2>4. working' \subseteq 1..Len(deals)
    BY <1>1 DEF Answered, BooksInv
  <2>5. QED BY <2>1, <2>2, <2>3, <2>4
<1>3. /\ deals' = deals /\ submits' = submits /\ calls' = calls /\ faults' = faults
      /\ session' = session /\ logins' = logins /\ IdsInv'
  BY DEF Answered, IgInv, IdsInv, TrackedIsDealt
<1>4. j.stage # "confirm" /\ token \in 0..MaxLogins
  BY <1>1 DEF Answered, BooksInv
<1>5. \E k : Moves(t, k)
  <2>1. CASE j.stage \in {"positions", "orders"}
    <3>1. GoOn(t, j, AfterRefresh(j.op, j.stage), token)
      BY <2>1 DEF Answered
    <3>2. QED BY <1>1, <1>4, <2>1, <3>1, GoOnMoves, AfterRefreshFits
  <2>2. CASE j.stage = "accounts"
    <3> DEFINE e == [j EXCEPT !.stage = "positions"]
    <3>1. GoOn(t, j, "positions", token)
      BY <2>2 DEF Answered
    <3>2. /\ e.op = j.op /\ e.order = j.order /\ e.deal = j.deal /\ e.ref = j.ref
          /\ e.stage = "positions"
      BY <1>1 DEF Calls
    <3>3. j.op = "connect"
      BY <1>1, <2>2 DEF Staged
    <3>4. Staged(e, refs, deals) /\ Answering(e, refs, deals)
      <4> HIDE DEF e
      <4>1. QED BY <3>2, <3>3 DEF Staged, Answering, Ends
    <3>5. QED BY <1>1, <1>4, <3>1, <3>4, GoOnMoves DEF Stages
  <2>3. CASE j.stage = "find"
    <3>1. /\ job' = [job EXCEPT ![t] =
                Request(NewReference([job[t] EXCEPT !.side = Opposite(j.order)]), "close", token)]
          /\ HandOut
      BY <2>3 DEF Answered
    <3>2. Opposite(j.order) \in {"BUY", "SELL"}
      BY DEF Opposite
    <3>3. QED BY <1>4, <2>3, <3>1, <3>2, CloseMoves
  <2>4. CASE j.stage \in {"create", "close", "delete"}
    <3> DEFINE i == [j EXCEPT !.polls = 1]
               e == [i EXCEPT !.stage = "confirm"]
    <3>1. GoOn(t, i, "confirm", token)
      BY <2>4 DEF Answered
    <3>2. /\ i \in Calls /\ i.op = j.op /\ i.order = j.order /\ i.deal = j.deal /\ i.ref = j.ref
      <4>1. 1 \in 0..MaxPolls
        BY IgConstants
      <4>2. QED BY <1>1, <4>1 DEF Calls
    <3> HIDE DEF i
    <3>3. /\ e.op = j.op /\ e.order = j.order /\ e.deal = j.deal /\ e.ref = j.ref
          /\ e.stage = "confirm"
      BY <3>2 DEF Calls
    <3>4. Staged(e, refs, deals) /\ Answering(e, refs, deals)
      <4> HIDE DEF e
      <4>1. QED BY <1>1, <2>4, <3>3 DEF Staged, Answering, Ends
    <3>5. QED BY <1>4, <3>1, <3>2, <3>4, GoOnMoves DEF Stages
  <2>5. CASE j.stage = "logout"
    <3>1. job' = [job EXCEPT ![t] = Idle] /\ refs' = refs
      BY <2>5 DEF Answered
    <3>2. Len(refs) \in Nat /\ Len(deals) \in Nat
      BY <1>1, HandedOut
    <3>3. Served(Idle, refs, deals) /\ Idle.ref = 0 /\ \A o \in Orders : ~Opens(Idle, refs', o)
      BY <3>2, IdleServed DEF Idle, Opens
    <3>4. Moves(t, Idle)
      BY <3>1, <3>3 DEF Moves
    <3>5. QED BY <3>4
  <2>6. CASE j.stage = "idle"
    <3>1. j = Idle
      BY <2>6 DEF IgInv, JobsInv, Served, Shaped
    <3>2. QED BY <3>1 DEF Answered, Idle
  <2>7. QED BY <1>1, <1>4, <2>1, <2>2, <2>3, <2>4, <2>5, <2>6 DEF Calls, Stages
<1>6. QED BY <1>1, <1>2, <1>3, <1>5, MovesStep DEF BooksInv

LEMMA ConfirmedHolds ==
  ASSUME IgInv, NEW t \in Tasks, Confirmed(t)
  PROVE  IgInv'
<1> DEFINE j == job[t]
<1>1. /\ j \in Calls /\ Staged(j, refs, deals) /\ Answering(j, refs, deals)
      /\ BooksInv /\ IdsInv /\ j.stage = "confirm"
  BY DEF IgInv, JobsInv, Served, Shaped, Confirmed
<1>2. /\ deals' = deals /\ submits' = submits /\ calls' = calls /\ faults' = faults
      /\ session' = session /\ logins' = logins /\ connected' = connected /\ token' = token
      /\ positions' = positions /\ working' = working
  BY DEF Confirmed
<1>3. token \in 0..MaxLogins
  BY <1>1 DEF BooksInv
<1>4. CASE j.body = {} \/ refs[j.ref].state # "accepted"
  <2>1. IdsInv' /\ (PollAgain(t, token) \/ Return(t, token))
    BY <1>1, <1>2, <1>4 DEF Confirmed, IdsInv, TrackedIsDealt
  <2>2. \E k : Moves(t, k)
    BY <1>1, <1>3, <2>1, PollAgainMoves, ReturnMoves
  <2>3. QED BY <1>1, <1>2, <2>1, <2>2, MovesStep DEF BooksInv
<1>5. CASE j.body # {} /\ refs[j.ref].state = "accepted"
  <2> DEFINE e == [j EXCEPT !.stage = "positions"]
  <2>1. GoOn(t, j, "positions", token)
    BY <1>5 DEF Confirmed
  <2>2. /\ e.op = j.op /\ e.order = j.order /\ e.deal = j.deal /\ e.ref = j.ref
        /\ e.stage = "positions"
    BY <1>1 DEF Calls
  <2>3. Staged(e, refs, deals) /\ Answering(e, refs, deals)
    <3> HIDE DEF e
    <3>1. QED BY <1>1, <1>5, <2>2 DEF Staged, Answering, Ends
  <2>4. \E k : Moves(t, k)
    BY <1>1, <1>3, <2>1, <2>3, GoOnMoves DEF Stages
  <2>5. IdsInv'
    <3>1. CASE j.op = "submit"
      <4>1. /\ refs[j.ref].deal \in 1..Len(deals) /\ deals[refs[j.ref].deal].order = j.order
            /\ j.order \in Orders
        BY <1>1, <1>5, <3>1 DEF Answering, Staged
      <4>2. brokerId' = [brokerId EXCEPT ![j.order] = refs[j.ref].deal]
        BY <1>5, <3>1 DEF Confirmed
      <4>3. brokerId' \in [Orders -> 0..Len(deals)]
        BY <1>1, <4>1, <4>2 DEF IdsInv
      <4>4. ASSUME NEW o \in Orders, brokerId'[o] # 0 PROVE deals[brokerId'[o]].order = o
        BY <1>1, <4>1, <4>2, <4>4 DEF IdsInv, TrackedIsDealt
      <4>5. QED BY <1>2, <4>3, <4>4 DEF IdsInv, TrackedIsDealt
    <3>2. CASE j.op # "submit"
      BY <1>1, <1>2, <1>5, <3>2 DEF Confirmed, IdsInv, TrackedIsDealt
    <3>3. QED BY <3>1, <3>2
  <2>6. QED BY <1>1, <1>2, <2>4, <2>5, MovesStep DEF BooksInv
<1>6. QED BY <1>4, <1>5

LEMMA FailedHolds ==
  ASSUME IgInv, NEW t \in Tasks, Failed(t)
  PROVE  IgInv'
<1> DEFINE j == job[t]
           tok == IF j.ans = "expired" THEN 0 ELSE token
<1>1. /\ j \in Calls /\ Served(j, refs, deals) /\ Staged(j, refs, deals) /\ Answering(j, refs, deals)
      /\ BooksInv /\ IdsInv /\ DOMAIN job = Tasks /\ Len(refs) \in Nat /\ Len(deals) \in Nat
  BY HandedOut DEF IgInv, JobsInv, Served, Shaped
<1>2. /\ deals' = deals /\ submits' = submits /\ calls' = calls /\ faults' = faults
      /\ session' = session /\ logins' = logins /\ IdsInv'
  BY <1>1 DEF Failed, IdsInv, TrackedIsDealt
<1>3. tok \in 0..MaxLogins /\ 0 \in 0..MaxLogins
  BY <1>1, IgConstants DEF BooksInv
<1>4. CASE j.stage = "logout"
  <2>1. /\ connected' = FALSE /\ token' = 0 /\ positions' = {} /\ working' = {}
        /\ job' = [job EXCEPT ![t] = Idle] /\ refs' = refs
    BY <1>4 DEF Failed
  <2>2. Served(Idle, refs, deals) /\ Idle.ref = 0 /\ \A o \in Orders : ~Opens(Idle, refs', o)
    BY <1>1, IdleServed DEF Idle, Opens
  <2>3. Moves(t, Idle)
    BY <2>1, <2>2 DEF Moves
  <2>4. QED BY <1>1, <1>2, <1>3, <2>1, <2>3, MovesStep DEF BooksInv
<1>5. CASE j.stage # "logout"
  <2>1. token' = tok /\ connected' = connected /\ positions' = positions /\ working' = working
    BY <1>5 DEF Failed
  <2>2. CASE j.ans # "refused" /\ j.tries < RetryAttempts
    <3> DEFINE k == Attempt(j)
    <3>1. /\ k \in Calls /\ k.op = j.op /\ k.order = j.order /\ k.deal = j.deal /\ k.ref = j.ref
          /\ k.stage = j.stage /\ k.body = j.body /\ k.wire # "none"
      <4>1. j.tries + 1 \in 0..RetryAttempts /\ "out" \in Wires
        BY <1>1, <2>2, IgConstants DEF Calls, Wires
      <4>2. k = [j EXCEPT !.tries = j.tries + 1, !.wire = "out"]
        BY DEF Attempt
      <4> HIDE DEF k
      <4>3. QED BY <1>1, <4>1, <4>2 DEF Calls
    <3>2. job' = [job EXCEPT ![t] = k] /\ refs' = refs
      BY <1>5, <2>2, <3>1 DEF Failed
    <3> HIDE DEF k
    <3>3. Served(k, refs, deals)
      <4>1. j.stage # "idle" /\ Shaped(j, refs, deals)
        BY <1>1 DEF Failed, Served, Shaped, Idle
      <4>2. Shaped(k, refs, deals)
        BY <3>1, <4>1 DEF Shaped
      <4>3. Staged(k, refs, deals) /\ Answering(k, refs, deals)
        BY <1>1, <3>1 DEF Staged, Answering
      <4>4. QED BY <4>2, <4>3 DEF Served
    <3>4. Moves(t, k)
      BY <3>1, <3>2, <3>3 DEF Moves, Opens
    <3>5. QED BY <1>1, <1>2, <1>3, <2>1, <3>4, MovesStep DEF BooksInv
  <2>3. CASE ~(j.ans # "refused" /\ j.tries < RetryAttempts)
    <3>1. Raise(t, tok, j.ans = "refused")
      BY <1>5, <2>3 DEF Failed
    <3>2. \E k : Moves(t, k)
      BY <1>3, <3>1, RaiseMoves
    <3>3. QED BY <1>1, <1>2, <1>3, <2>1, <3>2, MovesStep DEF BooksInv
  <2>4. QED BY <2>2, <2>3
<1>6. QED BY <1>4, <1>5

LEMMA LoginHolds ==
  ASSUME IgInv, NEW t \in Tasks, Login(t)
  PROVE  IgInv'
<1> DEFINE j == job[t]
<1>1. /\ j \in Calls /\ Shaped(j, refs, deals) /\ Staged(j, refs, deals) /\ Answering(j, refs, deals)
      /\ BooksInv /\ IdsInv /\ j.wire = "login"
  BY DEF IgInv, JobsInv, Served, Shaped, Login
<1>2. /\ deals' = deals /\ submits' = submits /\ calls' = calls /\ connected' = connected
      /\ positions' = positions /\ working' = working /\ IdsInv'
  BY <1>1 DEF Login, IdsInv, TrackedIsDealt
<1>3. CASE /\ logins < MaxLogins
           /\ logins' = logins + 1 /\ session' = logins + 1 /\ token' = logins + 1
           /\ job' = [job EXCEPT ![t].wire = "out", ![t].tok = logins + 1]
           /\ refs' = refs /\ faults' = faults
  <2> DEFINE k == [j EXCEPT !.wire = "out", !.tok = logins + 1]
  <2>1. logins + 1 \in 0..MaxLogins /\ "out" \in Wires
    BY <1>1, <1>3, IgConstants DEF BooksInv, Wires
  <2>2. /\ k \in Calls /\ k.op = j.op /\ k.order = j.order /\ k.deal = j.deal /\ k.ref = j.ref
        /\ k.stage = j.stage /\ k.body = j.body /\ k.wire # "none"
    BY <1>1, <2>1 DEF Calls
  <2>3. job' = [job EXCEPT ![t] = k]
    BY <1>3 DEF IgInv, JobsInv
  <2> HIDE DEF k
  <2>4. Served(k, refs, deals)
    <3>1. j.stage # "idle"
      BY <1>1 DEF Shaped, Idle
    <3>2. Shaped(k, refs, deals)
      BY <1>1, <2>2, <3>1 DEF Shaped
    <3>3. Staged(k, refs, deals) /\ Answering(k, refs, deals)
      BY <1>1, <2>2 DEF Staged, Answering
    <3>4. QED BY <3>2, <3>3 DEF Served
  <2>5. Moves(t, k)
    BY <1>3, <2>2, <2>3, <2>4 DEF Moves, Opens
  <2>6. QED BY <1>1, <1>2, <1>3, <2>1, <2>5, MovesStep DEF BooksInv
<1>4. CASE /\ logins < MaxLogins => faults < MaxFaults
           /\ faults' = IF logins < MaxLogins THEN faults + 1 ELSE faults
           /\ Raise(t, token, TRUE)
           /\ logins' = logins /\ session' = session /\ token' = token
  <2>1. faults' \in 0..MaxFaults
    BY <1>1, <1>4, IgConstants DEF BooksInv
  <2>2. \E k : Moves(t, k)
    BY <1>1, <1>4, RaiseMoves DEF BooksInv
  <2>3. QED BY <1>1, <1>2, <1>4, <2>1, <2>2, MovesStep DEF BooksInv
<1>5. QED BY <1>3, <1>4 DEF Login

LEMMA ExpireHolds ==
  ASSUME IgInv, Expire
  PROVE  IgInv'
<1>1. BooksInv'
  <2>1. faults' \in 0..MaxFaults /\ session' \in 0..MaxLogins
    <3>1. MaxFaults \in Nat /\ MaxLogins \in Nat /\ faults \in 0..MaxFaults
      BY IgConstants DEF IgInv, BooksInv
    <3>2. QED BY <3>1 DEF Expire
  <2>2. /\ UNCHANGED <<connected, token, positions, working, brokerId, logins, deals, refs, submits, calls>>
    BY DEF Expire, client
  <2>3. QED BY <2>1, <2>2 DEF IgInv, BooksInv
<1>2. QED BY <1>1 DEF Expire, client, IgInv, JobsInv, RefsInv, IdsInv, TrackedIsDealt, CountInv,
                      Pending, Dealt

-----------------------------------------------------------------------------
(* A call is started.                                                      *)
LEMMA StartFacts ==
  ASSUME IgInv, NEW t \in Tasks
  PROVE  /\ BooksInv /\ IdsInv /\ Len(refs) \in Nat /\ Len(deals) \in Nat
         /\ Idle \in Calls /\ token \in 0..MaxLogins /\ 0 \in 0..MaxLogins
         /\ Start(t) => calls' \in 0..MaxCalls
<1>1. BooksInv /\ IdsInv /\ Len(refs) \in Nat /\ Len(deals) \in Nat
  BY HandedOut DEF IgInv
<1>2. Start(t) => calls' \in 0..MaxCalls
  <2>1. MaxCalls \in Nat /\ calls \in 0..MaxCalls
    BY <1>1, IgConstants DEF BooksInv
  <2>2. QED BY <2>1 DEF Start
<1>3. 0 \in 0..MaxLogins /\ token \in 0..MaxLogins
  BY <1>1, IgConstants DEF BooksInv
<1>4. QED BY <1>1, <1>2, <1>3, IdleServed

(* Calls that neither submit nor update.                                   *)
LEMMA StartHolds ==
  ASSUME IgInv, NEW t \in Tasks, NEW k, job[t] = Idle, job' = [job EXCEPT ![t] = k],
         refs' = refs \/ refs' = Handed,
         k.ref = 0 \/ (k.ref = Len(refs) + 1 /\ refs' = Handed),
         Served(k, refs', deals), k.op # "update" /\ k.stage # "create",
         calls' \in 0..MaxCalls,
         UNCHANGED <<client, session, logins, deals, submits, faults>>
  PROVE  IgInv'
<1>1. /\ BooksInv /\ IdsInv /\ Handed # refs
  BY HandedOut DEF IgInv
<1>2. IdsInv'
  BY <1>1 DEF IdsInv, TrackedIsDealt, client
<1>3. Moves(t, k)
  BY <1>1 DEF Moves, Opens, Handed
<1>4. QED BY <1>1, <1>2, <1>3, MovesStep DEF BooksInv, client

LEMMA QueryHolds ==
  ASSUME IgInv, NEW t \in Tasks, NEW stage \in {"positions", "orders"}, Query(t, stage)
  PROVE  IgInv'
<1> DEFINE i == [Idle EXCEPT !.op = stage]
           k == Request(i, stage, token)
<1>1. /\ BooksInv /\ Len(refs) \in Nat /\ Len(deals) \in Nat
      /\ Idle \in Calls /\ token \in 0..MaxLogins /\ calls' \in 0..MaxCalls
  BY StartFacts DEF Query
<1>2. /\ i \in Calls /\ i.op = stage /\ i.ref = 0 /\ i.deal = 0
  BY <1>1 DEF Calls, Idle, Ops
<1> HIDE DEF i
<1> DEFINE e == [i EXCEPT !.stage = stage]
<1>3. e.op = stage /\ e.stage = stage
  BY <1>2 DEF Calls
<1>4. Staged(e, refs, deals) /\ Answering(e, refs, deals)
  <2> HIDE DEF e
  <2>1. QED BY <1>3 DEF Staged, Answering, Ends
<1>5. stage \in Stages \ {"idle"}
  BY DEF Stages
<1>6. Served(k, refs, deals) /\ k.ref = 0 /\ k.op = stage /\ k.stage = stage
  BY <1>1, <1>2, <1>4, <1>5, RequestServed, RequestFields
<1>7. job[t] = Idle /\ job' = [job EXCEPT ![t] = k] /\ UNCHANGED <<client, exchange, submits, faults>>
  BY DEF Query, Start, i
<1> HIDE DEF k
<1>8. QED BY <1>1, <1>6, <1>7, StartHolds DEF exchange

LEMMA ConnectHolds ==
  ASSUME IgInv, NEW t \in Tasks, Connect(t)
  PROVE  IgInv'
<1> DEFINE i == [Idle EXCEPT !.op = "connect"]
           k == Request(i, "accounts", 0)
<1>1. /\ BooksInv /\ Len(refs) \in Nat /\ Len(deals) \in Nat
      /\ Idle \in Calls /\ 0 \in 0..MaxLogins
  BY StartFacts
<1>2. /\ i \in Calls /\ i.op = "connect" /\ i.ref = 0 /\ i.deal = 0
  BY <1>1 DEF Calls, Idle, Ops
<1> HIDE DEF i
<1> DEFINE e == [i EXCEPT !.stage = "accounts"]
<1>3. e.op = "connect" /\ e.stage = "accounts"
  BY <1>2 DEF Calls
<1>4. Staged(e, refs, deals) /\ Answering(e, refs, deals)
  <2> HIDE DEF e
  <2>1. QED BY <1>3 DEF Staged, Answering, Ends
<1>5. "accounts" \in Stages \ {"idle"}
  BY DEF Stages
<1>6. Served(k, refs, deals) /\ k.ref = 0 /\ k.op = "connect" /\ k.stage = "accounts"
  BY <1>1, <1>2, <1>4, <1>5, RequestServed, RequestFields
<1>7. /\ job[t] = Idle /\ job' = [job EXCEPT ![t] = k]
      /\ UNCHANGED <<client, exchange, submits, calls, faults>>
  BY DEF Connect, i
<1> HIDE DEF k
<1>8. calls' \in 0..MaxCalls
  BY <1>1, <1>7 DEF BooksInv
<1>9. QED BY <1>1, <1>6, <1>7, <1>8, StartHolds DEF exchange

LEMMA DisconnectHolds ==
  ASSUME IgInv, NEW t \in Tasks, Disconnect(t)
  PROVE  IgInv'
<1> DEFINE i == [Idle EXCEPT !.op = "disconnect"]
           m == Request(i, "logout", token)
           w == IF token = 0 THEN "back" ELSE "out"
           k == [m EXCEPT !.wire = w, !.ans = "ok"]
<1>1. /\ BooksInv /\ Len(refs) \in Nat /\ Len(deals) \in Nat
      /\ Idle \in Calls /\ token \in 0..MaxLogins /\ calls' \in 0..MaxCalls
  BY StartFacts DEF Disconnect
<1>2. /\ i \in Calls /\ i.op = "disconnect" /\ i.ref = 0 /\ i.deal = 0
  BY <1>1 DEF Calls, Idle, Ops
<1> HIDE DEF i
<1>3. "logout" \in Stages \ {"idle"} /\ w \in Wires \ {"none"} /\ "ok" \in Answers
  BY DEF Stages, Wires, Answers
<1> HIDE DEF w
<1>4. /\ m \in Calls /\ m.op = "disconnect" /\ m.ref = 0 /\ m.deal = 0 /\ m.stage = "logout"
      /\ m.body = {}
  BY <1>1, <1>2, <1>3, RequestFields
<1> HIDE DEF m
<1>5. /\ k \in Calls /\ k.op = "disconnect" /\ k.ref = 0 /\ k.deal = 0 /\ k.stage = "logout"
      /\ k.body = {} /\ k.wire # "none"
  BY <1>3, <1>4 DEF Calls
<1>6. /\ job[t] = Idle /\ job' = [job EXCEPT ![t] = k] /\ UNCHANGED <<client, exchange, submits, faults>>
  BY DEF Disconnect, Start, i, m, w
<1> HIDE DEF k
<1>7. Served(k, refs, deals)
  BY <1>1, <1>5 DEF Served, Shaped, Staged, Answering, Ends
<1>8. QED BY <1>1, <1>5, <1>6, <1>7, StartHolds DEF exchange

LEMMA ClosePositionHolds ==
  ASSUME IgInv, NEW t \in Tasks, NEW d \in positions, ClosePosition(t, d)
  PROVE  IgInv'
<1> DEFINE i == [Idle EXCEPT !.op = "close", !.deal = d, !.order = deals[d].order]
           k == Request(i, "find", token)
<1>1. /\ BooksInv /\ Len(refs) \in Nat /\ Len(deals) \in Nat
      /\ Idle \in Calls /\ token \in 0..MaxLogins /\ calls' \in 0..MaxCalls
  BY StartFacts DEF ClosePosition
<1>2. d \in 1..Len(deals) /\ deals[d].order \in Orders
  <2>1. d \in 1..Len(deals)
    BY <1>1 DEF BooksInv
  <2>2. deals[d] \in [order : Orders, ref : Nat, open : BOOLEAN]
    BY <1>1, <2>1, ElementOfSeq DEF BooksInv
  <2>3. QED BY <2>1, <2>2
<1>3. /\ i \in Calls /\ i.op = "close" /\ i.ref = 0 /\ i.deal = d
  <2>1. deals[d].order \in Orders \union {0} /\ d \in Nat /\ "close" \in Ops \union {"none"}
    BY <1>2 DEF Ops
  <2>2. QED BY <1>1, <2>1 DEF Calls, Idle
<1> HIDE DEF i
<1> DEFINE e == [i EXCEPT !.stage = "find"]
<1>4. e.op = "close" /\ e.stage = "find" /\ e.deal = d
  BY <1>3 DEF Calls
<1>5. Staged(e, refs, deals) /\ Answering(e, refs, deals)
  <2> HIDE DEF e
  <2>1. QED BY <1>2, <1>4 DEF Staged, Answering, Ends
<1>6. "find" \in Stages \ {"idle"}
  BY DEF Stages
<1>7. Served(k, refs, deals) /\ k.ref = 0 /\ k.op = "close" /\ k.stage = "find"
  <2>1. i.deal \in 0..Len(deals) /\ i.ref \in 0..Len(refs)
    BY <1>1, <1>2, <1>3
  <2>2. Served(k, refs, deals)
    BY <1>1, <1>3, <1>5, <1>6, <2>1, RequestServed
  <2>3. QED BY <1>1, <1>3, <1>6, <2>2, RequestFields
<1>8. job[t] = Idle /\ job' = [job EXCEPT ![t] = k] /\ UNCHANGED <<client, exchange, submits, faults>>
  BY DEF ClosePosition, Start, i
<1> HIDE DEF k
<1>9. QED BY <1>1, <1>7, <1>8, StartHolds DEF exchange

LEMMA SubmitsCounted ==
  ASSUME BooksInv, NEW o \in Orders, Submittable(o), submits' = [submits EXCEPT ![o] = @ + 1]
  PROVE  /\ submits' \in [Orders -> 0..MaxSubmits + 1] /\ submits' \in [Orders -> Nat]
         /\ \A p \in Orders : submits[p] <= submits'[p]
         /\ submits[o] < submits'[o]
<1>1. MaxSubmits \in Nat /\ submits \in [Orders -> 0..MaxSubmits + 1]
  BY IgConstants DEF BooksInv
<1>2. submits[o] + 1 \in 0..MaxSubmits + 1
  BY <1>1 DEF Submittable
<1>3. QED BY <1>1, <1>2

(* Calls that submit or update: the deal they may open has been counted.   *)
LEMMA CountedHolds ==
  ASSUME IgInv, NEW t \in Tasks, NEW k, job[t] = Idle, job' = [job EXCEPT ![t] = k],
         refs' = refs \/ refs' = Handed,
         k.ref = 0 \/ (k.ref = Len(refs) + 1 /\ refs' = Handed),
         Served(k, refs', deals), calls' \in 0..MaxCalls,
         submits' \in [Orders -> 0..MaxSubmits + 1], submits' \in [Orders -> Nat],
         \A p \in Orders : submits[p] <= submits'[p],
         \A p \in Orders : Opens(k, refs', p) => submits[p] < submits'[p],
         UNCHANGED <<client, session, logins, deals, faults>>
  PROVE  IgInv'
<1>1. /\ BooksInv /\ IdsInv /\ Len(refs) \in Nat /\ Len(deals) \in Nat
      /\ Handed \in Seq([state : Confirmations, deal : Nat]) /\ Len(Handed) = Len(refs) + 1
      /\ \A r \in 1..Len(refs) : Handed[r] = refs[r]
      /\ Handed[Len(refs) + 1] = [state |-> "unknown", deal |-> 0]
  BY HandedOut DEF IgInv
<1>2. IdsInv'
  BY <1>1 DEF IdsInv, TrackedIsDealt, client
<1>3. /\ Len(refs) <= Len(refs') /\ Len(refs') \in Nat
      /\ \A r \in 1..Len(refs) : refs'[r] = refs[r]
  BY <1>1
<1>4. Goes(t, k)
  BY <1>1, <1>3 DEF Goes
<1>5. CountInv'
  BY <1>4, GoesCounted
<1>6. \A r \in 1..Len(refs') : refs'[r].deal \in 0..Len(deals)
  <2>1. \A r \in 1..Len(refs) : refs[r].deal \in 0..Len(deals)
    BY <1>1 DEF BooksInv
  <2>2. \A r \in 1..(Len(refs) + 1) : r \in 1..Len(refs) \/ r = Len(refs) + 1
    BY <1>1
  <2>3. QED BY <2>1, <2>2, <1>1
<1>7. \A d \in 1..Len(deals) : deals[d].ref \in 1..Len(refs')
  <2> TAKE d \in 1..Len(deals)
  <2>1. deals[d].ref \in 1..Len(refs)
    BY <1>1 DEF BooksInv
  <2>2. QED BY <2>1, <1>1, <1>3
<1>8. refs' \in Seq([state : Confirmations, deal : Nat])
  BY <1>1 DEF BooksInv
<1>9. BooksInv'
  BY <1>1, <1>6, <1>7, <1>8 DEF BooksInv, client
<1>10. QED BY <1>2, <1>4, <1>5, <1>9, GoesJobs DEF IgInv

(* submit_order is counted as it starts.                                   *)
LEMMA SubmitHolds ==
  ASSUME IgInv, NEW t \in Tasks, NEW o \in Orders, Submit(t, o)
  PROVE  IgInv'
<1> DEFINE i == [Idle EXCEPT !.op = "submit", !.order = o]
           k == Request(NewReference(i), "create", token)
<1>1. /\ BooksInv /\ IdsInv /\ Len(refs) \in Nat /\ Len(deals) \in Nat
      /\ Idle \in Calls /\ token \in 0..MaxLogins /\ calls' \in 0..MaxCalls
  BY StartFacts DEF Submit
<1>2. /\ i \in Calls /\ i.op = "submit" /\ i.order = o /\ i.deal = 0
  BY <1>1 DEF Calls, Idle, Ops
<1>3. /\ job[t] = Idle /\ job' = [job EXCEPT ![t] = k] /\ refs' = Handed
      /\ submits' = [submits EXCEPT ![o] = @ + 1] /\ Submittable(o)
      /\ UNCHANGED <<client, session, logins, deals, faults>>
  BY DEF Submit, Start, HandOut, Handed
<1> HIDE DEF i
<1>4. Served(k, Handed, deals) /\ k.ref = Len(refs) + 1 /\ k.order = o
  BY <1>1, <1>2, NewServed
<1> HIDE DEF k
<1>5. /\ submits' \in [Orders -> 0..MaxSubmits + 1] /\ submits' \in [Orders -> Nat]
      /\ \A p \in Orders : submits[p] <= submits'[p]
      /\ submits[o] < submits'[o]
  BY <1>1, <1>3, SubmitsCounted
<1>6. \A p \in Orders : Opens(k, refs', p) => submits[p] < submits'[p]
  BY <1>4, <1>5 DEF Opens
<1>7. QED BY <1>1, <1>3, <1>4, <1>5, <1>6, CountedHolds

LEMMA CancelHolds ==
  ASSUME IgInv, NEW t \in Tasks, NEW o \in Orders, NEW op \in {"cancel", "update"}, Cancel(t, o, op)
  PROVE  IgInv'
<1> DEFINE j == [Idle EXCEPT !.op = op, !.order = o, !.deal = brokerId[o]]
<1>1. /\ BooksInv /\ IdsInv /\ Len(refs) \in Nat /\ Len(deals) \in Nat
      /\ Idle \in Calls /\ token \in 0..MaxLogins /\ calls' \in 0..MaxCalls
  BY StartFacts DEF Cancel
<1>2. brokerId[o] \in 1..Len(deals)
  BY <1>1 DEF IdsInv, Cancel
<1>3. /\ j \in Calls /\ j.op = op /\ j.order = o /\ j.deal = brokerId[o] /\ j.ref = 0
  <2>1. op \in Ops \union {"none"} /\ brokerId[o] \in Nat /\ o \in Orders \union {0}
    BY <1>2 DEF Ops
  <2>2. QED BY <1>1, <2>1 DEF Calls, Idle
<1>4. /\ job[t] = Idle /\ UNCHANGED <<client, session, logins, deals, faults>>
      /\ op = "update" => Submittable(o)
      /\ submits' = IF op = "update" THEN [submits EXCEPT ![o] = @ + 1] ELSE submits
  BY DEF Cancel, Start
<1>5. /\ submits' \in [Orders -> 0..MaxSubmits + 1] /\ submits' \in [Orders -> Nat]
      /\ \A p \in Orders : submits[p] <= submits'[p]
      /\ op = "update" => submits[o] < submits'[o]
  <2>1. CASE op = "update"
    BY <1>1, <1>4, <2>1, SubmitsCounted
  <2>2. CASE op # "update"
    <3>1. submits' = submits /\ submits \in [Orders -> 0..MaxSubmits + 1] /\ MaxSubmits \in Nat
      BY <1>1, <1>4, <2>2, IgConstants DEF BooksInv
    <3>2. QED BY <2>2, <3>1
  <2>3. QED BY <2>1, <2>2
<1>6. CASE brokerId[o] \in positions
  <2> DEFINE k == Request(j, "find", token)
             e == [j EXCEPT !.stage = "find"]
  <2>1. job' = [job EXCEPT ![t] = k] /\ refs' = refs
    BY <1>6 DEF Cancel
  <2> HIDE DEF j
  <2>2. e.op = op /\ e.stage = "find" /\ e.deal = brokerId[o] /\ e.order = o
    BY <1>3 DEF Calls
  <2>3. Staged(e, refs, deals) /\ Answering(e, refs, deals)
    <3> HIDE DEF e
    <3>1. QED BY <1>2, <2>2 DEF Staged, Answering, Ends
  <2>4. "find" \in Stages \ {"idle"}
    BY DEF Stages
  <2>5. j.deal \in 0..Len(deals) /\ j.ref \in 0..Len(refs)
    BY <1>1, <1>2, <1>3
  <2>6. Served(k, refs, deals)
    BY <1>1, <1>3, <2>3, <2>4, <2>5, RequestServed
  <2>7. k.ref = 0 /\ k.op = op /\ k.stage = "find" /\ k.order = o
    BY <1>1, <1>3, <2>4, RequestFields
  <2> HIDE DEF k
  <2>8. \A p \in Orders : Opens(k, refs', p) => submits[p] < submits'[p]
    BY <1>5, <2>7 DEF Opens
  <2>9. QED BY <1>1, <1>4, <1>5, <2>1, <2>6, <2>7, <2>8, CountedHolds
<1>7. CASE brokerId[o] \notin positions
  <2> DEFINE k == Request(NewReference(j), "delete", token)
  <2>1. job' = [job EXCEPT ![t] = k] /\ refs' = Handed
    BY <1>7 DEF Cancel, HandOut, Handed
  <2> HIDE DEF j
  <2>2. /\ Served(k, Handed, deals) /\ k.ref = Len(refs) + 1 /\ k.order = o /\ k.op = op
        /\ k.stage = "delete"
    <3>1. j.deal \in 0..Len(deals) /\ j.op \in Ends
      BY <1>1, <1>2, <1>3 DEF Ends
    <3>2. QED BY <1>1, <1>2, <1>3, <3>1, NewServed
  <2> HIDE DEF k
  <2>3. \A p \in Orders : Opens(k, refs', p) => submits[p] < submits'[p]
    BY <1>5, <2>2 DEF Opens
  <2>4. QED BY <1>1, <1>4, <1>5, <2>1, <2>2, <2>3, CountedHolds
<1>8. QED BY <1>6, <1>7

-----------------------------------------------------------------------------
(* The exchange.                                                           *)
Writes == {"create", "close", "delete"}

Back(j, ans, b) == [j EXCEPT !.wire = "back", !.ans = ans, !.body = b]

LEMMA ServedBack ==
  ASSUME IgInv, NEW t \in Tasks, job[t].wire = "out", NEW ans \in Answers,
         NEW b \in SUBSET (0..Len(deals)),
         job[t].stage \in {"positions", "orders"} => b \subseteq 1..Len(deals)
  PROVE  LET k == Back(job[t], ans, b)
         IN /\ Served(k, refs, deals) /\ k \in Calls
            /\ k.op = job[t].op /\ k.stage = job[t].stage /\ k.order = job[t].order
            /\ k.deal = job[t].deal /\ k.ref = job[t].ref /\ k.body = b /\ k.wire = "back"
<1> DEFINE j == job[t]
           k == Back(j, ans, b)
<1>1. /\ j \in Calls /\ Shaped(j, refs, deals) /\ Staged(j, refs, deals) /\ Answering(j, refs, deals)
      /\ Len(deals) \in Nat /\ Len(refs) \in Nat
  BY HandedOut DEF IgInv, JobsInv, Served, Shaped
<1>2. "back" \in Wires /\ b \in SUBSET Nat /\ ans \in Answers \union {"none"}
  BY <1>1 DEF Wires
<1>3. /\ k \in Calls /\ k.op = j.op /\ k.stage = j.stage /\ k.order = j.order
      /\ k.deal = j.deal /\ k.ref = j.ref /\ k.body = b /\ k.wire = "back"
  BY <1>1, <1>2 DEF Calls, Back
<1>4. j.stage # "idle"
  BY <1>1 DEF Shaped, Idle
<1>5. Shaped(k, refs, deals)
  BY <1>1, <1>3, <1>4 DEF Shaped
<1>6. Staged(k, refs, deals) /\ Answering(k, refs, deals)
  BY <1>1, <1>3 DEF Staged, Answering
<1>7. QED BY <1>3, <1>5, <1>6 DEF Served

LEMMA BodyFits ==
  ASSUME IgInv, NEW t \in Tasks
  PROVE  /\ Body(job[t]) \in SUBSET (0..Len(deals))
         /\ job[t].stage \in {"positions", "orders"} => Body(job[t]) \subseteq 1..Len(deals)
         /\ job[t].stage \in Writes => Body(job[t]) = {}
<1>1. /\ BooksInv /\ Len(deals) \in Nat /\ Staged(job[t], refs, deals)
  BY HandedOut DEF IgInv, JobsInv, Served
<1>2. \A kind : Open(kind) \subseteq 1..Len(deals)
  BY DEF Open
<1>3. job[t].stage = "confirm" => refs[job[t].ref].deal \in 0..Len(deals)
  BY <1>1 DEF Staged, BooksInv
<1>4. 1..Len(deals) \subseteq 0..Len(deals)
  BY <1>1
<1>5. QED BY <1>2, <1>3, <1>4 DEF Body, Writes

LEMMA AnsweredWithoutDeal ==
  ASSUME IgInv, NEW t \in Tasks, NEW ans \in Answers, NEW b \in SUBSET (0..Len(deals)),
         job[t].stage \in {"positions", "orders"} => b \subseteq 1..Len(deals),
         job[t].wire = "out", Reply(t, ans, b), deals' = deals, refs' = refs,
         session' \in 0..MaxLogins, faults' \in 0..MaxFaults,
         UNCHANGED <<client, logins, submits, calls>>
  PROVE  IgInv'
<1> DEFINE k == Back(job[t], ans, b)
<1>1. /\ Served(k, refs, deals)
      /\ k.op = job[t].op /\ k.stage = job[t].stage /\ k.order = job[t].order /\ k.ref = job[t].ref
  BY ServedBack
<1>2. job' = [job EXCEPT ![t] = k]
  BY DEF Reply, IgInv, JobsInv, Back
<1> HIDE DEF k
<1>3. Moves(t, k)
  BY <1>1, <1>2 DEF Moves, Opens
<1>4. BooksInv /\ IdsInv
  BY DEF IgInv
<1>5. IdsInv'
  BY <1>4 DEF IdsInv, TrackedIsDealt, client
<1>6. QED BY <1>3, <1>4, <1>5, MovesStep DEF BooksInv, client

(* What the exchange does to its books when a reference is new to it.      *)
LEMMA BooksWritten ==
  ASSUME BooksInv, NEW r \in 1..Len(refs), NEW a \in [state : Confirmations, deal : Nat],
         refs' = [refs EXCEPT ![r] = a]
  PROVE  /\ refs' \in Seq([state : Confirmations, deal : Nat]) /\ Len(refs') = Len(refs)
         /\ refs'[r] = a /\ \A i \in 1..Len(refs) : i # r => refs'[i] = refs[i]
<1>1. refs \in Seq([state : Confirmations, deal : Nat])
  BY DEF BooksInv
<1>2. QED BY <1>1, ExceptSeq

LEMMA ExecutedHolds ==
  ASSUME IgInv, NEW t \in Tasks, NEW ans \in Answers, job[t].stage \in Writes,
         job[t].wire = "out", Reply(t, ans, {}), Execute(job[t]),
         session' \in 0..MaxLogins, faults' \in 0..MaxFaults,
         UNCHANGED <<client, logins, submits, calls>>
  PROVE  IgInv'
<1> DEFINE j == job[t]
           k == Back(j, ans, {})
<1>1. /\ BooksInv /\ IdsInv /\ Len(refs) \in Nat /\ Len(deals) \in Nat
      /\ j \in Calls /\ Staged(j, refs, deals) /\ Answering(j, refs, deals) /\ j.ref \in 1..Len(refs)
  BY HandedOut DEF IgInv, JobsInv, Served, Shaped, Staged, Writes
<1>2. /\ Served(k, refs, deals) /\ k \in Calls
      /\ k.op = j.op /\ k.stage = j.stage /\ k.order = j.order
      /\ k.deal = j.deal /\ k.ref = j.ref /\ k.body = {} /\ k.wire = "back"
  <2>1. /\ {} \in SUBSET (0..Len(deals))
        /\ j.stage \in {"positions", "orders"} => {} \subseteq 1..Len(deals)
    OBVIOUS
  <2>2. QED BY <2>1, ServedBack
<1>3. job' = [job EXCEPT ![t] = k]
  BY DEF Reply, IgInv, JobsInv, Back
<1> HIDE DEF k
<1>4. CASE refs[j.ref].state # "unknown" /\ UNCHANGED <<deals, refs>>
  BY <1>4, AnsweredWithoutDeal DEF Writes
<1>5. CASE refs[j.ref].state = "unknown" /\ (\E a \in [state : Confirmations, deal : Nat] :
             /\ refs' = [refs EXCEPT ![j.ref] = a] /\ a.state # "unknown"
             /\ \/ /\ j.stage = "create" /\ a = [state |-> "accepted", deal |-> Len(deals) + 1]
                   /\ deals' = Append(deals, [order |-> j.order, ref |-> j.ref, open |-> TRUE])
                \/ /\ j.stage \in {"close", "delete"} /\ a = [state |-> "accepted", deal |-> j.deal]
                   /\ deals' = [deals EXCEPT ![j.deal].open = FALSE]
                \/ a = [state |-> "rejected", deal |-> 0] /\ deals' = deals)
  <2>1. PICK a \in [state : Confirmations, deal : Nat] :
             /\ refs' = [refs EXCEPT ![j.ref] = a] /\ a.state # "unknown"
             /\ \/ /\ j.stage = "create" /\ a = [state |-> "accepted", deal |-> Len(deals) + 1]
                   /\ deals' = Append(deals, [order |-> j.order, ref |-> j.ref, open |-> TRUE])
                \/ /\ j.stage \in {"close", "delete"} /\ a = [state |-> "accepted", deal |-> j.deal]
                   /\ deals' = [deals EXCEPT ![j.deal].open = FALSE]
                \/ a = [state |-> "rejected", deal |-> 0] /\ deals' = deals
    BY <1>5
  <2>2. /\ refs' \in Seq([state : Confirmations, deal : Nat]) /\ Len(refs') = Len(refs)
        /\ refs'[j.ref] = a /\ \A i \in 1..Len(refs) : i # j.ref => refs'[i] = refs[i]
    BY <1>1, <2>1, BooksWritten
  <2>3. /\ deals' \in Seq([order : Orders, ref : Nat, open : BOOLEAN])
        /\ Len(deals') \in Nat /\ Len(deals) <= Len(deals')
        /\ \A d \in 1..Len(deals) : /\ deals'[d].order = deals[d].order /\ deals'[d].ref = deals[d].ref
                                    /\ deals'[d].open => deals[d].open
        /\ Len(deals') = Len(deals) \/ (Len(deals') = Len(deals) + 1 /\ j.stage = "create"
             /\ deals'[Len(deals) + 1] = [order |-> j.order, ref |-> j.ref, open |-> TRUE]
             /\ a = [state |-> "accepted", deal |-> Len(deals) + 1])
        /\ a.deal \in 0..Len(deals')
        /\ j.stage \in {"close", "delete"} /\ a.state = "accepted" => ~deals'[j.deal].open
    <3>1. deals \in Seq([order : Orders, ref : Nat, open : BOOLEAN])
      BY <1>1 DEF BooksInv
    <3>2. CASE /\ j.stage = "create" /\ a = [state |-> "accepted", deal |-> Len(deals) + 1]
               /\ deals' = Append(deals, [order |-> j.order, ref |-> j.ref, open |-> TRUE])
      <4>1. [order |-> j.order, ref |-> j.ref, open |-> TRUE] \in [order : Orders, ref : Nat, open : BOOLEAN]
        BY <1>1, <3>2 DEF Staged
      <4>2. /\ deals' \in Seq([order : Orders, ref : Nat, open : BOOLEAN])
            /\ Len(deals') = Len(deals) + 1
            /\ \A d \in 1..Len(deals) : deals'[d] = deals[d]
            /\ deals'[Len(deals) + 1] = [order |-> j.order, ref |-> j.ref, open |-> TRUE]
        BY <3>1, <3>2, <4>1, AppendProperties
      <4>3. a.deal \in 0..Len(deals')
        BY <3>2, <4>2, <1>1
      <4>4. QED BY <1>1, <3>2, <4>2, <4>3
    <3>3. CASE /\ j.stage \in {"close", "delete"} /\ a = [state |-> "accepted", deal |-> j.deal]
               /\ deals' = [deals EXCEPT ![j.deal].open = FALSE]
      <4>1. j.deal \in 1..Len(deals) /\ j.op \in Ends
        BY <1>1, <3>3 DEF Staged
      <4> DEFINE e == [deals[j.deal] EXCEPT !.open = FALSE]
      <4>2. deals[j.deal] \in [order : Orders, ref : Nat, open : BOOLEAN]
        BY <3>1, <4>1, ElementOfSeq
      <4>3. /\ e \in [order : Orders, ref : Nat, open : BOOLEAN] /\ e.order = deals[j.deal].order
            /\ e.ref = deals[j.deal].ref /\ e.open = FALSE
        BY <4>2
      <4>4. deals' = [deals EXCEPT ![j.deal] = e]
        BY <3>3
      <4> HIDE DEF e
      <4>5. /\ deals' \in Seq([order : Orders, ref : Nat, open : BOOLEAN]) /\ Len(deals') = Len(deals)
            /\ deals'[j.deal] = e /\ \A d \in 1..Len(deals) : d # j.deal => deals'[d] = deals[d]
        BY <3>1, <4>1, <4>3, <4>4, ExceptSeq
      <4>6. \A d \in 1..Len(deals) :
              /\ deals'[d].order = deals[d].order /\ deals'[d].ref = deals[d].ref
              /\ deals'[d].open => deals[d].open
        BY <4>3, <4>5
      <4>7. a.deal \in 0..Len(deals') /\ Len(deals') \in Nat /\ Len(deals) <= Len(deals')
        <5>1. a.deal = j.deal
          BY <3>3
        <5>2. QED BY <5>1, <1>1, <4>1, <4>5
      <4>8. QED BY <4>3, <4>5, <4>6, <4>7
    <3>4. CASE a = [state |-> "rejected", deal |-> 0] /\ deals' = deals
      BY <1>1, <3>1, <3>4
    <3>5. QED BY <2>1, <3>2, <3>3, <3>4
  <2>4. Served(k, refs', deals')
    <3>1. Shaped(k, refs', deals')
      BY <1>1, <1>2, <2>2, <2>3 DEF Served, Shaped
    <3>2. Staged(k, refs', deals')
      BY <1>1, <1>2, <2>2, <2>3 DEF Served, Staged
    <3>3. Answering(k, refs', deals')
      <4>1. k.stage = "create" /\ a.state = "accepted" =>
               a.deal \in 1..Len(deals') /\ deals'[a.deal].order = k.order
        BY <1>1, <1>2, <2>1, <2>3
      <4>2. k.stage \in {"close", "delete"} /\ a.state = "accepted" => ~deals'[k.deal].open
        BY <1>2, <2>3
      <4>3. k.stage \in Writes
        BY <1>2
      <4>4. k.stage = "create" => k.op = "submit"
        BY <1>1, <1>2 DEF Staged
      <4>5. QED BY <1>2, <2>2, <4>1, <4>2, <4>3, <4>4 DEF Answering, Writes, Ends
    <3>4. QED BY <3>1, <3>2, <3>3 DEF Served
  <2>5. Goes(t, k)
    BY <1>1, <1>2, <1>3, <2>2, <2>3, <2>4 DEF Goes
  <2>6. JobsInv' /\ RefsInv'
    BY <2>5, GoesJobs
  <2>7. IdsInv'
    <3>1. brokerId' = brokerId /\ brokerId \in [Orders -> 0..Len(deals)]
      BY <1>1 DEF client, IdsInv
    <3>2. brokerId' \in [Orders -> 0..Len(deals')]
      BY <1>1, <2>3, <3>1
    <3>3. ASSUME NEW o \in Orders, brokerId[o] # 0 PROVE deals'[brokerId[o]].order = o
      <4>1. brokerId[o] \in 1..Len(deals)
        BY <1>1, <3>1, <3>3
      <4>2. deals[brokerId[o]].order = o
        BY <1>1, <3>3 DEF IdsInv, TrackedIsDealt
      <4>3. deals'[brokerId[o]].order = deals[brokerId[o]].order
        BY <2>3, <4>1
      <4>4. QED BY <4>2, <4>3
    <3>4. QED BY <3>1, <3>2, <3>3 DEF IdsInv, TrackedIsDealt
  <2>8. BooksInv'
    <3>1. \A d \in 1..Len(deals') : deals'[d].ref \in 1..Len(refs')
      <4> TAKE d \in 1..Len(deals')
      <4>1. CASE d \in 1..Len(deals)
        BY <4>1, <1>1, <2>2, <2>3 DEF BooksInv
      <4>2. CASE d = Len(deals) + 1
        BY <4>2, <1>1, <2>2, <2>3
      <4>3. QED BY <4>1, <4>2, <1>1, <2>3
    <3>2. \A r \in 1..Len(refs') : refs'[r].deal \in 0..Len(deals')
      <4> TAKE r \in 1..Len(refs')
      <4>1. CASE r = j.ref
        BY <4>1, <2>2, <2>3
      <4>2. CASE r # j.ref
        <5>1. refs[r].deal \in 0..Len(deals) /\ refs'[r] = refs[r]
          BY <4>2, <1>1, <2>2 DEF BooksInv
        <5>2. QED BY <5>1, <1>1, <2>3
      <4>3. QED BY <4>1, <4>2
    <3>3. positions' \subseteq 1..Len(deals') /\ working' \subseteq 1..Len(deals')
      <4>1. 1..Len(deals) \subseteq 1..Len(deals')
        BY <1>1, <2>3
      <4>2. positions' = positions /\ working' = working
        BY DEF client
      <4>3. positions \subseteq 1..Len(deals) /\ working \subseteq 1..Len(deals)
        BY <1>1 DEF BooksInv
      <4>4. QED BY <4>1, <4>2, <4>3
    <3>4. UNCHANGED <<connected, token, logins, submits, calls>>
      BY DEF client
    <3>5. /\ connected' \in BOOLEAN /\ token' \in 0..MaxLogins /\ logins' \in 0..MaxLogins
          /\ submits' \in [Orders -> 0..MaxSubmits + 1] /\ calls' \in 0..MaxCalls
      BY <1>1, <3>4 DEF BooksInv
    <3>6. /\ deals' \in Seq([order : Orders, ref : Nat, open : BOOLEAN])
          /\ refs' \in Seq([state : Confirmations, deal : Nat])
          /\ session' \in 0..MaxLogins /\ faults' \in 0..MaxFaults
      BY <2>2, <2>3
    <3>7. QED BY <3>1, <3>2, <3>3, <3>5, <3>6 DEF BooksInv
  <2>9. CountInv'
    <3>1. submits' = submits /\ submits \in [Orders -> Nat]
      BY <1>1, IgConstants DEF BooksInv
    <3>2. CASE Len(deals') = Len(deals)
      <4>1. \A o \in Orders : Opens(k, refs', o) => Opens(j, refs, o)
        BY <1>2, <1>5 DEF Opens
      <4>2. QED BY <3>1, <3>2, <4>1, <2>5, GoesCounted
    <3>3. CASE /\ Len(deals') = Len(deals) + 1 /\ j.stage = "create"
               /\ deals'[Len(deals) + 1] = [order |-> j.order, ref |-> j.ref, open |-> TRUE]
      <4> SUFFICES ASSUME NEW o \in Orders
                   PROVE  /\ IsFiniteSet(Pending(o)')
                          /\ Cardinality(Dealt(o)') + Cardinality(Pending(o)') <= submits[o]
        BY <3>1 DEF CountInv
      <4>1. /\ IsFiniteSet(Pending(o)) /\ Cardinality(Dealt(o)) + Cardinality(Pending(o)) <= submits[o]
            /\ submits[o] \in Nat
        BY <3>1 DEF IgInv, CountInv
      <4>2. IsFiniteSet(Dealt(o)) /\ Cardinality(Dealt(o)) \in Nat /\ Cardinality(Pending(o)) \in Nat
        <5>1. IsFiniteSet(1..Len(deals))
          BY <1>1, FS_Interval
        <5>2. QED BY <4>1, <5>1, FS_Subset, FS_CardinalityType DEF Dealt
      <4>3. j.op = "submit" /\ k.op = "submit" /\ k.stage = "create" /\ k.ref = j.ref
        BY <1>1, <1>2, <3>3 DEF Staged
      <4>4. ~Opens(k, refs', o)
        BY <4>3, <2>1, <2>2 DEF Opens
      <4>5. Pending(o)' \subseteq Pending(o) \ {t}
        BY <4>4, <2>5, OthersPending, GoesJobs DEF Pending
      <4>6. CASE o # j.order
        <5>1. Dealt(o)' = Dealt(o)
          BY <1>1, <2>3, <3>3, <4>6 DEF Dealt
        <5>2. IsFiniteSet(Pending(o)') /\ Cardinality(Pending(o)') <= Cardinality(Pending(o))
          BY <4>1, <4>5, FS_Subset
        <5>3. Cardinality(Pending(o)') \in Nat
          BY <5>2, FS_CardinalityType
        <5>4. QED BY <4>1, <4>2, <5>1, <5>2, <5>3
      <4>7. CASE o = j.order
        <5>1. t \in Pending(o)
          BY <4>7, <3>3, <1>5 DEF Pending, Opens
        <5>2. Dealt(o)' \subseteq Dealt(o) \union {Len(deals) + 1}
          BY <1>1, <2>3, <3>3 DEF Dealt
        <5>3. /\ IsFiniteSet(Dealt(o) \union {Len(deals) + 1})
              /\ Cardinality(Dealt(o) \union {Len(deals) + 1}) <= Cardinality(Dealt(o)) + 1
          BY <4>2, OneMore
        <5>4. Cardinality(Dealt(o)') <= Cardinality(Dealt(o) \union {Len(deals) + 1})
              /\ IsFiniteSet(Dealt(o)')
          BY <5>2, <5>3, FS_Subset
        <5>5. IsFiniteSet(Pending(o) \ {t}) /\ Cardinality(Pending(o) \ {t}) = Cardinality(Pending(o)) - 1
          BY <4>1, <5>1, FS_RemoveElement
        <5>6. IsFiniteSet(Pending(o)') /\ Cardinality(Pending(o)') <= Cardinality(Pending(o) \ {t})
          BY <4>5, <5>5, FS_Subset
        <5>7. /\ Cardinality(Dealt(o)') \in Nat /\ Cardinality(Pending(o)') \in Nat
              /\ Cardinality(Dealt(o) \union {Len(deals) + 1}) \in Nat
          BY <5>3, <5>4, <5>6, FS_CardinalityType
        <5>8. QED BY <4>1, <4>2, <5>3, <5>4, <5>5, <5>6, <5>7
      <4>8. QED BY <4>6, <4>7
    <3>4. QED BY <2>3, <3>2, <3>3
  <2>10. QED BY <2>6, <2>7, <2>8, <2>9 DEF IgInv
<1>6. QED
  <2> DEFINE accepted(d) == [state |-> "accepted", deal |-> d]
  <2>1. ASSUME NEW d \in Nat PROVE accepted(d) \in [state : Confirmations, deal : Nat]
    BY DEF Confirmations
  <2>2. [state |-> "rejected", deal |-> 0] \in [state : Confirmations, deal : Nat]
    BY DEF Confirmations
  <2>3. Len(deals) + 1 \in Nat /\ j.deal \in Nat
    BY <1>1 DEF Calls
  <2>4. CASE /\ refs[j.ref].state = "unknown" /\ j.stage = "create"
             /\ deals' = Append(deals, [order |-> j.order, ref |-> j.ref, open |-> TRUE])
             /\ refs' = [refs EXCEPT ![j.ref] = accepted(Len(deals) + 1)]
    <3>1. accepted(Len(deals) + 1) \in [state : Confirmations, deal : Nat] /\ accepted(Len(deals) + 1).state # "unknown"
      BY <2>1, <2>3
    <3>2. QED BY <1>5, <2>4, <3>1
  <2>5. CASE /\ refs[j.ref].state = "unknown" /\ j.stage \in {"close", "delete"}
             /\ deals' = [deals EXCEPT ![j.deal].open = FALSE]
             /\ refs' = [refs EXCEPT ![j.ref] = accepted(j.deal)]
    <3>1. accepted(j.deal) \in [state : Confirmations, deal : Nat] /\ accepted(j.deal).state # "unknown"
      BY <2>1, <2>3
    <3>2. QED BY <1>5, <2>5, <3>1
  <2>6. CASE /\ refs[j.ref].state = "unknown"
             /\ refs' = [refs EXCEPT ![j.ref] = [state |-> "rejected", deal |-> 0]]
             /\ deals' = deals
    BY <1>5, <2>2, <2>6
  <2>7. QED BY <1>4, <2>4, <2>5, <2>6 DEF Execute

LEMMA ExchangeHolds ==
  ASSUME IgInv, NEW t \in Tasks, Exchange(t)
  PROVE  IgInv'
<1> DEFINE j == job[t]
           writes == j.stage \in Writes
<1>1. /\ BooksInv /\ j.wire = "out" /\ UNCHANGED <<client, logins, submits, calls>>
      /\ {} \in SUBSET (0..Len(deals)) /\ {} \subseteq 1..Len(deals)
      /\ {"ok", "expired", "refused", "failed"} \subseteq Answers
  BY DEF Exchange, IgInv, Answers
<1>2. session \in 0..MaxLogins /\ 0 \in 0..MaxLogins /\ faults \in 0..MaxFaults
  BY <1>1, IgConstants DEF BooksInv
<1>3. CASE /\ IF writes THEN Execute(j) ELSE UNCHANGED <<deals, refs>>
           /\ session' = IF j.stage = "logout" THEN 0 ELSE session
           /\ Reply(t, "ok", Body(j))
           /\ UNCHANGED faults
  <2>1. session' \in 0..MaxLogins /\ faults' \in 0..MaxFaults
    BY <1>2, <1>3
  <2>2. CASE writes
    <3>1. Body(j) = {}
      BY <2>2, BodyFits
    <3>2. QED BY <1>1, <1>3, <2>1, <2>2, <3>1, ExecutedHolds
  <2>3. CASE ~writes
    BY <1>1, <1>3, <2>1, <2>3, BodyFits, AnsweredWithoutDeal
  <2>4. QED BY <2>2, <2>3
<1>4. CASE Reply(t, "expired", {}) /\ UNCHANGED <<deals, refs, session, faults>>
  BY <1>1, <1>2, <1>4, AnsweredWithoutDeal
<1>5. CASE /\ faults < MaxFaults /\ faults' = faults + 1
           /\ \/ /\ \E ans \in {"refused", "failed"} : Reply(t, ans, {})
                 /\ UNCHANGED <<deals, refs>>
              \/ /\ writes /\ Execute(j) /\ Reply(t, "failed", {})
              \/ /\ Reply(t, "ok", {}) /\ UNCHANGED <<deals, refs>>
           /\ UNCHANGED session
  <2>1. session' \in 0..MaxLogins /\ faults' \in 0..MaxFaults
    BY <1>2, <1>5, IgConstants
  <2>2. CASE writes /\ Execute(j) /\ Reply(t, "failed", {})
    BY <1>1, <2>1, <2>2, ExecutedHolds
  <2>3. CASE /\ \E ans \in {"refused", "failed", "ok"} : Reply(t, ans, {})
             /\ UNCHANGED <<deals, refs>>
    <3>1. PICK ans \in {"refused", "failed", "ok"} : Reply(t, ans, {})
      BY <2>3
    <3>2. QED BY <1>1, <2>1, <2>3, <3>1, AnsweredWithoutDeal
  <2>4. QED BY <1>5, <2>2, <2>3
<1>6. QED BY <1>3, <1>4, <1>5 DEF Exchange, Writes

-----------------------------------------------------------------------------
LEMMA IgInitHolds == Init => IgInv
<1> SUFFICES ASSUME Init PROVE IgInv
  OBVIOUS
<1> DEFINE d1 == [order |-> Held, ref |-> 1, open |-> TRUE]
           r1 == [state |-> "accepted", deal |-> 1]
<1>1. /\ d1 \in [order : Orders, ref : Nat, open : BOOLEAN]
      /\ r1 \in [state : Confirmations, deal : Nat]
  BY IgConstants DEF Confirmations
<1>2. /\ deals = <<d1>> /\ refs = <<r1>> /\ Len(deals) = 1 /\ Len(refs) = 1
      /\ deals[1] = d1 /\ refs[1] = r1 /\ deals[1].order = Held
  BY DEF Init
<1>3. /\ deals \in Seq([order : Orders, ref : Nat, open : BOOLEAN])
      /\ refs \in Seq([state : Confirmations, deal : Nat])
  BY <1>1, <1>2
<1>4. 1..Len(deals) = {1} /\ 1..Len(refs) = {1}
  BY <1>2
<1>5. positions \subseteq 1..Len(deals) /\ working \subseteq 1..Len(deals)
  BY <1>4 DEF Init
<1>6. /\ MaxLogins \in Nat \ {0} /\ MaxSubmits \in Nat \ {0} /\ MaxCalls \in Nat /\ MaxFaults \in Nat
  BY IgConstants
<1>7. BooksInv
  BY <1>2, <1>3, <1>4, <1>5, <1>6 DEF Init, BooksInv
<1>8. IdsInv
  BY <1>2, <1>4 DEF Init, IdsInv, TrackedIsDealt
<1>9. \A t \in Tasks : job[t] = Idle
  BY DEF Init
<1>10. JobsInv /\ RefsInv
  BY <1>2, <1>9, IdleServed DEF Init, JobsInv, RefsInv, Idle
<1>11. ASSUME NEW o \in Orders
       PROVE  /\ IsFiniteSet(Pending(o))
              /\ Cardinality(Dealt(o)) + Cardinality(Pending(o)) <= submits[o]
  <2>1. Pending(o) = {}
    BY <1>9 DEF Pending, Opens, Idle
  <2>2. IsFiniteSet(Pending(o)) /\ Cardinality(Pending(o)) = 0
    BY <2>1, FS_EmptySet
  <2>3. CASE o = Held
    <3>1. Dealt(o) = {1}
      BY <1>2, <1>4, <2>3 DEF Dealt
    <3>2. Cardinality(Dealt(o)) = 1
      BY <3>1, FS_Singleton
    <3>3. QED BY <2>2, <2>3, <3>2, IgConstants DEF Init
  <2>4. CASE o # Held
    <3>1. Dealt(o) = {}
      BY <1>2, <1>4, <2>4 DEF Dealt
    <3>2. Cardinality(Dealt(o)) = 0
      BY <3>1, FS_EmptySet
    <3>3. QED BY <2>2, <2>4, <3>2 DEF Init
  <2>5. QED BY <2>3, <2>4
<1>12. QED BY <1>7, <1>8, <1>10, <1>11 DEF IgInv, CountInv

LEMMA IgStepHolds == IgInv /\ [Next]_vars => IgInv'
<1> SUFFICES ASSUME IgInv, [Next]_vars PROVE IgInv'
  OBVIOUS
<1>1. CASE UNCHANGED vars
  BY <1>1 DEF vars, IgInv, JobsInv, RefsInv, BooksInv, IdsInv, TrackedIsDealt, CountInv, Pending, Dealt
<1>2. CASE Next
  BY <1>2, SubmitHolds, CancelHolds, ClosePositionHolds, QueryHolds, ConnectHolds, DisconnectHolds,
     AnsweredHolds, ConfirmedHolds, FailedHolds, LoginHolds, ExchangeHolds, ExpireHolds
     DEF Next, Receive
<1>3. QED BY <1>1, <1>2

LEMMA IgImplies ==
  ASSUME IgInv
  PROVE  TypeOK /\ OneDealPerSubmit /\ TrackedIsDealt /\ CancelledIsClosed
<1>1. /\ BooksInv /\ IdsInv /\ CountInv /\ Len(refs) \in Nat /\ Len(deals) \in Nat
      /\ \A t \in Tasks : Served(job[t], refs, deals)
  BY HandedOut DEF IgInv, JobsInv
<1>2. OneDealPerSubmit
  <2> SUFFICES ASSUME NEW o \in Orders PROVE Cardinality(Dealt(o)) <= submits[o]
    BY DEF OneDealPerSubmit, Dealt
  <2>1. /\ IsFiniteSet(Pending(o)) /\ Cardinality(Dealt(o)) + Cardinality(Pending(o)) <= submits[o]
        /\ submits[o] \in Nat
    BY <1>1 DEF CountInv, BooksInv
  <2>2. IsFiniteSet(1..Len(deals))
    BY <1>1, FS_Interval
  <2>3. Cardinality(Pending(o)) \in Nat /\ Cardinality(Dealt(o)) \in Nat
    BY <2>1, <2>2, FS_Subset, FS_CardinalityType DEF Dealt
  <2>4. QED BY <2>1, <2>3
<1>3. CancelledIsClosed
  BY <1>1 DEF CancelledIsClosed, Served, Answering, Ends
<1>4. TypeOK
  <2>1. \A d \in 1..Len(deals) : deals[d].order \in Orders /\ deals[d].ref \in 1..Len(refs)
    <3>1. deals \in Seq([order : Orders, ref : Nat, open : BOOLEAN])
      BY <1>1 DEF BooksInv
    <3>2. \A d \in 1..Len(deals) : deals[d] \in [order : Orders, ref : Nat, open : BOOLEAN]
      BY <3>1, ElementOfSeq
    <3>3. QED BY <1>1, <3>2 DEF BooksInv
  <2>2. \A r \in 1..Len(refs) : refs[r].state \in Confirmations /\ refs[r].deal \in 0..Len(deals)
    <3>1. refs \in Seq([state : Confirmations, deal : Nat])
      BY <1>1 DEF BooksInv
    <3>2. \A r \in 1..Len(refs) : refs[r] \in [state : Confirmations, deal : Nat]
      BY <3>1, ElementOfSeq
    <3>3. QED BY <1>1, <3>2 DEF BooksInv
  <2>3. ASSUME NEW t \in Tasks
        PROVE  /\ job[t].op \in Ops \union {"none"} /\ job[t].stage \in Stages
               /\ job[t].wire \in Wires /\ job[t].ans \in Answers \union {"none"}
               /\ job[t].order \in Orders \union {0} /\ job[t].deal \in 0..Len(deals)
               /\ job[t].ref \in 0..Len(refs) /\ job[t].tok \in 0..MaxLogins
               /\ job[t].tries \in 0..RetryAttempts /\ job[t].polls \in 0..MaxPolls
               /\ job[t] = Idle \/ job[t].wire # "none"
    BY <1>1 DEF Served, Shaped, Calls
  <2>4. QED BY <1>1, <2>1, <2>2, <2>3 DEF TypeOK, BooksInv, IdsInv
<1>5. QED BY <1>1, <1>2, <1>3, <1>4 DEF IdsInv

-----------------------------------------------------------------------------
(* The OANDA adapter.                                                      *)
Entries == [order : Orders, units : Int, state : {"PENDING", "FILLED", "CANCELLED"}]

(* What the adapter holds of a call.                                       *)
OCalls == [op : Oanda!Ops \union {"none"}, stage : Oanda!Stages \union {"none"},
           order : Orders \union {0}, id : Nat, tries : 0..RetryAttempts,
           wire : {"none", "out", "back", "sleep"},
           ans : {"none", "ok", "failed", "limited", "timeout", "raised"},
           body : Int \union Seq(Entries)]

(* What an answer tells the call is so in the exchange's book B.           *)
Told(j, B) ==
  /\ j.stage = "create" => j.id \in 1..Len(B) /\ B[j.id].order = j.order
  /\ j.stage = "cancel" => B[j.id].state = "CANCELLED"
  /\ j.stage = "orders" => j.body \in Seq(Entries) /\ Len(j.body) <= Len(B)
  /\ j.stage = "positions" => j.body \in Int

Sound(j, B) ==
  /\ j \in OCalls /\ j.id \in 0..Len(B)
  /\ j.wire # "none" => j.stage \in Oanda!Stages
  /\ j.stage = "create" => j.order \in Orders /\ j.tries \in 1..RetryAttempts
  /\ j.stage = "cancel" => j.id \in 1..Len(B)
  /\ j.wire = "back" /\ j.ans = "ok" => Told(j, B)

(* The attempts a submit_order of an order has left.                       *)
Left(j, o) ==
  IF j.stage = "create" /\ j.order = o
  THEN {i \in 1..RetryAttempts : i > j.tries \/ (i = j.tries /\ j.wire = "out")}
  ELSE {}
Attempts(o) == {p \in Tasks \X (1..RetryAttempts) : p[2] \in Left(oJob[p[1]], o)}
Booked(o) == {id \in 1..Len(oBook) : oBook[id].order = o}

(* The orders the exchange took and the attempts that are left come from    *)
(* the submit_order calls, with so many attempts each.                     *)
OCountInv ==
  \A o \in Orders :
    /\ IsFiniteSet(Attempts(o))
    /\ Cardinality(Booked(o)) + Cardinality(Attempts(o)) <= oSubmits[o] * RetryAttempts

OJobsInv ==
  /\ DOMAIN oJob = Tasks
  /\ \A t \in Tasks : Sound(oJob[t], oBook)

OBookInv ==
  /\ oConnected \in BOOLEAN /\ oSession \in {"none", "open", "closed"}
  /\ oPosition \in Int /\ oNet \in Int
  /\ oBook \in Seq(Entries)
  /\ oSubmits \in [Orders -> 0..MaxSubmits]
  /\ oCalls \in 0..OandaCalls /\ oFaults \in 0..OandaFaults

OCacheInv ==
  /\ DOMAIN oCached \subseteq 1..Len(oBook)
  /\ \A id \in DOMAIN oCached :
       /\ oCached[id] \in {"PENDING", "CANCELLED"}
       /\ oCached[id] = "CANCELLED" => oBook[id].state = "CANCELLED"
  /\ oOrderId \in [Orders -> 0..Len(oBook)]
  /\ \A o \in Orders : oOrderId[o] # 0 => oBook[oOrderId[o]].order = o

OandaInv == OJobsInv /\ OBookInv /\ OCacheInv /\ OCountInv

LEMMA OandaConstants ==
  /\ RetryAttempts \in Nat \ {0} /\ MaxSubmits \in Nat /\ OandaCalls \in Nat /\ OandaFaults \in Nat
  /\ Halves \in [Orders -> Nat] /\ \A o \in Orders : Oanda!SentUnits(o) \in Nat
<1>1. /\ RetryAttempts \in Nat \ {0} /\ MaxSubmits \in Nat /\ OandaCalls \in Nat /\ OandaFaults \in Nat
      /\ Halves \in [Orders -> Nat]
  BY IgConstants, PartsConstants
<1>2. ASSUME NEW o \in Orders PROVE Oanda!SentUnits(o) \in Nat
  <2>1. Halves[o] \in Nat
    BY <1>1
  <2> DEFINE h == Halves[o]
  <2> HIDE DEF h
  <2>2. h \in Nat => h \div 2 \in Nat
    OBVIOUS
  <2>3. QED BY <2>1, <2>2 DEF Oanda!SentUnits, h
<1>3. QED BY <1>1, <1>2

(* The book grows, and what is cancelled in it stays so.                   *)
Grows(B, C) ==
  /\ C \in Seq(Entries) /\ Len(C) \in Nat /\ Len(B) <= Len(C)
  /\ \A id \in 1..Len(B) :
       /\ C[id].order = B[id].order
       /\ B[id].state = "CANCELLED" => C[id].state = "CANCELLED"

LEMMA BookLen ==
  ASSUME OBookInv
  PROVE  Len(oBook) \in Nat /\ Grows(oBook, oBook)
BY LenProperties DEF OBookInv, Grows

LEMMA StaysSound ==
  ASSUME OBookInv, NEW C, Grows(oBook, C), NEW j, Sound(j, oBook)
  PROVE  Sound(j, C)
<1>1. Len(oBook) \in Nat /\ Len(C) \in Nat /\ Len(oBook) <= Len(C)
  BY BookLen DEF Grows
<1>2. \A id \in 1..Len(oBook) :
        /\ id \in 1..Len(C) /\ C[id].order = oBook[id].order
        /\ oBook[id].state = "CANCELLED" => C[id].state = "CANCELLED"
  BY <1>1 DEF Grows
<1>3. ASSUME Told(j, oBook), j.stage = "cancel" => j.id \in 1..Len(oBook) PROVE Told(j, C)
  <2>1. j.stage = "create" => j.id \in 1..Len(C) /\ C[j.id].order = j.order
    BY <1>2, <1>3 DEF Told
  <2>2. j.stage = "cancel" => C[j.id].state = "CANCELLED"
    BY <1>2, <1>3 DEF Told
  <2>3. j.stage = "orders" => j.body \in Seq(Entries) /\ Len(j.body) <= Len(C)
    <3>1. j.stage = "orders" => j.body \in Seq(Entries) /\ Len(j.body) <= Len(oBook)
      BY <1>3 DEF Told
    <3>2. j.stage = "orders" => Len(j.body) \in Nat
      BY <3>1, LenProperties
    <3>3. QED BY <3>1, <3>2, <1>1
  <2>4. QED BY <2>1, <2>2, <2>3, <1>3 DEF Told
<1>4. j.id \in 0..Len(oBook) => j.id \in 0..Len(C)
  BY <1>1
<1>5. QED BY <1>2, <1>3, <1>4 DEF Sound

-----------------------------------------------------------------------------
(* One call goes from oJob[t] to j, and the book at most grows.            *)
OGoes(t, j) ==
  /\ oJob' = [oJob EXCEPT ![t] = j]
  /\ Sound(j, oBook') /\ Grows(oBook, oBook')

LEMMA OGoesJobs ==
  ASSUME OandaInv, NEW t \in Tasks, NEW j, OGoes(t, j)
  PROVE  OJobsInv' /\ oJob'[t] = j /\ \A u \in Tasks \ {t} : oJob'[u] = oJob[u]
<1>1. /\ DOMAIN oJob' = Tasks /\ oJob'[t] = j
      /\ \A u \in Tasks \ {t} : oJob'[u] = oJob[u]
  BY DEF OGoes, OandaInv, OJobsInv
<1>2. ASSUME NEW u \in Tasks \ {t} PROVE Sound(oJob[u], oBook')
  BY StaysSound DEF OandaInv, OJobsInv, OGoes
<1>3. OJobsInv'
  BY <1>1, <1>2 DEF OJobsInv, OGoes
<1>4. QED BY <1>1, <1>3

(* The attempts left are those left before, but for those of the call.     *)
LEMMA OthersLeft ==
  ASSUME OandaInv, NEW t \in Tasks, NEW j, OGoes(t, j), NEW o
  PROVE  /\ \A p \in Attempts(o)' : p \in Attempts(o) \/ (p[1] = t /\ p[2] \in Left(j, o))
         /\ Left(j, o) \subseteq Left(oJob[t], o) => Attempts(o)' \subseteq Attempts(o)
<1>1. \A p \in Attempts(o)' : p \in Attempts(o) \/ (p[1] = t /\ p[2] \in Left(j, o))
  <2> TAKE p \in Attempts(o)'
  <2>1. p \in Tasks \X (1..RetryAttempts) /\ p[2] \in Left(oJob'[p[1]], o)
    BY DEF Attempts, Left
  <2>2. p[1] \in Tasks
    BY <2>1
  <2>3. CASE p[1] = t
    BY <2>1, <2>3, OGoesJobs
  <2>4. CASE p[1] # t
    <3>1. oJob'[p[1]] = oJob[p[1]]
      BY <2>2, <2>4, OGoesJobs
    <3>2. QED BY <2>1, <3>1 DEF Attempts
  <2>5. QED BY <2>3, <2>4
<1>2. ASSUME Left(j, o) \subseteq Left(oJob[t], o) PROVE Attempts(o)' \subseteq Attempts(o)
  <2> SUFFICES ASSUME NEW p \in Attempts(o)' PROVE p \in Attempts(o)
    OBVIOUS
  <2>1. p \in Tasks \X (1..RetryAttempts)
    BY DEF Attempts
  <2>2. p \in Attempts(o) \/ (p[1] = t /\ p[2] \in Left(oJob[t], o))
    BY <1>1, <1>2
  <2>3. QED BY <2>1, <2>2 DEF Attempts
<1>3. QED BY <1>1, <1>2

LEMMA Countable ==
  ASSUME OandaInv, NEW o \in Orders
  PROVE  /\ IsFiniteSet(Attempts(o)) /\ Cardinality(Attempts(o)) \in Nat
         /\ IsFiniteSet(Booked(o)) /\ Cardinality(Booked(o)) \in Nat
         /\ oSubmits[o] \in Nat /\ RetryAttempts \in Nat /\ oSubmits[o] * RetryAttempts \in Nat
         /\ Cardinality(Booked(o)) + Cardinality(Attempts(o)) <= oSubmits[o] * RetryAttempts
<1>1. /\ IsFiniteSet(Attempts(o))
      /\ Cardinality(Booked(o)) + Cardinality(Attempts(o)) <= oSubmits[o] * RetryAttempts
  BY DEF OandaInv, OCountInv
<1>2. IsFiniteSet(1..Len(oBook))
  BY BookLen, FS_Interval DEF OandaInv
<1>3. IsFiniteSet(Booked(o))
  BY <1>2, FS_Subset DEF Booked
<1>4. oSubmits[o] \in Nat /\ RetryAttempts \in Nat
  BY OandaConstants DEF OandaInv, OBookInv
<1>5. oSubmits[o] * RetryAttempts \in Nat
  BY <1>4
<1>6. QED BY <1>1, <1>3, <1>4, <1>5, FS_CardinalityType

(* The calls go on without an attempt more, the book without an order more. *)
LEMMA OCounted ==
  ASSUME OandaInv, NEW t \in Tasks, NEW j, OGoes(t, j), Len(oBook') = Len(oBook), oSubmits' = oSubmits,
         \A o \in Orders : Left(j, o) \subseteq Left(oJob[t], o)
  PROVE  OCountInv'
<1> SUFFICES ASSUME NEW o \in Orders
             PROVE  /\ IsFiniteSet(Attempts(o)')
                    /\ Cardinality(Booked(o)') + Cardinality(Attempts(o)') <= oSubmits[o] * RetryAttempts
  BY DEF OCountInv
<1>1. Booked(o)' = Booked(o)
  BY DEF Booked, OGoes, Grows
<1>2. Attempts(o)' \subseteq Attempts(o)
  BY OthersLeft
<1>3. IsFiniteSet(Attempts(o)') /\ Cardinality(Attempts(o)') <= Cardinality(Attempts(o))
  BY <1>2, Countable, FS_Subset
<1>4. Cardinality(Attempts(o)') \in Nat
  BY <1>3, FS_CardinalityType
<1>5. QED BY <1>1, <1>3, <1>4, Countable

-----------------------------------------------------------------------------
OIdle == Oanda!Idle

LEMMA OIdleSound ==
  ASSUME NEW B, Len(B) \in Nat
  PROVE  Sound(OIdle, B) /\ OIdle \in OCalls /\ \A o : Left(OIdle, o) = {}
<1>1. << >> \in Seq(Entries) /\ 0 \in 0..RetryAttempts
  BY OandaConstants
<1>2. OIdle \in OCalls
  BY <1>1 DEF OCalls, OIdle, Oanda!Idle
<1>3. QED BY <1>2 DEF Sound, Left, OIdle, Oanda!Idle

(* The first attempt of a call, and the next of one.                       *)
Attempted(j, s, n) == [Oanda!Request(j, s) EXCEPT !.tries = n]

LEMMA RequestSound ==
  ASSUME NEW B, Len(B) \in Nat, NEW j \in OCalls, j.id \in 0..Len(B), NEW s \in Oanda!Stages,
         s = "create" => j.order \in Orders, s = "cancel" => j.id \in 1..Len(B),
         NEW n \in 1..RetryAttempts
  PROVE  LET k == Attempted(j, s, n)
         IN /\ Sound(k, B) /\ k \in OCalls /\ k.stage = s /\ k.order = j.order /\ k.tries = n
            /\ k.op = j.op /\ k.wire \in {"out", "back"} /\ k.ans # "ok"
<1> DEFINE w == IF oSession = "open" THEN "out" ELSE "back"
           a == IF oSession = "open" THEN "none" ELSE "raised"
           k == Attempted(j, s, n)
<1>1. /\ w \in {"out", "back"} /\ a \in {"none", "raised"} /\ 1 \in 0..RetryAttempts
      /\ << >> \in Seq(Entries) /\ n \in 0..RetryAttempts
  BY OandaConstants
<1> HIDE DEF w, a
<1>2. k = [j EXCEPT !.stage = s, !.tries = n, !.body = << >>, !.wire = w, !.ans = a]
  BY DEF Attempted, Oanda!Request, w, a, OCalls
<1> HIDE DEF k
<1>3. /\ k \in OCalls /\ k.stage = s /\ k.order = j.order /\ k.tries = n /\ k.id = j.id
      /\ k.op = j.op /\ k.wire = w /\ k.ans = a
  BY <1>1, <1>2 DEF OCalls
<1>4. Sound(k, B)
  BY <1>1, <1>3 DEF Sound
<1>5. QED BY <1>1, <1>3, <1>4 DEF k

LEMMA FirstRequest ==
  ASSUME NEW B, Len(B) \in Nat, NEW j \in OCalls, j.id \in 0..Len(B), NEW s \in Oanda!Stages,
         s = "create" => j.order \in Orders, s = "cancel" => j.id \in 1..Len(B)
  PROVE  LET k == Oanda!Request(j, s)
         IN /\ Sound(k, B) /\ k \in OCalls /\ k.stage = s /\ k.order = j.order /\ k.tries = 1
            /\ k.op = j.op /\ k.wire \in {"out", "back"} /\ k.ans # "ok"
<1>1. 1 \in 1..RetryAttempts
  BY OandaConstants
<1>2. Attempted(j, s, 1) = Oanda!Request(j, s)
  BY DEF Attempted, Oanda!Request, OCalls
<1>3. QED BY <1>1, <1>2, RequestSound

-----------------------------------------------------------------------------
(* The steps that leave the book alone.                                    *)

(* A call that is left alone by the exchange and opens no attempt.         *)
LEMMA QuietHolds ==
  ASSUME OandaInv, NEW t \in Tasks, NEW j, Sound(j, oBook), oJob' = [oJob EXCEPT ![t] = j],
         \A o \in Orders : Left(j, o) \subseteq Left(oJob[t], o),
         UNCHANGED <<oBook, oNet, oSubmits>>, oConnected' \in BOOLEAN,
         oSession' \in {"none", "open", "closed"}, oPosition' \in Int, OCacheInv',
         oCalls' \in 0..OandaCalls, oFaults' \in 0..OandaFaults
  PROVE  OandaInv'
<1>1. OBookInv
  BY DEF OandaInv
<1>2. OGoes(t, j)
  BY <1>1, BookLen DEF OGoes, Grows
<1>3. OJobsInv'
  BY <1>2, OGoesJobs
<1>4. OBookInv'
  BY <1>1 DEF OBookInv
<1>5. OCountInv'
  BY <1>2, OCounted
<1>6. QED BY <1>3, <1>4, <1>5 DEF OandaInv

LEMMA CachesKept ==
  ASSUME OandaInv, UNCHANGED <<oCached, oOrderId, oBook>>
  PROVE  OCacheInv'
BY DEF OandaInv, OCacheInv

LEMMA JobFacts ==
  ASSUME OandaInv, NEW t \in Tasks
  PROVE  /\ Sound(oJob[t], oBook) /\ oJob[t] \in OCalls /\ oJob[t].id \in 0..Len(oBook)
         /\ Len(oBook) \in Nat /\ OBookInv
BY BookLen DEF OandaInv, OJobsInv, Sound

(* A call of a task that is idle begins.                                   *)
LEMMA OStartHolds ==
  ASSUME OandaInv, NEW t \in Tasks, NEW j \in OCalls, j.id \in 0..Len(oBook),
         NEW s \in {"cancel", "close", "account", "positions", "orders"}, s = "cancel" => j.id \in 1..Len(oBook),
         Oanda!Start(t, j, s), UNCHANGED <<oCached, oOrderId, oBook, oNet, oSubmits, oFaults>>,
         UNCHANGED <<oConnected, oSession, oPosition>>
  PROVE  OandaInv'
<1> DEFINE i == [j EXCEPT !.op = s]
           k == Oanda!Request(i, s)
<1>1. i \in OCalls /\ i.id = j.id /\ i.order = j.order
  <2>1. s \in Oanda!Ops \union {"none"}
    BY DEF Oanda!Ops
  <2>2. QED BY <2>1 DEF OCalls
<1>2. oJob' = [oJob EXCEPT ![t] = k] /\ oCalls < OandaCalls /\ oCalls' = oCalls + 1
  BY DEF Oanda!Start, Oanda!Set
<1> HIDE DEF i
<1>3. Sound(k, oBook) /\ k.stage = s
  <2>1. s \in Oanda!Stages /\ s # "create"
    BY DEF Oanda!Stages
  <2>2. QED BY <2>1, <1>1, JobFacts, FirstRequest
<1> HIDE DEF k
<1>4. \A o \in Orders : Left(k, o) \subseteq Left(oJob[t], o)
  BY <1>3 DEF Left
<1>5. oCalls' \in 0..OandaCalls
  BY <1>2, OandaConstants DEF OandaInv, OBookInv
<1>6. QED BY <1>2, <1>3, <1>4, <1>5, CachesKept, QuietHolds DEF OandaInv, OBookInv

LEMMA CancelByIdHolds ==
  ASSUME OandaInv, NEW t \in Tasks, NEW id \in 1..Len(oBook), Oanda!CancelById(t, id)
  PROVE  OandaInv'
<1> DEFINE j == [OIdle EXCEPT !.id = id]
<1>1. j \in OCalls /\ j.id = id /\ id \in 0..Len(oBook)
  <2>1. OIdle \in OCalls /\ id \in Nat /\ id \in 0..Len(oBook)
    BY JobFacts, OIdleSound
  <2>2. j \in OCalls /\ j.id = id
    BY <2>1 DEF OCalls
  <2>3. QED BY <2>1, <2>2
<1>2. Oanda!Start(t, j, "cancel")
  BY DEF Oanda!CancelById, OIdle
<1> HIDE DEF j
<1>3. QED BY <1>1, <1>2, OStartHolds DEF Oanda!CancelById, Oanda!client

LEMMA AskHolds ==
  ASSUME OandaInv, NEW t \in Tasks, NEW s \in {"close", "account", "positions", "orders"},
         Oanda!Ask(t, s)
  PROVE  OandaInv'
<1>1. OIdle \in OCalls /\ OIdle.id = 0 /\ 0 \in 0..Len(oBook)
  BY JobFacts, OIdleSound DEF OIdle, Oanda!Idle
<1>2. Oanda!Start(t, OIdle, s)
  BY DEF Oanda!Ask, OIdle
<1>3. QED BY <1>1, <1>2, OStartHolds DEF Oanda!Ask, Oanda!client

LEMMA OConnectHolds ==
  ASSUME OandaInv, NEW t \in Tasks, Oanda!Connect(t)
  PROVE  OandaInv'
<1> DEFINE w == IF oSession = "closed" THEN "back" ELSE "out"
           a == IF oSession = "closed" THEN "raised" ELSE "none"
           k == [OIdle EXCEPT !.op = "connect", !.stage = "account", !.tries = 1,
                              !.wire = w, !.ans = a]
<1>1. /\ w \in {"back", "out"} /\ a \in {"raised", "none"} /\ 1 \in 0..RetryAttempts
      /\ "connect" \in Oanda!Ops /\ "account" \in Oanda!Stages
  BY OandaConstants DEF Oanda!Ops, Oanda!Stages
<1>2. oJob' = [oJob EXCEPT ![t] = k]
  BY DEF Oanda!Connect, Oanda!Set, OIdle
<1> HIDE DEF w, a
<1>3. k \in OCalls /\ k.stage = "account" /\ k.id = OIdle.id /\ k.ans = a
  BY <1>1, OIdleSound, JobFacts DEF OCalls
<1> HIDE DEF k
<1>4. OIdle.id = 0 /\ 0 \in 0..Len(oBook)
  BY JobFacts DEF OIdle, Oanda!Idle
<1>5. Sound(k, oBook) /\ \A o \in Orders : Left(k, o) \subseteq Left(oJob[t], o)
  BY <1>1, <1>3, <1>4 DEF Sound, Left
<1>6. oCalls' \in 0..OandaCalls /\ oSession' \in {"none", "open", "closed"}
  BY OandaConstants DEF OandaInv, OBookInv, Oanda!Connect
<1>7. QED BY <1>2, <1>5, <1>6, CachesKept, QuietHolds DEF OandaInv, OBookInv, Oanda!Connect

LEMMA ODisconnectHolds ==
  ASSUME OandaInv, NEW t \in Tasks, Oanda!Disconnect(t)
  PROVE  OandaInv'
<1> DEFINE k == [OIdle EXCEPT !.op = "disconnect", !.stage = "closing", !.wire = "back", !.ans = "ok"]
<1>1. "disconnect" \in Oanda!Ops /\ "closing" \in Oanda!Stages
  BY DEF Oanda!Ops, Oanda!Stages
<1>2. oJob' = [oJob EXCEPT ![t] = k]
  BY DEF Oanda!Disconnect, Oanda!Set, OIdle
<1>3. k \in OCalls /\ k.stage = "closing" /\ k.id = OIdle.id
  BY <1>1, OIdleSound, JobFacts DEF OCalls
<1> HIDE DEF k
<1>4. OIdle.id = 0 /\ 0 \in 0..Len(oBook)
  BY JobFacts DEF OIdle, Oanda!Idle
<1>5. Sound(k, oBook) /\ \A o \in Orders : Left(k, o) \subseteq Left(oJob[t], o)
  BY <1>1, <1>3, <1>4 DEF Sound, Told, Left
<1>6. oCalls' \in 0..OandaCalls /\ oSession' \in {"none", "open", "closed"}
  BY OandaConstants DEF OandaInv, OBookInv, Oanda!Disconnect
<1>7. QED BY <1>2, <1>5, <1>6, CachesKept, QuietHolds DEF OandaInv, OBookInv, Oanda!Disconnect

(* The call goes on: to its next stage, or back to its caller.             *)
LEMMA GoOnHolds ==
  ASSUME OandaInv, NEW t \in Tasks, Oanda!GoOn(t), OCacheInv', oPosition' \in Int,
         UNCHANGED <<oSession, oBook, oNet, oSubmits, oCalls, oFaults>>
  PROVE  OandaInv'
<1> DEFINE s == Oanda!After(oJob[t])
<1>1. s \in {"positions", "orders", "return"}
  BY DEF Oanda!After
<1>2. oConnected' \in BOOLEAN
  BY DEF Oanda!GoOn, OandaInv, OBookInv
<1>3. OBookInv /\ Len(oBook) \in Nat /\ oJob[t] \in OCalls /\ oJob[t].id \in 0..Len(oBook)
  BY JobFacts
<1>4. CASE s = "return"
  <2>1. oJob' = [oJob EXCEPT ![t] = OIdle]
    BY <1>4 DEF Oanda!GoOn, Oanda!Return, Oanda!Set, OIdle
  <2>2. Sound(OIdle, oBook) /\ \A o \in Orders : Left(OIdle, o) \subseteq Left(oJob[t], o)
    BY <1>3, OIdleSound
  <2>3. QED BY <1>2, <1>3, <2>1, <2>2, QuietHolds DEF OBookInv
<1>5. CASE s # "return"
  <2> DEFINE k == Oanda!Request(oJob[t], s)
  <2>1. oJob' = [oJob EXCEPT ![t] = k]
    BY <1>5 DEF Oanda!GoOn, Oanda!Set
  <2>2. s \in Oanda!Stages /\ s # "create" /\ s # "cancel"
    BY <1>1, <1>5 DEF Oanda!Stages
  <2> HIDE DEF s
  <2>3. Sound(k, oBook) /\ k.stage = s
    BY <1>3, <2>2, FirstRequest
  <2> HIDE DEF k
  <2>4. \A o \in Orders : Left(k, o) \subseteq Left(oJob[t], o)
    BY <2>2, <2>3 DEF Left
  <2>5. QED BY <1>2, <1>3, <2>1, <2>3, <2>4, QuietHolds DEF OBookInv
<1>6. QED BY <1>4, <1>5

LEMMA ReturnHolds ==
  ASSUME OandaInv, NEW t \in Tasks, Oanda!Return(t), OCacheInv', oPosition' \in Int,
         oConnected' \in BOOLEAN, oSession' \in {"none", "open", "closed"},
         UNCHANGED <<oBook, oNet, oSubmits, oCalls, oFaults>>
  PROVE  OandaInv'
<1>1. oJob' = [oJob EXCEPT ![t] = OIdle]
  BY DEF Oanda!Return, Oanda!Set, OIdle
<1>2. Sound(OIdle, oBook) /\ \A o \in Orders : Left(OIdle, o) \subseteq Left(oJob[t], o)
  BY JobFacts, OIdleSound
<1>3. QED BY <1>1, <1>2, QuietHolds DEF OandaInv, OBookInv

LEMMA OAnsweredHolds ==
  ASSUME OandaInv, NEW t \in Tasks, Oanda!Answered(t)
  PROVE  OandaInv'
<1> DEFINE j == oJob[t]
<1>1. /\ j \in OCalls /\ OBookInv /\ OCacheInv /\ Len(oBook) \in Nat /\ Told(j, oBook)
      /\ j.stage = "create" => j.order \in Orders
      /\ j.stage = "cancel" => j.id \in 1..Len(oBook)
  BY JobFacts DEF OandaInv, Sound, Oanda!Answered
<1>2. oBook' = oBook
  BY DEF Oanda!Answered
<1>3. oPosition' \in Int
  BY <1>1 DEF Oanda!Answered, Told, OBookInv
<1>4. /\ DOMAIN oCached' \subseteq 1..Len(oBook)
      /\ \A id \in DOMAIN oCached' :
           /\ oCached'[id] \in {"PENDING", "CANCELLED"}
           /\ oCached'[id] = "CANCELLED" => oBook[id].state = "CANCELLED"
  <2>1. CASE j.stage = "orders"
    <3>1. DOMAIN j.body = 1..Len(j.body) /\ Len(j.body) \in Nat /\ Len(j.body) <= Len(oBook)
      BY <1>1, <2>1, LenProperties DEF Told
    <3>2. oCached' = [id \in {e \in DOMAIN j.body : j.body[e].state = "PENDING"} |-> "PENDING"]
      BY <2>1 DEF Oanda!Answered
    <3>3. QED BY <3>1, <3>2, <1>1
  <2>2. CASE j.stage = "create"
    <3>1. oCached' = [id \in DOMAIN oCached \union {j.id} |->
                       IF id = j.id THEN "PENDING" ELSE oCached[id]]
      BY <2>2 DEF Oanda!Answered
    <3>2. QED BY <1>1, <2>2, <3>1 DEF Told, OCacheInv
  <2>3. CASE j.stage = "cancel" /\ j.id \in DOMAIN oCached
    <3>1. oCached' = [oCached EXCEPT ![j.id] = "CANCELLED"]
      BY <2>3 DEF Oanda!Answered
    <3>2. QED BY <1>1, <2>3, <3>1 DEF Told, OCacheInv
  <2>4. CASE j.stage \notin {"orders", "create"} /\ ~(j.stage = "cancel" /\ j.id \in DOMAIN oCached)
    <3>1. oCached' = oCached
      BY <2>4 DEF Oanda!Answered
    <3>2. QED BY <1>1, <3>1 DEF OCacheInv
  <2>5. QED BY <2>1, <2>2, <2>3, <2>4
<1>5. /\ oOrderId' \in [Orders -> 0..Len(oBook)]
      /\ \A o \in Orders : oOrderId'[o] # 0 => oBook[oOrderId'[o]].order = o
  <2>1. CASE j.stage = "create"
    <3>1. oOrderId' = [oOrderId EXCEPT ![j.order] = j.id]
      BY <2>1 DEF Oanda!Answered
    <3>2. j.id \in 1..Len(oBook) /\ oBook[j.id].order = j.order /\ j.order \in Orders
      BY <1>1, <2>1 DEF Told
    <3>3. j.id \in 0..Len(oBook)
      BY <3>2, <1>1
    <3>4. QED BY <1>1, <3>1, <3>2, <3>3 DEF OCacheInv
  <2>2. CASE j.stage # "create"
    BY <1>1, <2>2 DEF OCacheInv, Oanda!Answered
  <2>3. QED BY <2>1, <2>2
<1>6. OCacheInv'
  BY <1>2, <1>4, <1>5 DEF OCacheInv
<1>7. QED BY <1>3, <1>6, GoOnHolds DEF Oanda!Answered

LEMMA ClosedHolds ==
  ASSUME OandaInv, NEW t \in Tasks, Oanda!Closed(t)
  PROVE  OandaInv'
BY CachesKept, ReturnHolds DEF Oanda!Closed, OandaInv, OBookInv

LEMMA RaiseHolds ==
  ASSUME OandaInv, NEW t \in Tasks, Oanda!Raise(t)
  PROVE  OandaInv'
<1>1. /\ UNCHANGED <<oSession, oCached, oPosition, oOrderId, oBook, oNet, oSubmits, oCalls, oFaults>>
      /\ Oanda!GoOn(t) \/ (Oanda!Return(t) /\ UNCHANGED oConnected)
  BY DEF Oanda!Raise
<1>2. OCacheInv' /\ oPosition' \in Int /\ OBookInv
  BY <1>1, CachesKept DEF OandaInv, OBookInv
<1>3. CASE Oanda!GoOn(t)
  BY <1>1, <1>2, <1>3, GoOnHolds
<1>4. CASE Oanda!Return(t) /\ UNCHANGED oConnected
  BY <1>1, <1>2, <1>4, ReturnHolds DEF OBookInv
<1>5. QED BY <1>1, <1>3, <1>4

LEMMA OFailedHolds ==
  ASSUME OandaInv, NEW t \in Tasks, Oanda!Failed(t)
  PROVE  OandaInv'
<1> DEFINE j == oJob[t]
           k == [j EXCEPT !.wire = "sleep"]
<1>1. CASE Oanda!Raise(t)
  BY <1>1, RaiseHolds
<1>2. CASE Oanda!Set(t, k) /\ UNCHANGED <<Oanda!client, oBook, oNet, oSubmits, oCalls, oFaults>>
  <2>1. j \in OCalls /\ Sound(j, oBook) /\ j.wire = "back"
    BY JobFacts DEF Oanda!Failed
  <2>2. /\ k \in OCalls /\ k.stage = j.stage /\ k.order = j.order /\ k.id = j.id
        /\ k.tries = j.tries /\ k.wire = "sleep"
    BY <2>1 DEF OCalls
  <2>3. oJob' = [oJob EXCEPT ![t] = k]
    BY <1>2 DEF Oanda!Set
  <2> HIDE DEF k
  <2>4. Sound(k, oBook) /\ \A o \in Orders : Left(k, o) \subseteq Left(oJob[t], o)
    BY <2>1, <2>2 DEF Sound, Left
  <2>5. QED BY <1>2, <2>3, <2>4, CachesKept, QuietHolds DEF OandaInv, OBookInv, Oanda!client
<1>3. QED BY <1>1, <1>2 DEF Oanda!Failed

LEMMA WakeHolds ==
  ASSUME OandaInv, NEW t \in Tasks, Oanda!Wake(t)
  PROVE  OandaInv'
<1> DEFINE j == oJob[t]
           k == Attempted(j, j.stage, j.tries + 1)
<1>1. CASE Oanda!Raise(t)
  BY <1>1, RaiseHolds
<1>2. CASE /\ ~Oanda!LastAttempt(j) /\ Oanda!Set(t, k)
           /\ UNCHANGED <<Oanda!client, oBook, oNet, oSubmits, oCalls, oFaults>>
  <2>1. j \in OCalls /\ Sound(j, oBook) /\ Len(oBook) \in Nat /\ j.id \in 0..Len(oBook)
    BY JobFacts
  <2>2. oJob' = [oJob EXCEPT ![t] = k] /\ j.tries # RetryAttempts /\ j.wire = "sleep"
    BY <1>2 DEF Oanda!Set, Oanda!LastAttempt, Oanda!Wake
  <2>3. j.tries + 1 \in 1..RetryAttempts /\ j.tries \in Nat
    BY <2>1, <2>2, OandaConstants DEF OCalls
  <2>4. j.stage \in Oanda!Stages
    BY <2>1, <2>2 DEF Sound
  <2>5. QED
    <3>1. /\ Sound(k, oBook) /\ k.stage = j.stage /\ k.order = j.order /\ k.tries = j.tries + 1
      <4>1. /\ j.stage = "create" => j.order \in Orders
            /\ j.stage = "cancel" => j.id \in 1..Len(oBook)
        BY <2>1 DEF Sound
      <4> HIDE DEF j
      <4>2. QED BY <2>1, <2>3, <2>4, <4>1, RequestSound
    <3> HIDE DEF k
    <3>2. \A o \in Orders : Left(k, o) \subseteq Left(oJob[t], o)
      BY <3>1, <2>2, <2>3 DEF Left
    <3>3. QED BY <1>2, <2>2, <3>1, <3>2, CachesKept, QuietHolds DEF OandaInv, OBookInv, Oanda!client
<1>3. QED BY <1>1, <1>2 DEF Oanda!Wake, Attempted

LEMMA OSubmitHolds ==
  ASSUME OandaInv, NEW t \in Tasks, NEW o \in Orders, Oanda!Submit(t, o)
  PROVE  OandaInv'
<1> DEFINE i == [OIdle EXCEPT !.order = o]
           j == [i EXCEPT !.op = "submit"]
           k == Oanda!Request(j, "create")
<1>1. j \in OCalls /\ j.id = 0 /\ j.order = o
  <2>1. "submit" \in Oanda!Ops /\ OIdle \in OCalls /\ OIdle.id = 0
    BY JobFacts, OIdleSound DEF Oanda!Ops, OIdle, Oanda!Idle
  <2>2. i \in OCalls /\ i.id = 0 /\ i.order = o
    BY <2>1 DEF OCalls
  <2> HIDE DEF i
  <2>3. QED BY <2>1, <2>2 DEF OCalls
<1>2. /\ oJob' = [oJob EXCEPT ![t] = k] /\ oCalls < OandaCalls /\ oCalls' = oCalls + 1
      /\ oJob[t] = OIdle
  BY DEF Oanda!Submit, Oanda!Start, Oanda!Set, OIdle
<1>3. /\ UNCHANGED <<oConnected, oSession, oCached, oPosition, oOrderId, oBook, oNet, oFaults>>
      /\ oSubmits' = [oSubmits EXCEPT ![o] = oSubmits[o] + 1] /\ oSubmits[o] < MaxSubmits
  BY DEF Oanda!Submit, Oanda!client
<1> HIDE DEF j
<1>4. Sound(k, oBook) /\ k.stage = "create" /\ k.order = o /\ k.tries = 1
  <2>1. "create" \in Oanda!Stages /\ 0 \in 0..Len(oBook)
    BY JobFacts DEF Oanda!Stages
  <2>2. QED BY <1>1, <2>1, JobFacts, FirstRequest
<1> HIDE DEF k
<1>5. OBookInv /\ Grows(oBook, oBook)
  BY BookLen DEF OandaInv
<1>6. OGoes(t, k)
  BY <1>2, <1>3, <1>4, <1>5 DEF OGoes
<1>7. OJobsInv'
  BY <1>6, OGoesJobs
<1>8. OBookInv'
  <2>1. oSubmits' \in [Orders -> 0..MaxSubmits]
    <3>1. oSubmits[o] + 1 \in 0..MaxSubmits
      BY <1>3, <1>5, OandaConstants DEF OBookInv
    <3>2. QED BY <1>3, <1>5, <3>1 DEF OBookInv
  <2>2. oCalls' \in 0..OandaCalls
    BY <1>2, <1>5, OandaConstants DEF OBookInv
  <2>3. QED BY <1>3, <1>5, <2>1, <2>2 DEF OBookInv
<1>9. OCacheInv'
  BY <1>3, CachesKept
<1>10. ASSUME NEW q \in Orders
       PROVE  /\ IsFiniteSet(Attempts(q)')
              /\ Cardinality(Booked(q)') + Cardinality(Attempts(q)') <= oSubmits'[q] * RetryAttempts
  <2>1. Booked(q)' = Booked(q)
    BY <1>3 DEF Booked
  <2>2. CASE q # o
    <3>1. Left(k, q) \subseteq Left(oJob[t], q)
      BY <1>4, <2>2 DEF Left
    <3>2. Attempts(q)' \subseteq Attempts(q)
      BY <3>1, <1>6, OthersLeft
    <3>3. IsFiniteSet(Attempts(q)') /\ Cardinality(Attempts(q)') <= Cardinality(Attempts(q))
      BY <3>2, Countable, FS_Subset
    <3>4. Cardinality(Attempts(q)') \in Nat /\ oSubmits'[q] = oSubmits[q]
      BY <3>3, <2>2, <1>3, <1>5, FS_CardinalityType DEF OBookInv
    <3>5. QED BY <2>1, <3>3, <3>4, Countable
  <2>3. CASE q = o
    <3> DEFINE fresh == {t} \X (1..RetryAttempts)
    <3>1. Attempts(q)' \subseteq Attempts(q) \union fresh
      <4> SUFFICES ASSUME NEW p \in Attempts(q)' PROVE p \in Attempts(q) \union fresh
        OBVIOUS
      <4>1. p \in Tasks \X (1..RetryAttempts)
        BY DEF Attempts
      <4>2. p \in Attempts(q) \/ p[1] = t
        BY <1>6, OthersLeft
      <4>3. QED BY <4>1, <4>2
    <3>2. IsFiniteSet(fresh) /\ Cardinality(fresh) = RetryAttempts
      <4>1. RetryAttempts \in Nat \ {0}
        BY OandaConstants
      <4>2. IsFiniteSet(1..RetryAttempts) /\ Cardinality(1..RetryAttempts) = RetryAttempts
        BY <4>1, FS_Interval
      <4>3. IsFiniteSet({t}) /\ Cardinality({t}) = 1
        BY FS_Singleton
      <4>4. IsFiniteSet(fresh) /\ Cardinality(fresh) = Cardinality({t}) * Cardinality(1..RetryAttempts)
        BY <4>2, <4>3, FS_Product
      <4>5. QED BY <4>1, <4>2, <4>3, <4>4
    <3> HIDE DEF fresh
    <3>3. /\ IsFiniteSet(Attempts(q) \union fresh)
          /\ Cardinality(Attempts(q) \union fresh) <= Cardinality(Attempts(q)) + RetryAttempts
      <4>1. IsFiniteSet(Attempts(q)) /\ Cardinality(Attempts(q)) \in Nat
        BY Countable
      <4>2. /\ IsFiniteSet(Attempts(q) \union fresh)
            /\ Cardinality(Attempts(q) \union fresh) =
                 Cardinality(Attempts(q)) + Cardinality(fresh) - Cardinality(Attempts(q) \intersect fresh)
        BY <4>1, <3>2, FS_Union
      <4>3. Cardinality(Attempts(q) \intersect fresh) \in Nat
        BY <4>1, FS_Intersection, FS_CardinalityType
      <4>4. QED BY <4>1, <4>2, <4>3, <3>2, OandaConstants
    <3>4. IsFiniteSet(Attempts(q)') /\ Cardinality(Attempts(q)') <= Cardinality(Attempts(q) \union fresh)
      BY <3>1, <3>3, FS_Subset
    <3>5. Cardinality(Attempts(q)') \in Nat /\ Cardinality(Attempts(q) \union fresh) \in Nat
      BY <3>3, <3>4, FS_CardinalityType
    <3>6. oSubmits'[q] * RetryAttempts = oSubmits[q] * RetryAttempts + RetryAttempts
      <4>1. oSubmits'[q] = oSubmits[q] + 1 /\ oSubmits[q] \in Nat /\ RetryAttempts \in Nat
        BY <2>3, <1>3, Countable DEF OandaInv, OBookInv
      <4>2. \A n, r \in Nat : (n + 1) * r = n * r + r
        OBVIOUS
      <4>3. QED BY <4>1, <4>2
    <3>7. QED BY <2>1, <3>3, <3>4, <3>5, <3>6, Countable
  <2>4. QED BY <2>2, <2>3
<1>11. QED BY <1>7, <1>8, <1>9, <1>10 DEF OandaInv, OCountInv

-----------------------------------------------------------------------------
(* The exchange.                                                           *)

Received(j, ans, b, id) == [j EXCEPT !.wire = "back", !.ans = ans, !.body = b, !.id = id]

LEMMA ReplyFields ==
  ASSUME OandaInv, NEW t \in Tasks,
         NEW ans \in {"ok", "failed", "limited", "timeout"}, NEW b \in Int \union Seq(Entries),
         NEW id \in Nat, Oanda!Reply(t, ans, b, id)
  PROVE  LET k == Received(oJob[t], ans, b, id)
         IN /\ oJob' = [oJob EXCEPT ![t] = k] /\ k \in OCalls
            /\ k.stage = oJob[t].stage /\ k.order = oJob[t].order /\ k.tries = oJob[t].tries
            /\ k.id = id /\ k.wire = "back" /\ k.ans = ans /\ k.body = b
<1>1. oJob[t] \in OCalls
  BY JobFacts
<1>2. oJob' = [oJob EXCEPT ![t] = Received(oJob[t], ans, b, id)]
  BY DEF Oanda!Reply, Received, OandaInv, OJobsInv
<1>3. QED BY <1>1, <1>2 DEF Received, OCalls

(* The request has not been carried out.                                   *)
LEMMA NotExecutedHolds ==
  ASSUME OandaInv, NEW t \in Tasks, oJob[t].wire = "out",
         NEW ans \in {"failed", "limited", "timeout"}, NEW b \in Int \union Seq(Entries),
         Oanda!Reply(t, ans, b, oJob[t].id),
         UNCHANGED <<oBook, oNet, Oanda!client, oSubmits, oCalls>>, oFaults' \in 0..OandaFaults
  PROVE  OandaInv'
<1> DEFINE k == Received(oJob[t], ans, b, oJob[t].id)
<1>1. /\ ans \in {"ok", "failed", "limited", "timeout"}
      /\ oJob[t].id \in Nat /\ Sound(oJob[t], oBook)
  BY JobFacts DEF OCalls
<1>2. /\ oJob' = [oJob EXCEPT ![t] = k] /\ k \in OCalls
      /\ k.stage = oJob[t].stage /\ k.order = oJob[t].order /\ k.tries = oJob[t].tries
      /\ k.id = oJob[t].id /\ k.wire = "back" /\ k.ans = ans
  BY <1>1, ReplyFields
<1> HIDE DEF k
<1>3. Sound(k, oBook) /\ \A o \in Orders : Left(k, o) \subseteq Left(oJob[t], o)
  BY <1>1, <1>2 DEF Sound, Left
<1>4. QED BY <1>2, <1>3, CachesKept, QuietHolds DEF OandaInv, OBookInv, Oanda!client

(* The cache and the ids stay true when the book grows.                    *)
LEMMA CachesGrow ==
  ASSUME OandaInv, UNCHANGED <<oCached, oOrderId>>, Grows(oBook, oBook')
  PROVE  OCacheInv'
<1>1. /\ OCacheInv /\ Len(oBook) \in Nat /\ Len(oBook') \in Nat /\ Len(oBook) <= Len(oBook')
      /\ \A id \in 1..Len(oBook) :
           /\ oBook'[id].order = oBook[id].order
           /\ oBook[id].state = "CANCELLED" => oBook'[id].state = "CANCELLED"
  BY BookLen DEF OandaInv, Grows
<1>2. 1..Len(oBook) \subseteq 1..Len(oBook') /\ 0..Len(oBook) \subseteq 0..Len(oBook')
  BY <1>1
<1>3. /\ DOMAIN oCached \subseteq 1..Len(oBook')
      /\ \A id \in DOMAIN oCached :
           /\ oCached[id] \in {"PENDING", "CANCELLED"}
           /\ oCached[id] = "CANCELLED" => oBook'[id].state = "CANCELLED"
  BY <1>1, <1>2 DEF OCacheInv
<1>4. oOrderId \in [Orders -> 0..Len(oBook')]
  BY <1>1, <1>2 DEF OCacheInv
<1>5. ASSUME NEW o \in Orders, oOrderId[o] # 0 PROVE oBook'[oOrderId[o]].order = o
  <2>1. oOrderId[o] \in 1..Len(oBook) /\ oBook[oOrderId[o]].order = o
    BY <1>1, <1>5 DEF OCacheInv
  <2>2. QED BY <1>1, <2>1
<1>6. QED BY <1>3, <1>4, <1>5 DEF OCacheInv

LEMMA BookStep ==
  ASSUME OandaInv, NEW t \in Tasks, NEW j, OGoes(t, j), OCountInv', oNet' \in Int,
         oFaults' \in 0..OandaFaults, UNCHANGED <<Oanda!client, oSubmits, oCalls>>
  PROVE  OandaInv'
<1>1. OJobsInv'
  BY OGoesJobs
<1>2. OCacheInv'
  BY CachesGrow DEF OGoes, Oanda!client
<1>3. OBookInv'
  BY DEF OandaInv, OBookInv, OGoes, Grows, Oanda!client
<1>4. QED BY <1>1, <1>2, <1>3 DEF OandaInv

(* An order is taken: it uses up the attempt it came with.                 *)
LEMMA TakenCounted ==
  ASSUME OandaInv, NEW t \in Tasks, NEW k, OGoes(t, k), oSubmits' = oSubmits,
         oJob[t].stage = "create", oJob[t].wire = "out",
         k.stage = "create", k.wire = "back", k.order = oJob[t].order, k.tries = oJob[t].tries,
         Len(oBook') = Len(oBook) + 1, oBook'[Len(oBook) + 1].order = oJob[t].order
  PROVE  OCountInv'
<1> DEFINE j == oJob[t]
           p0 == <<t, j.tries>>
<1>1. Len(oBook) \in Nat /\ j.order \in Orders /\ j.tries \in 1..RetryAttempts /\ RetryAttempts \in Nat
  BY JobFacts, OandaConstants DEF Sound
<1> SUFFICES ASSUME NEW o \in Orders
             PROVE  /\ IsFiniteSet(Attempts(o)')
                    /\ Cardinality(Booked(o)') + Cardinality(Attempts(o)') <= oSubmits[o] * RetryAttempts
  BY DEF OCountInv
<1>2. \A id \in 1..Len(oBook) : oBook'[id].order = oBook[id].order
  BY DEF OGoes, Grows
<1>3. Attempts(o)' \subseteq Attempts(o)
  <2>1. Left(k, o) \subseteq Left(oJob[t], o)
    BY <1>1 DEF Left
  <2>2. QED BY <2>1, OthersLeft
<1>4. CASE o # j.order
  <2>1. Booked(o)' = Booked(o)
    BY <1>1, <1>2, <1>4 DEF Booked
  <2>2. IsFiniteSet(Attempts(o)') /\ Cardinality(Attempts(o)') <= Cardinality(Attempts(o))
    BY <1>3, Countable, FS_Subset
  <2>3. Cardinality(Attempts(o)') \in Nat
    BY <2>2, FS_CardinalityType
  <2>4. QED BY <2>1, <2>2, <2>3, Countable
<1>5. CASE o = j.order
  <2>1. p0 \in Attempts(o)
    <3>1. j.tries \in Left(oJob[t], o)
      BY <1>1, <1>5 DEF Left
    <3>2. QED BY <3>1, <1>1 DEF Attempts
  <2>2. p0 \notin Attempts(o)'
    <3>1. oJob'[t] = k
      BY OGoesJobs
    <3>2. j.tries \notin Left(oJob'[t], o)
      BY <3>1, <1>1 DEF Left
    <3>3. QED BY <3>2 DEF Attempts
  <2>3. Attempts(o)' \subseteq Attempts(o) \ {p0}
    BY <1>3, <2>2
  <2> HIDE DEF p0
  <2>4. IsFiniteSet(Attempts(o) \ {p0}) /\ Cardinality(Attempts(o) \ {p0}) = Cardinality(Attempts(o)) - 1
    BY <2>1, Countable, FS_RemoveElement
  <2>5. IsFiniteSet(Attempts(o)') /\ Cardinality(Attempts(o)') <= Cardinality(Attempts(o) \ {p0})
    BY <2>3, <2>4, FS_Subset
  <2>6. Booked(o)' \subseteq Booked(o) \union {Len(oBook) + 1}
    BY <1>1, <1>2 DEF Booked
  <2>7. /\ IsFiniteSet(Booked(o) \union {Len(oBook) + 1})
        /\ Cardinality(Booked(o) \union {Len(oBook) + 1}) <= Cardinality(Booked(o)) + 1
    BY Countable, OneMore
  <2>8. /\ IsFiniteSet(Booked(o)')
        /\ Cardinality(Booked(o)') <= Cardinality(Booked(o) \union {Len(oBook) + 1})
    BY <2>6, <2>7, FS_Subset
  <2>9. /\ Cardinality(Attempts(o)') \in Nat /\ Cardinality(Booked(o)') \in Nat
        /\ Cardinality(Booked(o) \union {Len(oBook) + 1}) \in Nat
    BY <2>5, <2>7, <2>8, FS_CardinalityType
  <2>10. QED BY <2>4, <2>5, <2>7, <2>8, <2>9, Countable
<1>6. QED BY <1>4, <1>5

LEMMA OExecutedHolds ==
  ASSUME OandaInv, NEW t \in Tasks, oJob[t].wire = "out", Oanda!Execute(oJob[t]),
         NEW ans \in {"ok", "failed", "timeout"}, NEW b \in Int \union Seq(Entries), NEW id \in Nat,
         Oanda!Reply(t, ans, b, id),
         ans = "ok" => Oanda!Can(oJob[t]) /\ b = Oanda!Body(oJob[t]),
         id = IF oJob[t].stage = "create" /\ ans = "ok" THEN Len(oBook) + 1 ELSE oJob[t].id,
         UNCHANGED <<Oanda!client, oSubmits, oCalls>>, oFaults' \in 0..OandaFaults
  PROVE  OandaInv'
<1> DEFINE j == oJob[t]
           k == Received(oJob[t], ans, b, id)
<1>1. /\ Sound(j, oBook) /\ OBookInv /\ Len(oBook) \in Nat /\ j \in OCalls
      /\ ans \in {"ok", "failed", "limited", "timeout"} /\ oBook \in Seq(Entries) /\ oNet \in Int
  BY JobFacts DEF OBookInv
<1>2. /\ oJob' = [oJob EXCEPT ![t] = k] /\ k \in OCalls
      /\ k.stage = j.stage /\ k.order = j.order /\ k.tries = j.tries
      /\ k.id = id /\ k.wire = "back" /\ k.ans = ans /\ k.body = b
  BY <1>1, ReplyFields
<1> HIDE DEF k
<1>3. \A o \in Orders : Left(k, o) \subseteq Left(oJob[t], o)
  BY <1>1, <1>2 DEF Left
<1>4. CASE j.stage = "create" /\ Oanda!SentUnits(j.order) # 0
  <2> DEFINE e == [order |-> j.order, units |-> Oanda!SentUnits(j.order),
                   state |-> IF j.order \in LimitOrders THEN "PENDING" ELSE "FILLED"]
  <2>1. j.order \in Orders /\ Oanda!SentUnits(j.order) \in Nat
    BY <1>1, <1>4, OandaConstants DEF Sound
  <2>2. e \in Entries /\ e.order = j.order
    BY <2>1 DEF Entries
  <2>3. oBook' = Append(oBook, e)
    BY <1>4 DEF Oanda!Execute
  <2>4. oNet' \in Int
    <3>1. oNet' = IF j.order \in LimitOrders THEN oNet ELSE oNet + Oanda!SentUnits(j.order)
      BY <1>4 DEF Oanda!Execute
    <3>2. QED BY <3>1, <2>1, <1>1
  <2> HIDE DEF e
  <2>5. /\ oBook' \in Seq(Entries) /\ Len(oBook') = Len(oBook) + 1
        /\ \A i \in 1..Len(oBook) : oBook'[i] = oBook[i]
        /\ oBook'[Len(oBook) + 1] = e
    BY <1>1, <2>2, <2>3, AppendProperties
  <2>6. Grows(oBook, oBook')
    BY <1>1, <2>5 DEF Grows
  <2>7. Sound(k, oBook')
    <3>1. id \in 0..Len(oBook') /\ (ans = "ok" => id = Len(oBook) + 1)
      BY <1>1, <1>4, <2>5 DEF Sound
    <3>2. "create" \in Oanda!Stages
      BY DEF Oanda!Stages
    <3>3. ans = "ok" => Told(k, oBook')
      BY <3>1, <1>1, <1>2, <1>4, <2>2, <2>5 DEF Told
    <3>4. QED BY <3>1, <3>2, <3>3, <1>1, <1>2, <1>4 DEF Sound
  <2>8. OGoes(t, k)
    BY <1>2, <2>6, <2>7 DEF OGoes
  <2>9. OCountInv'
    BY <1>2, <1>4, <2>2, <2>5, <2>8, TakenCounted
  <2>10. QED BY <2>4, <2>8, <2>9, BookStep
<1>5. CASE j.stage = "cancel" /\ oBook[j.id].state = "PENDING"
  <2>1. j.id \in 1..Len(oBook) /\ id = j.id /\ id \in 0..Len(oBook)
    BY <1>1, <1>5 DEF Sound
  <2> DEFINE e == [oBook[j.id] EXCEPT !.state = "CANCELLED"]
  <2>2. e \in Entries /\ e.order = oBook[j.id].order /\ e.state = "CANCELLED"
    <3>1. oBook[j.id] \in Entries
      BY <1>1, <2>1, ElementOfSeq
    <3>2. QED BY <3>1 DEF Entries
  <2>3. oBook' = [oBook EXCEPT ![j.id] = e] /\ oNet' = oNet
    BY <1>5 DEF Oanda!Execute
  <2> HIDE DEF e
  <2>4. /\ oBook' \in Seq(Entries) /\ Len(oBook') = Len(oBook) /\ oBook'[j.id] = e
        /\ \A i \in 1..Len(oBook) : i # j.id => oBook'[i] = oBook[i]
    BY <1>1, <2>1, <2>2, <2>3, ExceptSeq
  <2>5. Grows(oBook, oBook')
    BY <1>1, <2>1, <2>2, <2>4 DEF Grows
  <2>6. Sound(k, oBook')
    <3>1. "cancel" \in Oanda!Stages
      BY DEF Oanda!Stages
    <3>2. QED BY <3>1, <1>1, <1>2, <1>5, <2>1, <2>2, <2>4 DEF Sound, Told
  <2>7. OGoes(t, k)
    BY <1>2, <2>5, <2>6 DEF OGoes
  <2>8. QED BY <1>1, <1>3, <2>3, <2>4, <2>7, OCounted, BookStep
<1>6. CASE ~(j.stage = "create" /\ Oanda!SentUnits(j.order) # 0)
           /\ ~(j.stage = "cancel" /\ oBook[j.id].state = "PENDING")
  <2>1. oBook' = oBook /\ oNet' \in Int
    BY <1>1, <1>6 DEF Oanda!Execute
  <2>2. ans = "ok" => j.stage \notin {"create", "cancel"}
    BY <1>6 DEF Oanda!Can
  <2>3. id = j.id
    BY <2>2
  <2>4. ans = "ok" => Told(k, oBook)
    <3>1. ans = "ok" /\ j.stage = "orders" => b = oBook
      BY DEF Oanda!Body
    <3>2. ans = "ok" /\ j.stage = "positions" => b = oNet
      BY DEF Oanda!Body
    <3>3. QED BY <3>1, <3>2, <2>2, <1>1, <1>2 DEF Told
  <2>5. Sound(k, oBook)
    BY <2>3, <2>4, <1>1, <1>2 DEF Sound
  <2>6. OGoes(t, k) /\ Len(oBook') = Len(oBook)
    BY <1>1, <1>2, <2>1, <2>5, BookLen DEF OGoes, Grows
  <2>7. QED BY <1>3, <2>1, <2>6, OCounted, BookStep
<1>7. QED BY <1>4, <1>5, <1>6

LEMMA OExchangeHolds ==
  ASSUME OandaInv, NEW t \in Tasks, Oanda!Exchange(t)
  PROVE  OandaInv'
<1> DEFINE j == oJob[t]
           id == IF j.stage = "create" THEN Len(oBook) + 1 ELSE j.id
           none == << >>
<1>1. /\ j.wire = "out" /\ UNCHANGED <<Oanda!client, oSubmits, oCalls>> /\ none \in Int \union Seq(Entries)
      /\ oFaults \in 0..OandaFaults /\ j.id \in Nat /\ id \in Nat /\ oBook \in Seq(Entries) /\ oNet \in Int
  BY JobFacts DEF Oanda!Exchange, OBookInv, OCalls
<1>2. Oanda!Body(j) \in Int \union Seq(Entries)
  BY <1>1 DEF Oanda!Body
<1> HIDE DEF none
<1>3. CASE /\ Oanda!Execute(j) /\ UNCHANGED oFaults
           /\ IF Oanda!Can(j) THEN Oanda!Reply(t, "ok", Oanda!Body(j), id)
              ELSE Oanda!Reply(t, "failed", none, j.id)
  <2>1. CASE Oanda!Can(j) /\ Oanda!Reply(t, "ok", Oanda!Body(j), id)
    BY <1>1, <1>2, <1>3, <2>1, OExecutedHolds
  <2>2. CASE Oanda!Reply(t, "failed", none, j.id)
    BY <1>1, <1>3, <2>2, OExecutedHolds
  <2>3. QED BY <1>3, <2>1, <2>2
<1>4. CASE Oanda!Reply(t, "failed", none, j.id) /\ UNCHANGED <<oBook, oNet, oFaults>>
  BY <1>1, <1>4, NotExecutedHolds
<1>5. CASE /\ oFaults < OandaFaults /\ oFaults' = oFaults + 1
           /\ \E ans \in {"failed", "limited", "timeout"} : Oanda!Reply(t, ans, none, j.id)
           /\ UNCHANGED <<oBook, oNet>>
  <2>1. oFaults' \in 0..OandaFaults
    BY <1>1, <1>5, OandaConstants
  <2>2. QED BY <1>1, <1>5, <2>1, NotExecutedHolds
<1>6. CASE /\ oFaults < OandaFaults /\ oFaults' = oFaults + 1
           /\ \E ans \in {"failed", "timeout"} : Oanda!Reply(t, ans, none, j.id)
           /\ Oanda!Execute(j)
  <2>1. oFaults' \in 0..OandaFaults
    BY <1>1, <1>6, OandaConstants
  <2>2. PICK ans \in {"failed", "timeout"} : Oanda!Reply(t, ans, none, j.id)
    BY <1>6
  <2>3. QED BY <1>1, <1>6, <2>1, <2>2, OExecutedHolds
<1>7. QED BY <1>3, <1>4, <1>5, <1>6 DEF Oanda!Exchange, none

LEMMA FillHolds ==
  ASSUME OandaInv, NEW id \in 1..Len(oBook), Oanda!Fill(id)
  PROVE  OandaInv'
<1> DEFINE e == [oBook[id] EXCEPT !.state = "FILLED"]
<1>1. OBookInv /\ Len(oBook) \in Nat /\ oBook \in Seq(Entries) /\ oNet \in Int
  BY BookLen DEF OandaInv, OBookInv
<1>2. oBook[id] \in Entries
  BY <1>1, ElementOfSeq
<1>3. e \in Entries /\ e.order = oBook[id].order /\ oBook[id].state = "PENDING" /\ oBook[id].units \in Int
  BY <1>2 DEF Entries, Oanda!Fill
<1>4. /\ oBook' = [oBook EXCEPT ![id] = e] /\ oNet' = oNet + oBook[id].units
      /\ UNCHANGED <<Oanda!client, oJob, oSubmits, oCalls, oFaults>>
  BY DEF Oanda!Fill
<1> HIDE DEF e
<1>5. /\ oBook' \in Seq(Entries) /\ Len(oBook') = Len(oBook) /\ oBook'[id] = e
      /\ \A i \in 1..Len(oBook) : i # id => oBook'[i] = oBook[i]
  BY <1>1, <1>3, <1>4, ExceptSeq
<1>6. Grows(oBook, oBook')
  BY <1>1, <1>3, <1>5 DEF Grows
<1>7. OJobsInv'
  BY <1>1, <1>4, <1>6, StaysSound DEF OandaInv, OJobsInv
<1>8. OBookInv'
  BY <1>1, <1>3, <1>4, <1>5 DEF OBookInv, Oanda!client
<1>9. OCacheInv'
  BY <1>4, <1>6, CachesGrow DEF Oanda!client
<1>10. OCountInv'
  <2>1. ASSUME NEW o \in Orders PROVE Booked(o)' = Booked(o) /\ Attempts(o)' = Attempts(o)
    BY <1>3, <1>4, <1>5 DEF Booked, Attempts
  <2>2. QED BY <2>1, <1>4 DEF OandaInv, OCountInv
<1>11. QED BY <1>7, <1>8, <1>9, <1>10 DEF OandaInv

-----------------------------------------------------------------------------
LEMMA OandaInitHolds == Oanda!Init => OandaInv
<1> SUFFICES ASSUME Oanda!Init PROVE OandaInv
  OBVIOUS
<1>1. oBook = << >> /\ Len(oBook) = 0 /\ << >> \in Seq(Entries)
  BY DEF Oanda!Init
<1>2. \A t \in Tasks : oJob[t] = OIdle
  BY DEF Oanda!Init, OIdle
<1>3. OJobsInv
  BY <1>1, <1>2, OIdleSound DEF Oanda!Init, OJobsInv
<1>4. OBookInv
  BY <1>1, OandaConstants DEF Oanda!Init, OBookInv
<1>5. OCacheInv
  BY <1>1 DEF Oanda!Init, OCacheInv
<1>6. ASSUME NEW o \in Orders
      PROVE  /\ IsFiniteSet(Attempts(o))
             /\ Cardinality(Booked(o)) + Cardinality(Attempts(o)) <= oSubmits[o] * RetryAttempts
  <2>1. Attempts(o) = {}
    <3>1. \A t \in Tasks : Left(oJob[t], o) = {}
      BY <1>2, <1>1, OIdleSound
    <3>2. QED BY <3>1 DEF Attempts
  <2>2. Booked(o) = {}
    BY <1>1 DEF Booked
  <2>3. oSubmits[o] = 0 /\ 0 * RetryAttempts = 0
    BY OandaConstants DEF Oanda!Init
  <2>4. QED BY <2>1, <2>2, <2>3, FS_EmptySet
<1>7. QED BY <1>3, <1>4, <1>5, <1>6 DEF OandaInv, OCountInv

LEMMA OandaStepHolds == OandaInv /\ [Oanda!Next]_oandaVars => OandaInv'
<1> SUFFICES ASSUME OandaInv, [Oanda!Next]_oandaVars PROVE OandaInv'
  OBVIOUS
<1>1. CASE UNCHANGED oandaVars
  BY <1>1 DEF oandaVars, OandaInv, OJobsInv, OBookInv, OCacheInv, OCountInv, Attempts, Booked
<1>2. CASE Oanda!Next
  BY <1>2, OSubmitHolds, CancelByIdHolds, AskHolds, OConnectHolds, ODisconnectHolds, OAnsweredHolds,
     ClosedHolds, OFailedHolds, WakeHolds, OExchangeHolds, FillHolds
     DEF Oanda!Next, Oanda!Receive
<1>3. QED BY <1>1, <1>2

LEMMA OandaImplies ==
  ASSUME OandaInv
  PROVE  Oanda!TypeOK /\ Oanda!OrdersBounded /\ Oanda!CacheIsTrue
<1>1. OBookInv /\ OCacheInv /\ Len(oBook) \in Nat
  BY BookLen DEF OandaInv
<1>2. Oanda!OrdersBounded
  <2> SUFFICES ASSUME NEW o \in Orders PROVE Oanda!Cardinality(Booked(o)) <= oSubmits[o] * RetryAttempts
    BY DEF Oanda!OrdersBounded, Booked
  <2>1. Oanda!Cardinality(Booked(o)) = Cardinality(Booked(o))
    BY DEF Oanda!Cardinality, Cardinality
  <2>2. QED BY <2>1, Countable
<1>3. Oanda!CacheIsTrue
  BY <1>1 DEF Oanda!CacheIsTrue, OCacheInv
<1>4. Oanda!TypeOK
  <2>1. ASSUME NEW id \in 1..Len(oBook)
        PROVE  /\ oBook[id].order \in Orders /\ oBook[id].units \in Int
               /\ oBook[id].state \in {"PENDING", "FILLED", "CANCELLED"}
    <3>1. oBook[id] \in Entries
      BY <1>1, ElementOfSeq DEF OBookInv
    <3>2. QED BY <3>1 DEF Entries
  <2>2. ASSUME NEW t \in Tasks
        PROVE  /\ oJob[t].op \in Oanda!Ops \union {"none"} /\ oJob[t].stage \in Oanda!Stages \union {"none"}
               /\ oJob[t].order \in Orders \union {0} /\ oJob[t].id \in 0..Len(oBook)
               /\ oJob[t].tries \in 0..RetryAttempts
               /\ oJob[t].wire \in {"none", "out", "back", "sleep"}
    BY JobFacts DEF OCalls
  <2>3. QED BY <1>1, <2>1, <2>2 DEF Oanda!TypeOK, OBookInv, OCacheInv
<1>5. QED BY <1>2, <1>3, <1>4

-----------------------------------------------------------------------------
(* The crypto adapters: the session and the websocket loops.               *)
Loops == [at : Crypto!Places, cancelled : BOOLEAN]

FeedInv ==
  /\ cConnected \in BOOLEAN /\ cSession \in BOOLEAN /\ cRunning \in BOOLEAN
  /\ cLoops \in Seq(Loops) /\ Len(cLoops) <= MaxLoops /\ cWsTask \in 0..Len(cLoops)
  /\ cCaller \in [Tasks -> {"idle", "closing", "stopping"} \X (0..Len(cLoops))]
  /\ cCalls \in 0..CryptoCalls
  /\ Crypto!RunningIsServed

LEMMA FeedConstants ==
  /\ MaxLoops \in Nat /\ CryptoCalls \in Nat /\ MaxTime \in Nat /\ Coins \in Nat
  /\ Width \in Nat \ {0} /\ PageLimit \in Nat \ {0}
BY PartsConstants

LEMMA LoopsLen ==
  ASSUME FeedInv
  PROVE  Len(cLoops) \in Nat /\ \A l \in 1..Len(cLoops) : cLoops[l] \in Loops
BY LenProperties, ElementOfSeq DEF FeedInv

(* A call of a task begins.                                                *)
LEMMA CallStarts ==
  ASSUME FeedInv, NEW t \in Tasks, Crypto!Start(t)
  PROVE  cCalls' \in 0..CryptoCalls
BY FeedConstants DEF Crypto!Start, FeedInv

(* The websocket is left alone.                                            *)
LEMMA WebsocketKept ==
  ASSUME FeedInv, UNCHANGED <<cRunning, cWsTask, cLoops>>, cConnected' \in BOOLEAN,
         cSession' \in BOOLEAN, cCalls' \in 0..CryptoCalls,
         cCaller' \in [Tasks -> {"idle", "closing", "stopping"} \X (0..Len(cLoops))]
  PROVE  FeedInv'
BY DEF FeedInv, Crypto!RunningIsServed, Crypto!Alive

LEMMA HttpHolds ==
  ASSUME FeedInv, NEW t \in Tasks,
         Crypto!Connect(t) \/ Crypto!Disconnect(t) \/ Crypto!Closed(t)
  PROVE  FeedInv'
<1>1. Len(cLoops) \in Nat /\ 0 \in 0..Len(cLoops)
  BY LoopsLen
<1>2. CASE Crypto!Connect(t)
  BY <1>2, CallStarts, WebsocketKept DEF Crypto!Connect, Crypto!ws, FeedInv
<1>3. CASE Crypto!Disconnect(t)
  <2>1. cCaller' \in [Tasks -> {"idle", "closing", "stopping"} \X (0..Len(cLoops))]
    BY <1>1, <1>3 DEF Crypto!Disconnect, FeedInv
  <2>2. QED BY <1>3, <2>1, CallStarts, WebsocketKept DEF Crypto!Disconnect, Crypto!ws, FeedInv
<1>4. CASE Crypto!Closed(t)
  <2>1. cCaller' \in [Tasks -> {"idle", "closing", "stopping"} \X (0..Len(cLoops))]
    BY <1>1, <1>4 DEF Crypto!Closed, FeedInv
  <2>2. QED BY <1>4, <2>1, WebsocketKept DEF Crypto!Closed, Crypto!ws, FeedInv
<1>5. QED BY <1>2, <1>3, <1>4

LEMMA StartWebsocketHolds ==
  ASSUME FeedInv, NEW t \in Tasks, Crypto!StartWebsocket(t)
  PROVE  FeedInv'
<1>1. Len(cLoops) \in Nat /\ cLoops \in Seq(Loops) /\ cCalls' \in 0..CryptoCalls
  BY LoopsLen, CallStarts DEF Crypto!StartWebsocket, FeedInv
<1>2. UNCHANGED <<cConnected, cSession, cCaller>>
  BY DEF Crypto!StartWebsocket, Crypto!http
<1>3. CASE cRunning
  BY <1>1, <1>2, <1>3, WebsocketKept DEF Crypto!StartWebsocket, Crypto!ws, FeedInv
<1>4. CASE ~cRunning
  <2> DEFINE e == [at |-> "new", cancelled |-> FALSE]
  <2>1. e \in Loops /\ e.at = "new" /\ ~e.cancelled
    BY DEF Loops, Crypto!Places
  <2>2. /\ cRunning' = TRUE /\ cLoops' = Append(cLoops, e) /\ cWsTask' = Len(cLoops) + 1
        /\ Len(cLoops) < MaxLoops
    BY <1>4 DEF Crypto!StartWebsocket
  <2> HIDE DEF e
  <2>3. cLoops' \in Seq(Loops) /\ Len(cLoops') = Len(cLoops) + 1 /\ cLoops'[Len(cLoops) + 1] = e
    BY <1>1, <2>1, <2>2, AppendProperties
  <2>4. Len(cLoops') <= MaxLoops /\ cWsTask' \in 0..Len(cLoops')
    BY <1>1, <2>2, <2>3, FeedConstants
  <2>5. cCaller' \in [Tasks -> {"idle", "closing", "stopping"} \X (0..Len(cLoops'))]
    <3>1. 0..Len(cLoops) \subseteq 0..Len(cLoops')
      BY <1>1, <2>3
    <3>2. cCaller \in [Tasks -> {"idle", "closing", "stopping"} \X (0..Len(cLoops))]
      BY DEF FeedInv
    <3>3. QED BY <1>2, <3>1, <3>2
  <2>6. Crypto!RunningIsServed'
    <3>1. Len(cLoops) + 1 \in 1..Len(cLoops')
      BY <1>1, <2>3
    <3>2. cLoops'[Len(cLoops) + 1].at # "done" /\ ~cLoops'[Len(cLoops) + 1].cancelled
      BY <2>1, <2>3
    <3>3. \E l \in 1..Len(cLoops') : cLoops'[l].at # "done" /\ ~cLoops'[l].cancelled
      BY <3>1, <3>2
    <3>4. QED BY <3>3 DEF Crypto!RunningIsServed, Crypto!Alive
  <2>7. QED BY <1>1, <1>2, <2>2, <2>3, <2>4, <2>5, <2>6 DEF FeedInv
<1>5. QED BY <1>3, <1>4

(* A loop goes to a place, or is cancelled.                                *)
LEMMA LoopWritten ==
  ASSUME FeedInv, NEW l \in 1..Len(cLoops), NEW e \in Loops, cLoops' = [cLoops EXCEPT ![l] = e]
  PROVE  /\ cLoops' \in Seq(Loops) /\ Len(cLoops') = Len(cLoops) /\ cLoops'[l] = e
         /\ \A i \in 1..Len(cLoops) : i # l => cLoops'[i] = cLoops[i]
BY ExceptSeq DEF FeedInv

LEMMA StopWebsocketHolds ==
  ASSUME FeedInv, NEW t \in Tasks, Crypto!StopWebsocket(t)
  PROVE  FeedInv'
<1>1. Len(cLoops) \in Nat /\ cLoops \in Seq(Loops) /\ cCalls' \in 0..CryptoCalls
  BY LoopsLen, CallStarts DEF Crypto!StopWebsocket, FeedInv
<1>2. UNCHANGED <<cConnected, cSession>> /\ cRunning' = FALSE
  BY DEF Crypto!StopWebsocket, Crypto!http
<1>3. Crypto!RunningIsServed'
  BY <1>2 DEF Crypto!RunningIsServed
<1>4. CASE cWsTask # 0 /\ Crypto!Alive(cWsTask)
  <2> DEFINE e == [cLoops[cWsTask] EXCEPT !.cancelled = TRUE]
  <2>1. cWsTask \in 1..Len(cLoops)
    BY <1>1, <1>4 DEF FeedInv
  <2>2. e \in Loops
    BY <2>1, LoopsLen DEF Loops
  <2>3. /\ cLoops' = [cLoops EXCEPT ![cWsTask] = e] /\ cWsTask' = cWsTask
        /\ cCaller' = [cCaller EXCEPT ![t] = <<"stopping", cWsTask>>]
    BY <1>4 DEF Crypto!StopWebsocket
  <2> HIDE DEF e
  <2>4. cLoops' \in Seq(Loops) /\ Len(cLoops') = Len(cLoops)
    BY <2>1, <2>2, <2>3, LoopWritten
  <2>5. cCaller' \in [Tasks -> {"idle", "closing", "stopping"} \X (0..Len(cLoops))]
    <3>1. <<"stopping", cWsTask>> \in {"idle", "closing", "stopping"} \X (0..Len(cLoops))
      BY DEF FeedInv
    <3>2. QED BY <2>3, <3>1 DEF FeedInv
  <2>6. QED BY <1>1, <1>2, <1>3, <2>3, <2>4, <2>5 DEF FeedInv
<1>5. CASE ~(cWsTask # 0 /\ Crypto!Alive(cWsTask))
  <2>1. cWsTask' = 0 /\ cLoops' = cLoops /\ cCaller' = cCaller
    BY <1>5 DEF Crypto!StopWebsocket
  <2>2. cWsTask' \in 0..Len(cLoops') /\ cLoops' \in Seq(Loops) /\ Len(cLoops') <= MaxLoops
    BY <1>1, <2>1 DEF FeedInv
  <2>3. cCaller' \in [Tasks -> {"idle", "closing", "stopping"} \X (0..Len(cLoops'))]
    BY <2>1 DEF FeedInv
  <2>4. cConnected' \in BOOLEAN /\ cSession' \in BOOLEAN /\ cRunning' \in BOOLEAN
    BY <1>2 DEF FeedInv
  <2>5. QED BY <1>1, <1>3, <2>2, <2>3, <2>4 DEF FeedInv
<1>6. QED BY <1>4, <1>5

LEMMA StoppedHolds ==
  ASSUME FeedInv, NEW t \in Tasks, Crypto!Stopped(t)
  PROVE  FeedInv'
<1>1. Len(cLoops) \in Nat /\ 0 \in 0..Len(cLoops)
  BY LoopsLen
<1>2. /\ cWsTask' = 0 /\ cCaller' = [cCaller EXCEPT ![t] = <<"idle", 0>>]
      /\ UNCHANGED <<cConnected, cSession, cRunning, cLoops, cCalls>>
  BY DEF Crypto!Stopped, Crypto!http
<1>3. cCaller' \in [Tasks -> {"idle", "closing", "stopping"} \X (0..Len(cLoops))]
  BY <1>1, <1>2 DEF FeedInv
<1>4. QED BY <1>1, <1>2, <1>3 DEF FeedInv, Crypto!RunningIsServed, Crypto!Alive

(* A loop only ends when it was cancelled or the feed does not run.        *)
LEMMA GotoHolds ==
  ASSUME FeedInv, NEW l \in 1..Len(cLoops), NEW place \in Crypto!Places, Crypto!Goto(l, place),
         place = "done" => cLoops[l].cancelled \/ ~cRunning
  PROVE  FeedInv'
<1> DEFINE e == [cLoops[l] EXCEPT !.at = place]
<1>1. e \in Loops /\ e.at = place /\ e.cancelled = cLoops[l].cancelled
  BY LoopsLen DEF Loops
<1>2. /\ cLoops' = [cLoops EXCEPT ![l] = e]
      /\ UNCHANGED <<cConnected, cSession, cRunning, cWsTask, cCaller, cCalls>>
  BY DEF Crypto!Goto, Crypto!http
<1> HIDE DEF e
<1>3. /\ cLoops' \in Seq(Loops) /\ Len(cLoops') = Len(cLoops) /\ cLoops'[l] = e
      /\ \A i \in 1..Len(cLoops) : i # l => cLoops'[i] = cLoops[i]
  BY <1>1, <1>2, LoopWritten
<1>4. Crypto!RunningIsServed'
  <2> SUFFICES ASSUME cRunning PROVE \E i \in 1..Len(cLoops) : cLoops'[i].at # "done" /\ ~cLoops'[i].cancelled
    BY <1>2, <1>3 DEF Crypto!RunningIsServed, Crypto!Alive
  <2>1. PICK i \in 1..Len(cLoops) : cLoops[i].at # "done" /\ ~cLoops[i].cancelled
    BY DEF FeedInv, Crypto!RunningIsServed, Crypto!Alive
  <2>2. CASE i = l
    BY <1>1, <1>3, <2>1, <2>2
  <2>3. CASE i # l
    BY <1>3, <2>1, <2>3
  <2>4. QED BY <2>2, <2>3
<1>5. QED BY <1>2, <1>3, <1>4 DEF FeedInv

LEMMA LoopStepHolds ==
  ASSUME FeedInv, NEW l \in 1..Len(cLoops), Crypto!LoopStep(l)
  PROVE  FeedInv'
<1>1. {"new", "dial", "open", "backoff", "done"} \subseteq Crypto!Places
  BY DEF Crypto!Places
<1>2. Crypto!Again \in {"dial", "done"} /\ (Crypto!Again = "done" => ~cRunning)
  BY DEF Crypto!Again
<1>3. PICK place \in Crypto!Places :
        /\ Crypto!Goto(l, place)
        /\ place = "done" => cLoops[l].cancelled \/ ~cRunning
  BY <1>1, <1>2 DEF Crypto!LoopStep, Crypto!Begin, Crypto!Dial, Crypto!Message, Crypto!Drop,
     Crypto!Wake, Crypto!Cancelled
<1>4. QED BY <1>3, GotoHolds

LEMMA PagesKeepFeed ==
  ASSUME FeedInv, UNCHANGED <<cConnected, cSession, cRunning, cWsTask, cLoops, cCaller, cCalls>>
  PROVE  FeedInv'
BY DEF FeedInv, Crypto!RunningIsServed, Crypto!Alive

-----------------------------------------------------------------------------
(* The crypto adapters: the pages of a range, and of the top coins.        *)
Fetches == [kind : {"none", "range", "top"}, at : {"idle", "page", "done", "raised"},
            first : Nat, last : Nat, cur : Nat, got : Seq(Nat)]

Rises(list) == \A i, j \in 1..Len(list) : i < j => list[i] < list[j]

(* Every candle that opens in from..to is in the list.                     *)
Covers(list, from, to) == \A k \in from..to : k % Width = 0 => \E i \in 1..Len(list) : list[i] = k

RangeInv(f) ==
  /\ f.last <= MaxTime
  /\ Rises(f.got) /\ \A i \in 1..Len(f.got) : f.got[i] \in f.first..f.last
  /\ f.at = "page" =>
       /\ f.first <= f.cur /\ f.cur < f.last
       /\ Covers(f.got, f.first, f.cur - 1)
       /\ \A i \in 1..Len(f.got) : f.got[i] < f.cur
  /\ f.at = "done" /\ f.first < f.last => Covers(f.got, f.first, f.last - 1)

TopInv(f) ==
  /\ f.last <= Coins
  /\ f.at = "page" =>
       /\ 1 <= f.cur /\ Len(f.got) < f.last /\ Len(f.got) = (f.cur - 1) * PageLimit
       /\ \A i \in 1..Len(f.got) : f.got[i] = i
  /\ f.at = "done" =>
       /\ Len(f.got) = f.last
       /\ \A i \in 1..f.last : f.got[i] \in 1..f.last
       /\ \A i \in 1..Crypto!InOrder(f.last) : f.got[i] = i

PagesInv ==
  /\ cFetch \in Fetches /\ (cFetch.at = "page" => cFetch.kind # "none")
  /\ cFetch.kind = "range" => RangeInv(cFetch)
  /\ cFetch.kind = "top" => TopInv(cFetch)

(* Division by the width of a candle, and by the page size.                *)
LEMMA Division ==
  ASSUME NEW a \in Nat, NEW w \in Nat \ {0}
  PROVE  a \div w \in Nat /\ (a \div w) * w <= a /\ a < (a \div w) * w + w
BY Z3

LEMMA Remainder ==
  ASSUME NEW a \in Nat, NEW w \in Nat \ {0}, a % w = 0
  PROVE  a = (a \div w) * w /\ a \div w \in Nat
<1>1. a = (a \div w) * w + (a % w)
  OBVIOUS
<1>2. a \div w \in Nat
  BY Division
<1>3. QED BY <1>1, <1>2

LEMMA TimesOrder ==
  ASSUME NEW a \in Int, NEW b \in Int, NEW w \in Nat \ {0}
  PROVE  /\ a * w \in Int /\ b * w \in Int
         /\ a < b <=> a * w < b * w
         /\ (a + b) * w = a * w + b * w /\ (a - b) * w = a * w - b * w
<1>1. a * w \in Int /\ b * w \in Int
  OBVIOUS
<1>2. (a + b) * w = a * w + b * w /\ (a - b) * w = a * w - b * w
  OBVIOUS
<1>3. a < b => a * w < b * w
  OBVIOUS
<1>4. a * w < b * w => a < b
  OBVIOUS
<1>5. QED BY <1>1, <1>2, <1>3, <1>4

(* One page of candles: as many as fit, from the first that opens at or    *)
(* after "from", one after the other.                                      *)
LEMMA KlinesFound ==
  ASSUME NEW from \in Nat, NEW to \in Nat, from < to, to <= MaxTime
  PROVE  \E m, n \in Nat :
           /\ Crypto!Klines(from, to) = [i \in 1..n |-> m * Width + (i - 1) * Width]
           /\ n <= PageLimit /\ from <= m * Width /\ m * Width < from + Width
           /\ n > 0 => m * Width + (n - 1) * Width <= to
           /\ n < PageLimit => to < m * Width + n * Width
<1> DEFINE m == (from + Width - 1) \div Width
           start == m * Width
           all == IF to < start THEN 0 ELSE (to - start) \div Width + 1
           n == IF all < PageLimit THEN all ELSE PageLimit
<1>1. Width \in Nat \ {0} /\ PageLimit \in Nat \ {0} /\ MaxTime \in Nat
  BY FeedConstants
<1>2. m \in Nat /\ start \in Nat /\ from <= start /\ start < from + Width
  <2>1. from + Width - 1 \in Nat
    BY <1>1
  <2>2. m \in Nat /\ m * Width <= from + Width - 1 /\ from + Width - 1 < m * Width + Width
    BY <1>1, <2>1, Division
  <2>3. m * Width \in Nat
    BY <1>1, <2>2
  <2> HIDE DEF m
  <2>4. QED BY <1>1, <2>2, <2>3
<1>3. Crypto!Klines(from, to) = [i \in 1..n |-> m * Width + (i - 1) * Width]
  <2>1. (IF to < MaxTime THEN to ELSE MaxTime) = to
    BY <1>1
  <2>2. QED BY <2>1 DEF Crypto!Klines
<1> HIDE DEF m
<1>4. /\ all \in Nat
      /\ all > 0 => start + (all - 1) * Width <= to
      /\ to < start + all * Width
  <2>1. CASE to < start
    <3>1. all = 0 /\ all * Width = 0
      BY <1>1, <2>1
    <3>2. QED BY <1>2, <2>1, <3>1
  <2>2. CASE ~(to < start)
    <3> DEFINE q == (to - start) \div Width
    <3>1. to - start \in Nat
      BY <1>2, <2>2
    <3>2. q \in Nat /\ q * Width <= to - start /\ to - start < q * Width + Width
      BY <1>1, <3>1, Division
    <3>3. all = q + 1
      BY <2>2
    <3> HIDE DEF q, all, start
    <3>4. (q + 1) * Width = q * Width + Width /\ q * Width \in Nat
      BY <1>1, <3>2
    <3>5. QED BY <1>1, <1>2, <3>1, <3>2, <3>3, <3>4
  <2>3. QED BY <2>1, <2>2
<1>5. /\ n \in Nat /\ n <= PageLimit
      /\ n > 0 => start + (n - 1) * Width <= to
      /\ n < PageLimit => to < start + n * Width
  <2> HIDE DEF start, all
  <2>1. CASE all < PageLimit
    BY <1>1, <1>4, <2>1
  <2>2. CASE ~(all < PageLimit)
    <3>1. n = PageLimit /\ n \in Nat \ {0} /\ n - 1 <= all - 1 /\ all > 0 /\ n - 1 \in Int /\ all - 1 \in Int
      BY <1>1, <1>4, <2>2
    <3> HIDE DEF n
    <3>2. (n - 1) * Width <= (all - 1) * Width /\ (n - 1) * Width \in Int /\ (all - 1) * Width \in Int
      <4>1. CASE n - 1 = all - 1
        BY <1>1, <3>1, <4>1
      <4>2. CASE n - 1 < all - 1
        BY <1>1, <3>1, <4>2, TimesOrder
      <4>3. QED BY <3>1, <4>1, <4>2
    <3>3. QED BY <1>1, <1>2, <1>4, <3>1, <3>2
  <2>3. QED BY <2>1, <2>2
<1> HIDE DEF n, all
<1>6. QED BY <1>2, <1>3, <1>5

(* What such a page holds.                                                 *)
LEMMA KlinesPage ==
  ASSUME NEW from \in Nat, NEW to \in Nat, from < to, to <= MaxTime,
         NEW batch, batch = Crypto!Klines(from, to)
  PROVE  /\ batch \in Seq(Nat) /\ Rises(batch)
         /\ \A i \in 1..Len(batch) : batch[i] \in from..to
         /\ Len(batch) > 0 => /\ batch[Len(batch)] \in Nat
                              /\ Covers(batch, from, batch[Len(batch)] + Width - 1)
                              /\ \A i \in 1..Len(batch) : batch[i] <= batch[Len(batch)]
         /\ Len(batch) < PageLimit => Covers(batch, from, to)
<1>1. PICK m, n \in Nat :
           /\ batch = [i \in 1..n |-> m * Width + (i - 1) * Width]
           /\ n <= PageLimit /\ from <= m * Width /\ m * Width < from + Width
           /\ n > 0 => m * Width + (n - 1) * Width <= to
           /\ n < PageLimit => to < m * Width + n * Width
  BY KlinesFound
<1>2. Width \in Nat \ {0} /\ PageLimit \in Nat \ {0} /\ m * Width \in Nat
  BY FeedConstants
<1>3. ASSUME NEW i \in 1..n PROVE m * Width + (i - 1) * Width \in from..to
  <2>1. (i - 1) * Width \in Nat /\ (n - 1) * Width \in Nat
    BY <1>2
  <2>2. (i - 1) * Width <= (n - 1) * Width
    <3>1. CASE i = n
      BY <2>1, <3>1
    <3>2. CASE i < n
      <4>1. i - 1 < n - 1 /\ i - 1 \in Int /\ n - 1 \in Int
        BY <3>2
      <4>2. QED BY <1>2, <2>1, <4>1, TimesOrder
    <3>3. QED BY <3>1, <3>2
  <2>3. m * Width + (n - 1) * Width <= to
    BY <1>1
  <2>4. QED BY <1>1, <1>2, <2>1, <2>2, <2>3
<1>4. batch \in Seq(Nat) /\ Len(batch) = n
  <2>1. \A i \in 1..n : m * Width + (i - 1) * Width \in Nat
    BY <1>3
  <2>2. batch \in Seq(Nat)
    BY <1>1, <2>1, IsASeq
  <2>3. DOMAIN batch = 1..n
    BY <1>1
  <2>4. QED BY <2>2, <2>3, LenProperties
<1>5. \A i \in 1..Len(batch) : batch[i] = m * Width + (i - 1) * Width
  BY <1>1, <1>4
<1>6. \A i \in 1..Len(batch) : batch[i] \in from..to
  BY <1>3, <1>4, <1>5
<1>7. ASSUME NEW i \in 1..Len(batch), NEW j \in 1..Len(batch), i < j PROVE batch[i] < batch[j]
  <2>1. (i - 1) * Width < (j - 1) * Width /\ (i - 1) * Width \in Int /\ (j - 1) * Width \in Int
    <3>1. i - 1 < j - 1 /\ i - 1 \in Int /\ j - 1 \in Int
      BY <1>4, <1>7
    <3>2. QED BY <1>2, <3>1, TimesOrder
  <2>2. batch[i] = m * Width + (i - 1) * Width /\ batch[j] = m * Width + (j - 1) * Width
    BY <1>5
  <2>3. QED BY <1>2, <2>1, <2>2
<1>8. ASSUME NEW k \in Nat, from <= k, k < m * Width + n * Width, k % Width = 0
      PROVE  \E i \in 1..Len(batch) : batch[i] = k
  <2> DEFINE q == k \div Width
             i == q - m + 1
  <2>1. k = q * Width /\ q \in Nat
    BY <1>2, <1>8, Remainder
  <2> HIDE DEF q
  <2>2. (m - 1) * Width = m * Width - Width
    BY <1>2
  <2>3. (m + n) * Width = m * Width + n * Width /\ n * Width \in Nat
    BY <1>2, TimesOrder
  <2>4. (m - 1) * Width < q * Width /\ q * Width < (m + n) * Width
    BY <1>1, <1>2, <1>8, <2>1, <2>2, <2>3
  <2>5. m - 1 < q /\ q < m + n
    <3>1. m - 1 \in Int /\ m + n \in Int /\ q \in Int
      BY <2>1
    <3>2. QED BY <1>2, <2>4, <3>1, TimesOrder
  <2>6. i \in 1..Len(batch)
    BY <1>4, <2>1, <2>5
  <2>7. batch[i] = m * Width + (q - m) * Width
    <3>1. i - 1 = q - m
      BY <2>1
    <3>2. QED BY <1>5, <2>6, <3>1
  <2>8. (q - m) * Width = q * Width - m * Width
    BY <1>2, <2>1, TimesOrder
  <2>9. batch[i] = k
    BY <1>2, <2>1, <2>7, <2>8
  <2>10. QED BY <2>6, <2>9
<1>9. ASSUME Len(batch) > 0
      PROVE  /\ batch[Len(batch)] \in Nat
             /\ Covers(batch, from, batch[Len(batch)] + Width - 1)
             /\ \A i \in 1..Len(batch) : batch[i] <= batch[Len(batch)]
  <2>1. Len(batch) \in 1..Len(batch)
    BY <1>4, <1>9
  <2>2. batch[Len(batch)] = m * Width + (n - 1) * Width /\ batch[Len(batch)] \in Nat
    BY <1>4, <1>5, <1>6, <2>1
  <2>3. batch[Len(batch)] + Width = m * Width + n * Width
    <3>1. (n - 1) * Width = n * Width - Width /\ n * Width \in Nat
      BY <1>2
    <3>2. QED BY <1>2, <2>2, <3>1
  <2>4. Covers(batch, from, batch[Len(batch)] + Width - 1)
    <3> SUFFICES ASSUME NEW k \in from..(batch[Len(batch)] + Width - 1), k % Width = 0
                 PROVE  \E i \in 1..Len(batch) : batch[i] = k
      BY DEF Covers
    <3>1. k \in Nat /\ from <= k /\ k < batch[Len(batch)] + Width
      BY <1>2, <2>2
    <3>2. k < m * Width + n * Width
      BY <2>3, <3>1
    <3>3. QED BY <1>8, <3>1, <3>2
  <2>5. ASSUME NEW i \in 1..Len(batch) PROVE batch[i] <= batch[Len(batch)]
    <3>1. CASE i = Len(batch)
      BY <2>2, <3>1
    <3>2. CASE i < Len(batch)
      <4>1. batch[i] < batch[Len(batch)]
        BY <1>7, <2>1, <3>2
      <4>2. batch[i] \in Nat
        BY <1>6
      <4>3. QED BY <2>2, <4>1, <4>2
    <3>3. QED BY <1>4, <3>1, <3>2
  <2>6. QED BY <2>2, <2>4, <2>5
<1>10. ASSUME Len(batch) < PageLimit PROVE Covers(batch, from, to)
  <2> SUFFICES ASSUME NEW k \in from..to, k % Width = 0
               PROVE  \E i \in 1..Len(batch) : batch[i] = k
    BY DEF Covers
  <2>1. to < m * Width + n * Width /\ n * Width \in Nat
    BY <1>1, <1>2, <1>4, <1>10
  <2>2. k \in Nat /\ from <= k /\ k < m * Width + n * Width
    BY <1>2, <2>1
  <2>3. QED BY <1>8, <2>2
<1>11. Rises(batch)
  BY <1>7 DEF Rises
<1>12. QED BY <1>4, <1>6, <1>9, <1>10, <1>11

(* A page of candles continues what was fetched.                           *)
LEMMA RangePageHolds ==
  ASSUME NEW f \in Fetches, f.kind = "range", f.at = "page", RangeInv(f)
  PROVE  /\ Crypto!RangePage(f) \in Fetches /\ Crypto!RangePage(f).kind = "range"
         /\ RangeInv(Crypto!RangePage(f))
<1> DEFINE batch == Crypto!Klines(f.cur, f.last)
           cur == batch[Len(batch)] + Width
           over == Len(batch) < PageLimit \/ cur >= f.last
           g == Crypto!RangePage(f)
<1>1. /\ f.first \in Nat /\ f.last \in Nat /\ f.cur \in Nat /\ f.got \in Seq(Nat)
      /\ f.first <= f.cur /\ f.cur < f.last /\ f.last <= MaxTime
  BY DEF Fetches, RangeInv
<1>2. Width \in Nat \ {0} /\ PageLimit \in Nat \ {0} /\ MaxTime \in Nat
  BY FeedConstants
<1>3. /\ batch \in Seq(Nat) /\ Rises(batch)
      /\ \A i \in 1..Len(batch) : batch[i] \in f.cur..f.last
      /\ Len(batch) > 0 => /\ batch[Len(batch)] \in Nat
                           /\ Covers(batch, f.cur, batch[Len(batch)] + Width - 1)
                           /\ \A i \in 1..Len(batch) : batch[i] <= batch[Len(batch)]
      /\ Len(batch) < PageLimit => Covers(batch, f.cur, f.last)
  BY <1>1, KlinesPage
<1>4. g = IF batch = << >> THEN [f EXCEPT !.at = "done"]
          ELSE [f EXCEPT !.got = f.got \o batch, !.cur = cur, !.at = IF over THEN "done" ELSE "page"]
  BY DEF Crypto!RangePage, Crypto!Last
<1>5. Rises(f.got) /\ (\A i \in 1..Len(f.got) : f.got[i] \in f.first..f.last /\ f.got[i] < f.cur)
      /\ Covers(f.got, f.first, f.cur - 1)
  BY DEF RangeInv
<1> HIDE DEF batch, g
<1>6. CASE batch = << >>
  <2>1. g = [f EXCEPT !.at = "done"]
    BY <1>4, <1>6
  <2>2. g \in Fetches /\ g.kind = "range" /\ g.at = "done" /\ g.first = f.first /\ g.last = f.last /\ g.got = f.got
    BY <2>1 DEF Fetches
  <2>3. Covers(f.got, f.first, f.last - 1)
    <3> SUFFICES ASSUME NEW k \in f.first..(f.last - 1), k % Width = 0
                 PROVE  \E i \in 1..Len(f.got) : f.got[i] = k
      BY DEF Covers
    <3>1. Len(batch) = 0
      BY <1>6
    <3>2. ~(k \in f.cur..f.last)
      BY <1>2, <1>3, <3>1 DEF Covers
    <3>3. k \in f.first..(f.cur - 1)
      BY <1>1, <3>2
    <3>4. QED BY <1>5, <3>3 DEF Covers
  <2>4. RangeInv(g)
    BY <1>1, <1>5, <2>2, <2>3 DEF RangeInv
  <2>5. QED BY <2>2, <2>4 DEF g
<1>7. CASE batch # << >>
  <2> DEFINE all == f.got \o batch
             p == Len(f.got)
             n == Len(batch)
  <2>1. g = [f EXCEPT !.got = all, !.cur = cur, !.at = IF over THEN "done" ELSE "page"]
    BY <1>4, <1>7
  <2>2. /\ all \in Seq(Nat) /\ Len(all) = p + n /\ p \in Nat /\ n \in Nat \ {0}
        /\ \A i \in 1..(p + n) : all[i] = IF i <= p THEN f.got[i] ELSE batch[i - p]
    BY <1>1, <1>3, <1>7, ConcatProperties, EmptySeq, LenProperties
  <2>3. /\ batch[n] \in Nat /\ cur \in Nat /\ cur = batch[n] + Width
        /\ Covers(batch, f.cur, batch[n] + Width - 1)
        /\ \A i \in 1..n : batch[i] <= batch[n]
    BY <1>2, <1>3, <2>2
  <2>4. batch[n] \in f.cur..f.last
    BY <1>3, <2>2
  <2> HIDE DEF all, n, p, cur
  <2>5. g \in Fetches /\ g.kind = "range" /\ g.first = f.first /\ g.last = f.last /\ g.got = all /\ g.cur = cur
        /\ g.at = IF over THEN "done" ELSE "page"
    BY <2>1, <2>2, <2>3 DEF Fetches
  <2>6. ASSUME NEW i \in 1..p PROVE i \in 1..(p + n) /\ all[i] = f.got[i]
    BY <2>2
  <2>7. ASSUME NEW i \in 1..n PROVE p + i \in 1..(p + n) /\ all[p + i] = batch[i]
    <3>1. p + i \in 1..(p + n) /\ ~(p + i <= p) /\ (p + i) - p = i
      BY <2>2
    <3>2. all[p + i] = batch[(p + i) - p]
      BY <2>2, <3>1
    <3>3. QED BY <3>1, <3>2
  <2>8. ASSUME NEW i \in 1..(p + n)
        PROVE  /\ all[i] \in Nat /\ all[i] \in f.first..f.last /\ all[i] <= batch[n]
               /\ i <= p => i \in 1..p /\ all[i] = f.got[i] /\ all[i] < f.cur
               /\ i > p => i - p \in 1..n /\ all[i] = batch[i - p] /\ all[i] >= f.cur
    <3>1. CASE i <= p
      <4>1. i \in 1..p /\ all[i] = f.got[i]
        BY <2>2, <3>1
      <4>2. f.got[i] \in f.first..f.last /\ f.got[i] < f.cur
        BY <1>5, <4>1 DEF p
      <4>3. f.got[i] <= batch[n]
        BY <1>1, <2>4, <4>2
      <4>4. QED BY <1>1, <2>2, <3>1, <4>1, <4>2, <4>3
    <3>2. CASE i > p
      <4>1. i - p \in 1..n /\ all[i] = batch[i - p]
        <5>1. i - p \in 1..n /\ ~(i <= p)
          BY <2>2, <3>2
        <5>2. all[i] = IF i <= p THEN f.got[i] ELSE batch[i - p]
          BY <2>2
        <5>3. QED BY <5>1, <5>2
      <4>2. batch[i - p] \in f.cur..f.last /\ batch[i - p] <= batch[n]
        BY <1>3, <2>3, <4>1 DEF n
      <4>3. /\ all[i] \in Nat /\ all[i] \in f.first..f.last /\ all[i] <= batch[n]
            /\ all[i] >= f.cur
        BY <1>1, <4>1, <4>2
      <4>4. ~(i <= p)
        BY <2>2, <3>2
      <4>5. QED BY <4>1, <4>3, <4>4
    <3>3. QED BY <2>2, <3>1, <3>2
  <2>9. Rises(all)
    <3> SUFFICES ASSUME NEW i \in 1..(p + n), NEW j \in 1..(p + n), i < j PROVE all[i] < all[j]
      BY <2>2 DEF Rises
    <3>1. CASE j <= p
      <4>1. i \in 1..p /\ j \in 1..p /\ all[i] = f.got[i] /\ all[j] = f.got[j]
        BY <2>2, <2>8, <3>1
      <4>2. QED BY <1>5, <4>1 DEF Rises, p
    <3>2. CASE i <= p /\ j > p
      <4>1. all[i] < f.cur /\ all[j] >= f.cur /\ all[i] \in Nat /\ all[j] \in Nat
        BY <2>8, <3>2
      <4>2. QED BY <1>1, <4>1
    <3>3. CASE i > p
      <4>1. j > p
        BY <2>2, <3>3
      <4>2. i - p \in 1..n /\ j - p \in 1..n /\ all[i] = batch[i - p] /\ all[j] = batch[j - p]
        BY <2>8, <3>3, <4>1
      <4>3. i - p < j - p
        BY <2>2
      <4>4. QED BY <1>3, <4>2, <4>3 DEF Rises, n
    <3>4. QED BY <2>2, <3>1, <3>2, <3>3
  <2>10. ASSUME NEW to \in Int, Covers(batch, f.cur, to) PROVE Covers(all, f.first, to)
    <3> SUFFICES ASSUME NEW k \in f.first..to, k % Width = 0 PROVE \E i \in 1..Len(all) : all[i] = k
      BY DEF Covers
    <3>1. CASE k < f.cur
      <4>1. k \in f.first..(f.cur - 1)
        BY <1>1, <2>10, <3>1
      <4>2. PICK i \in 1..p : f.got[i] = k
        BY <1>5, <4>1 DEF Covers, p
      <4>3. QED BY <2>2, <2>6, <4>2
    <3>2. CASE k >= f.cur
      <4>1. k \in f.cur..to
        BY <1>1, <2>10, <3>2
      <4>2. PICK i \in 1..n : batch[i] = k
        BY <2>10, <4>1 DEF Covers, n
      <4>3. QED BY <2>2, <2>7, <4>2
    <3>3. QED BY <1>1, <2>10, <3>1, <3>2
  <2>11. Covers(all, f.first, cur - 1)
    <3>1. cur - 1 = batch[n] + Width - 1 /\ cur - 1 \in Int
      BY <2>3, <1>2
    <3>2. Covers(batch, f.cur, cur - 1)
      BY <2>3, <3>1
    <3>3. QED BY <2>10, <3>1, <3>2
  <2>12. g.at = "done" => Covers(all, f.first, f.last - 1)
    <3>1. CASE n < PageLimit
      <4>1. Covers(batch, f.cur, f.last)
        BY <1>3, <3>1 DEF n
      <4>2. f.last \in Int /\ f.first..(f.last - 1) \subseteq f.first..f.last
        BY <1>1
      <4>3. Covers(all, f.first, f.last)
        BY <2>10, <4>1, <4>2
      <4>4. QED BY <4>2, <4>3 DEF Covers
    <3>2. CASE cur >= f.last
      <4>1. f.first..(f.last - 1) \subseteq f.first..(cur - 1)
        BY <1>1, <2>3, <3>2
      <4>2. QED BY <2>11, <4>1 DEF Covers
    <3>3. QED BY <2>5, <3>1, <3>2 DEF n
  <2>13. g.at = "page" => f.first <= cur /\ cur < f.last
    <3>1. f.cur <= cur
      BY <1>1, <1>2, <2>3, <2>4
    <3>2. g.at = "page" => ~(cur >= f.last)
      BY <2>5
    <3>3. QED BY <1>1, <2>3, <3>1, <3>2
  <2>14. \A i \in 1..(p + n) : all[i] < cur
    <3> TAKE i \in 1..(p + n)
    <3>1. all[i] \in Nat /\ all[i] <= batch[n]
      BY <2>8
    <3>2. QED BY <1>2, <2>3, <3>1
  <2>15. \A i \in 1..(p + n) : all[i] \in f.first..f.last
    BY <2>8
  <2>16. RangeInv(g)
    BY <1>1, <2>2, <2>5, <2>9, <2>11, <2>12, <2>13, <2>14, <2>15 DEF RangeInv
  <2>17. QED BY <2>5, <2>16 DEF g
<1>8. QED BY <1>6, <1>7

(* A page of coins continues the ranks.                                    *)
LEMMA RanksPage ==
  ASSUME NEW size \in Nat \ {0}, NEW page \in Nat \ {0},
         NEW batch, batch = Crypto!Ranks(size, page)
  PROVE  /\ batch \in Seq(Nat)
         /\ page * size <= Coins => /\ Len(batch) = size
                                    /\ \A i \in 1..size : batch[i] = (page - 1) * size + i
<1> DEFINE before == (page - 1) * size
           n == IF Coins - before < size THEN Coins - before ELSE size
<1>1. before \in Nat /\ Coins \in Nat /\ page * size = before + size
  BY FeedConstants
<1>2. batch = [i \in 1..n |-> before + i]
  BY DEF Crypto!Ranks
<1> HIDE DEF before
<1>3. n \in Int /\ n <= size
  BY <1>1
<1>4. CASE n >= 0
  <2>1. n \in Nat /\ \A i \in 1..n : before + i \in Nat
    BY <1>1, <1>3, <1>4
  <2>2. batch \in Seq(Nat)
    <3> HIDE DEF n
    <3>1. QED BY <1>2, <2>1, IsASeq
  <2>3. Len(batch) = n
    <3>1. DOMAIN batch = 1..n /\ DOMAIN batch = 1..Len(batch) /\ Len(batch) \in Nat
      BY <1>2, <2>2, LenProperties
    <3> HIDE DEF n
    <3>2. QED BY <2>1, <3>1
  <2>4. page * size <= Coins => n = size
    BY <1>1
  <2>5. QED BY <1>2, <2>2, <2>3, <2>4 DEF before
<1>5. CASE n < 0
  <2>1. 1..n = 1..0
    BY <1>3, <1>5
  <2>2. batch \in Seq(Nat)
    <3>1. batch = [i \in 1..0 |-> before + i] /\ \A i \in 1..0 : before + i \in Nat
      <4>1. \A i \in 1..0 : before + i \in Nat
        OBVIOUS
      <4> HIDE DEF n
      <4>2. QED BY <1>2, <2>1, <4>1
    <3>2. QED BY <3>1, IsASeq
  <2>3. ~(page * size <= Coins)
    BY <1>1, <1>5
  <2>4. QED BY <2>2, <2>3
<1>6. QED BY <1>3, <1>4, <1>5

(* A page is not beyond the limit: it is no longer than a full page, nor   *)
(* than what is missing.                                                   *)
LEMMA PageWithin ==
  ASSUME NEW c \in Nat, NEW size \in Nat, NEW limit \in Nat, NEW p \in Nat,
         p = c * PageLimit, size <= PageLimit, size <= limit - p
  PROVE  c * size \in Nat /\ (c + 1) * size = c * size + size /\ (c + 1) * size <= limit
<1>1. PageLimit \in Nat \ {0}
  BY FeedConstants
<1>2. c * size \in Nat /\ (c + 1) * size = c * size + size /\ c * size <= c * PageLimit
  BY <1>1
<1>3. QED BY <1>2

(* The last of the full pages that cover the limit exactly.                *)
LEMMA PagesCover ==
  ASSUME NEW limit \in Nat, NEW pages, pages = (limit + PageLimit - 1) \div PageLimit
  PROVE  pages * PageLimit \in Nat /\ limit <= pages * PageLimit
<1>1. PageLimit \in Nat \ {0} /\ limit + PageLimit - 1 \in Nat
  BY FeedConstants
<1>2. pages \in Nat /\ limit + PageLimit - 1 < pages * PageLimit + PageLimit
  BY <1>1, Division
<1>3. pages * PageLimit \in Nat
  BY <1>1, <1>2
<1>4. QED BY <1>1, <1>2, <1>3

(* What arrives in order when less than a page follows the full ones.      *)
LEMMA OrderEnds ==
  ASSUME NEW c \in Nat, NEW limit \in Nat, c * PageLimit <= limit, limit < c * PageLimit + PageLimit
  PROVE  Crypto!InOrder(limit) = IF c = 0 THEN limit ELSE c * PageLimit
<1> DEFINE q == limit \div PageLimit
<1>1. PageLimit \in Nat \ {0}
  BY FeedConstants
<1>2. q \in Nat /\ q * PageLimit <= limit /\ limit < q * PageLimit + PageLimit
  BY <1>1, Division
<1>3. Crypto!InOrder(limit) = IF limit < PageLimit THEN limit ELSE q * PageLimit
  BY DEF Crypto!InOrder
<1> HIDE DEF q
<1>4. c = q
  <2>1. /\ (q + 1) * PageLimit = q * PageLimit + PageLimit
        /\ (c + 1) * PageLimit = c * PageLimit + PageLimit
        /\ q * PageLimit \in Nat /\ c * PageLimit \in Nat
    BY <1>1, <1>2
  <2>2. c * PageLimit < (q + 1) * PageLimit /\ q * PageLimit < (c + 1) * PageLimit
    BY <1>1, <1>2, <2>1
  <2>3. c < q + 1
    BY <1>1, <1>2, <2>2, TimesOrder
  <2>4. q < c + 1
    BY <1>1, <1>2, <2>2, TimesOrder
  <2>5. QED BY <1>2, <2>3, <2>4
<1>5. CASE c = 0
  <2>1. c * PageLimit = 0
    BY <1>1, <1>5
  <2>2. QED BY <1>1, <1>3, <1>5, <2>1
<1>6. CASE c # 0
  <2>1. PageLimit <= c * PageLimit
    BY <1>1, <1>6
  <2>2. QED BY <1>1, <1>3, <1>4, <1>6, <2>1
<1>7. QED BY <1>5, <1>6

(* A limit of full pages arrives in order.                                 *)
LEMMA OrderFull ==
  ASSUME NEW c \in Nat, NEW limit \in Nat, limit = c * PageLimit
  PROVE  Crypto!InOrder(limit) \in 0..limit
<1>1. PageLimit \in Nat \ {0}
  BY FeedConstants
<1>2. limit < c * PageLimit + PageLimit
  BY <1>1
<1>3. Crypto!InOrder(limit) = IF c = 0 THEN limit ELSE c * PageLimit
  BY <1>2, OrderEnds
<1>4. QED BY <1>3

(* The invariant of a download that is over, and of one that goes on.      *)
LEMMA TopDone ==
  ASSUME NEW g, NEW limit, g.last = limit, limit <= Coins, g.at = "done", Len(g.got) = limit,
         \A i \in 1..limit : g.got[i] \in 1..limit,
         \A i \in 1..Crypto!InOrder(limit) : g.got[i] = i
  PROVE  TopInv(g)
<1>1. g.at # "page"
  OBVIOUS
<1>2. QED BY <1>1 DEF TopInv

LEMMA TopContinues ==
  ASSUME NEW g, NEW c \in Nat, g.last <= Coins, g.at = "page", g.cur = c + 2,
         Len(g.got) = (c + 1) * PageLimit, Len(g.got) < g.last,
         \A i \in 1..Len(g.got) : g.got[i] = i
  PROVE  TopInv(g)
<1>1. 1 <= g.cur /\ g.cur - 1 = c + 1 /\ g.at # "done"
  OBVIOUS
<1>2. QED BY <1>1 DEF TopInv

(* The ranks of a list whose first p are in order and whose others are     *)
(* after base, and no more than limit.                                     *)
LEMMA RanksWithin ==
  ASSUME NEW all, NEW p \in Nat, NEW n \in Nat, NEW base \in Nat, NEW limit \in Nat,
         p + n = limit, base + n <= limit,
         \A i \in 1..p : all[i] = i, \A i \in 1..n : all[p + i] = base + i
  PROVE  \A i \in 1..limit : all[i] \in 1..limit
<1> SUFFICES ASSUME NEW i \in 1..limit PROVE all[i] \in 1..limit
  OBVIOUS
<1>1. CASE i <= p
  <2>1. i \in 1..p
    BY <1>1
  <2>2. QED BY <2>1
<1>2. CASE i > p
  <2>1. PICK k \in 1..n : k = i - p
    BY <1>2
  <2>2. all[i] = base + k
    <3>1. p + k = i
      BY <2>1
    <3>2. QED BY <2>1, <3>1
  <2>3. QED BY <2>2
<1>3. QED BY <1>1, <1>2

(* All are in order when the others follow the first.                      *)
LEMMA RanksInOrder ==
  ASSUME NEW all, NEW p \in Nat, NEW n \in Nat,
         \A i \in 1..p : all[i] = i, \A i \in 1..n : all[p + i] = p + i
  PROVE  \A i \in 1..(p + n) : all[i] = i
<1> SUFFICES ASSUME NEW i \in 1..(p + n) PROVE all[i] = i
  OBVIOUS
<1>1. CASE i <= p
  <2>1. i \in 1..p
    BY <1>1
  <2>2. QED BY <2>1
<1>2. CASE i > p
  <2>1. PICK k \in 1..n : k = i - p
    BY <1>2
  <2>2. p + k = i
    BY <2>1
  <2>3. QED BY <2>1, <2>2
<1>3. QED BY <1>1, <1>2

LEMMA TopPageHolds ==
  ASSUME NEW f \in Fetches, f.kind = "top", f.at = "page", TopInv(f)
  PROVE  /\ Crypto!TopPage(f) \in Fetches /\ Crypto!TopPage(f).kind = "top"
         /\ TopInv(Crypto!TopPage(f))
<1>1. PICK p \in Nat, c \in Nat, limit \in Nat :
        /\ f.last = limit /\ limit <= Coins /\ p < limit /\ p = c * PageLimit
        /\ f.cur = c + 1 /\ f.got \in Seq(Nat) /\ Len(f.got) = p
        /\ \A i \in 1..p : f.got[i] = i
  <2>1. /\ f.last \in Nat /\ f.cur \in Nat /\ f.got \in Seq(Nat) /\ Len(f.got) \in Nat
        /\ f.last <= Coins /\ 1 <= f.cur /\ Len(f.got) < f.last
        /\ Len(f.got) = (f.cur - 1) * PageLimit /\ \A i \in 1..Len(f.got) : f.got[i] = i
    BY LenProperties DEF Fetches, TopInv
  <2>2. PICK c \in Nat : c = f.cur - 1
    BY <2>1
  <2>3. f.cur = c + 1
    BY <2>1, <2>2
  <2>4. QED BY <2>1, <2>2, <2>3
<1>2. PageLimit \in Nat \ {0} /\ Coins \in Nat
  BY FeedConstants
<1>3. PICK size \in Nat \ {0} :
        /\ size = IF limit - p < PageLimit THEN limit - p ELSE PageLimit
        /\ size <= PageLimit /\ size <= limit - p
  <2>1. limit - p \in Nat \ {0}
    BY <1>1
  <2>2. QED BY <1>2, <2>1
<1>4. PICK base \in Nat : base = c * size /\ (c + 1) * size = base + size /\ base + size <= limit
  <2>1. c * size \in Nat /\ (c + 1) * size = c * size + size /\ (c + 1) * size <= limit
    BY <1>1, <1>3, PageWithin
  <2>2. QED BY <2>1
<1>5. PICK batch \in Seq(Nat) : /\ batch = Crypto!Ranks(size, c + 1) /\ Len(batch) = size
                                /\ \A i \in 1..size : batch[i] = base + i
  <2>1. c + 1 \in Nat \ {0} /\ (c + 1) - 1 = c /\ (c + 1) * size <= Coins
    BY <1>1, <1>2, <1>4
  <2>2. /\ Crypto!Ranks(size, c + 1) \in Seq(Nat) /\ Len(Crypto!Ranks(size, c + 1)) = size
        /\ \A i \in 1..size : Crypto!Ranks(size, c + 1)[i] = ((c + 1) - 1) * size + i
    BY <2>1, RanksPage
  <2>3. ((c + 1) - 1) * size = base
    BY <1>4, <2>1
  <2>4. QED BY <2>2, <2>3
<1>6. PICK all \in Seq(Nat) : /\ all = f.got \o batch /\ Len(all) = p + size
                              /\ \A i \in 1..p : all[i] = i
                              /\ \A i \in 1..size : all[p + i] = base + i
  <2>1. PICK all \in Seq(Nat) :
          /\ all = f.got \o batch /\ Len(all) = p + size
          /\ \A i \in 1..(p + size) : all[i] = IF i <= p THEN f.got[i] ELSE batch[i - p]
    <3> DEFINE list == f.got \o batch
    <3>1. /\ list \in Seq(Nat) /\ Len(list) = p + size
          /\ \A i \in 1..(p + size) : list[i] = IF i <= p THEN f.got[i] ELSE batch[i - p]
      <4>1. f.got \in Seq(Nat) /\ batch \in Seq(Nat) /\ Len(f.got) = p /\ Len(batch) = size
        BY <1>1, <1>5
      <4>2. /\ list \in Seq(Nat) /\ Len(list) = Len(f.got) + Len(batch)
            /\ \A i \in 1..(Len(f.got) + Len(batch)) :
                 list[i] = IF i <= Len(f.got) THEN f.got[i] ELSE batch[i - Len(f.got)]
        BY <4>1, ConcatProperties
      <4> HIDE DEF list
      <4>3. QED BY <4>1, <4>2
    <3> HIDE DEF list
    <3>2. \E all \in Seq(Nat) :
            /\ all = list /\ Len(all) = p + size
            /\ \A i \in 1..(p + size) : all[i] = IF i <= p THEN f.got[i] ELSE batch[i - p]
      BY <3>1
    <3>3. QED BY <3>2 DEF list
  <2>2. ASSUME NEW i \in 1..p PROVE all[i] = i
    <3>1. i \in 1..(p + size) /\ i <= p
      <4>1. p \in Nat /\ size \in Nat
        BY <1>1, <1>3
      <4>2. QED BY <4>1
    <3>2. QED BY <1>1, <2>1, <3>1
  <2>3. ASSUME NEW i \in 1..size PROVE all[p + i] = base + i
    <3>1. p + i \in 1..(p + size) /\ ~(p + i <= p) /\ (p + i) - p = i
      <4>1. p \in Nat /\ size \in Nat
        BY <1>1, <1>3
      <4>2. QED BY <4>1
    <3>2. all[p + i] = batch[i]
      BY <2>1, <3>1
    <3>3. QED BY <1>5, <3>2
  <2>4. QED BY <2>1, <2>2, <2>3
<1>7. PICK over \in BOOLEAN :
        over <=> (p + size >= limit \/ c + 1 = (limit + PageLimit - 1) \div PageLimit)
  OBVIOUS
<1> DEFINE g == Crypto!TopPage(f)
           at == IF over THEN "done" ELSE "page"
<1>8. g = [f EXCEPT !.got = all, !.cur = c + 2, !.at = at]
  <2>1. f.last - Len(f.got) = limit - p /\ (c + 1) + 1 = c + 2
    BY <1>1
  <2>2. g = [f EXCEPT !.got = all, !.cur = (c + 1) + 1,
               !.at = IF Len(all) >= limit \/ c + 1 = (limit + PageLimit - 1) \div PageLimit
                      THEN "done" ELSE "page"]
    BY <1>1, <1>3, <1>5, <1>6, <2>1 DEF Crypto!TopPage
  <2>3. QED BY <1>6, <1>7, <2>1, <2>2
<1>9. /\ g \in Fetches /\ g.kind = "top" /\ g.at = at
      /\ g.got = all /\ g.cur = c + 2 /\ g.last = limit
  <2>1. at \in {"done", "page"} /\ c + 2 \in Nat
    OBVIOUS
  <2> HIDE DEF at, g
  <2>2. QED BY <1>1, <1>8, <2>1 DEF Fetches
<1> HIDE DEF g
<1>10. CASE size = PageLimit
  <2>1. p + size = (c + 1) * PageLimit /\ base = p
    BY <1>1, <1>4, <1>10
  <2>2. \A i \in 1..(p + size) : all[i] = i
    BY <1>6, <2>1, RanksInOrder
  <2>3. CASE over
    <3>1. p + size = limit
      <4>1. p + size <= limit
        BY <1>1, <1>3
      <4>2. CASE c + 1 = (limit + PageLimit - 1) \div PageLimit
        <5>1. limit <= (c + 1) * PageLimit
          BY <4>2, PagesCover
        <5>2. QED BY <2>1, <4>1, <5>1
      <4>3. CASE p + size >= limit
        BY <4>1, <4>3
      <4>4. QED BY <1>7, <2>3, <4>2, <4>3
    <3>2. Crypto!InOrder(limit) \in 0..limit
      <4>1. c + 1 \in Nat /\ limit = (c + 1) * PageLimit
        <5>1. limit = (c + 1) * PageLimit
          BY <2>1, <3>1, Zenon
        <5>2. QED BY <5>1
      <4>2. QED BY <4>1, OrderFull
    <3>3. /\ Len(all) = limit /\ \A i \in 1..limit : all[i] \in 1..limit
          /\ \A i \in 1..Crypto!InOrder(limit) : all[i] = i
      <4>1. Len(all) = limit /\ \A i \in 1..limit : all[i] = i
        BY <1>6, <2>2, <3>1, Zenon
      <4>2. \A i \in 1..limit : all[i] \in 1..limit
        BY <4>1
      <4>3. \A i \in 1..Crypto!InOrder(limit) : i \in 1..limit
        BY <3>2
      <4>4. QED BY <4>1, <4>2, <4>3
    <3>4. g.at = "done"
      BY <1>9, <2>3
    <3>5. TopInv(g)
      BY <1>1, <1>9, <3>3, <3>4, TopDone
    <3>6. QED BY <1>9, <3>5 DEF g
  <2>4. CASE ~over
    <3>1. p + size < limit
      BY <1>7, <2>4
    <3>2. g.at = "page"
      BY <1>9, <2>4
    <3>3. Len(all) = (c + 1) * PageLimit /\ Len(all) < limit /\ \A i \in 1..Len(all) : all[i] = i
      BY <1>6, <2>1, <2>2, <3>1
    <3>4. TopInv(g)
      BY <1>1, <1>9, <3>2, <3>3, TopContinues
    <3>5. QED BY <1>9, <3>4 DEF g
  <2>5. QED BY <2>3, <2>4
<1>11. CASE size < PageLimit /\ size = limit - p
  <2>1. p + size = limit /\ over
    BY <1>7, <1>11
  <2>2. Len(all) = limit /\ \A i \in 1..limit : all[i] \in 1..limit
    <3>1. size \in Nat /\ p + size = limit /\ base + size <= limit
      BY <1>3, <1>4, <2>1
    <3>2. \A i \in 1..limit : all[i] \in 1..limit
      <4>1. /\ p + size = limit /\ \A i \in 1..p : all[i] = i
            /\ \A i \in 1..size : all[p + i] = base + i
        BY <1>6, <3>1
      <4>2. QED BY <1>4, <3>1, <4>1, RanksWithin
    <3>3. QED BY <1>6, <3>1, <3>2
  <2>3. Crypto!InOrder(limit) = IF c = 0 THEN limit ELSE p
    <3>1. c * PageLimit <= limit /\ limit < c * PageLimit + PageLimit
      BY <1>1, <1>2, <1>11
    <3>2. QED BY <1>1, <3>1, OrderEnds
  <2>4. \A i \in 1..Crypto!InOrder(limit) : all[i] = i
    <3>1. CASE c = 0
      <4>1. base = p
        BY <1>1, <1>2, <1>4, <3>1
      <4>2. \A i \in 1..(p + size) : all[i] = i
        BY <1>6, <4>1, RanksInOrder
      <4>3. QED BY <2>1, <2>3, <3>1, <4>2
    <3>2. CASE c # 0
      BY <1>6, <2>3, <3>2
    <3>3. QED BY <3>1, <3>2
  <2>5. g.at = "done"
    BY <1>9, <2>1
  <2>6. TopInv(g)
    BY <1>1, <1>9, <2>2, <2>4, <2>5, TopDone
  <2>7. QED BY <1>9, <2>6 DEF g
<1>12. QED BY <1>1, <1>2, <1>3, <1>10, <1>11

LEMMA StartRangeHolds ==
  ASSUME NEW first \in 0..MaxTime, NEW last \in 0..MaxTime, Crypto!StartRange(first, last)
  PROVE  PagesInv'
<1> DEFINE g == [kind |-> "range", at |-> IF first < last THEN "page" ELSE "done",
                 first |-> first, last |-> last, cur |-> first, got |-> << >>]
<1>1. cFetch' = g
  BY DEF Crypto!StartRange
<1>2. << >> \in Seq(Nat) /\ Len(<< >>) = 0 /\ MaxTime \in Nat /\ first \in Nat /\ last \in Nat
      /\ last <= MaxTime
  BY FeedConstants, EmptySeq
<1>3. g \in Fetches
  BY <1>2 DEF Fetches
<1>4. RangeInv(g)
  <2>1. Rises(<< >>) /\ Covers(<< >>, first, first - 1)
    BY <1>2 DEF Rises, Covers
  <2>2. g.at = "page" => first < last
    OBVIOUS
  <2>3. g.at = "done" => ~(first < last)
    OBVIOUS
  <2>4. g.got = << >> /\ g.first = first /\ g.last = last /\ g.cur = first
    OBVIOUS
  <2> HIDE DEF g
  <2>5. 1..Len(g.got) = {}
    BY <1>2, <2>4
  <2>6. QED BY <1>2, <2>1, <2>2, <2>3, <2>4, <2>5 DEF RangeInv
<1>5. g.kind = "range"
  OBVIOUS
<1> HIDE DEF g
<1>6. QED BY <1>1, <1>3, <1>4, <1>5 DEF PagesInv

LEMMA StartTopHolds ==
  ASSUME NEW limit \in 0..Coins, Crypto!StartTop(limit)
  PROVE  PagesInv'
<1> DEFINE g == [kind |-> "top", at |-> IF limit > 0 THEN "page" ELSE "done",
                 first |-> 1, last |-> limit, cur |-> 1, got |-> << >>]
<1>1. cFetch' = g
  BY DEF Crypto!StartTop
<1>2. << >> \in Seq(Nat) /\ Len(<< >>) = 0 /\ Coins \in Nat /\ limit \in Nat /\ limit <= Coins
      /\ PageLimit \in Nat \ {0}
  BY FeedConstants, EmptySeq
<1>3. g \in Fetches
  BY <1>2 DEF Fetches
<1>4. TopInv(g)
  <2>1. g.got = << >> /\ g.last = limit /\ g.cur = 1 /\ Len(g.got) = (g.cur - 1) * PageLimit
    BY <1>2
  <2>2. g.at = "page" => limit > 0
    OBVIOUS
  <2>3. g.at = "done" => limit = 0
    BY <1>2
  <2> HIDE DEF g
  <2>4. g.at = "done" => \A i \in 1..Crypto!InOrder(g.last) : g.got[i] = i
    <3>1. SUFFICES ASSUME g.at = "done" PROVE \A i \in 1..Crypto!InOrder(g.last) : g.got[i] = i
      OBVIOUS
    <3>2. limit = 0 * PageLimit
      BY <1>2, <2>3, <3>1
    <3>3. Crypto!InOrder(limit) \in 0..limit
      BY <1>2, <3>2, OrderFull
    <3>4. QED BY <2>1, <2>3, <3>1, <3>3
  <2>5. QED BY <1>2, <2>1, <2>2, <2>3, <2>4 DEF TopInv
<1>5. g.kind = "top"
  OBVIOUS
<1> HIDE DEF g
<1>6. QED BY <1>1, <1>3, <1>4, <1>5 DEF PagesInv

LEMMA PageHolds ==
  ASSUME PagesInv, Crypto!Page
  PROVE  PagesInv'
<1>1. cFetch \in Fetches /\ cFetch.at = "page"
  BY DEF PagesInv, Crypto!Page
<1>2. CASE cFetch' = [cFetch EXCEPT !.at = "raised"]
  <2>1. /\ cFetch' \in Fetches /\ cFetch'.kind = cFetch.kind /\ cFetch'.at = "raised"
        /\ cFetch'.first = cFetch.first /\ cFetch'.last = cFetch.last /\ cFetch'.got = cFetch.got
    BY <1>1, <1>2 DEF Fetches
  <2>2. cFetch.kind = "range" => RangeInv(cFetch')
    BY <2>1 DEF PagesInv, RangeInv
  <2>3. cFetch.kind = "top" => TopInv(cFetch')
    BY <2>1 DEF PagesInv, TopInv
  <2>4. QED BY <2>1, <2>2, <2>3 DEF PagesInv
<1>3. CASE cFetch.kind = "range" /\ cFetch' = Crypto!RangePage(cFetch)
  BY <1>1, <1>3, RangePageHolds DEF PagesInv
<1>4. CASE cFetch.kind = "top" /\ cFetch' = Crypto!TopPage(cFetch)
  BY <1>1, <1>4, TopPageHolds DEF PagesInv
<1>5. cFetch.kind \in {"range", "top"}
  BY <1>1 DEF PagesInv, Fetches
<1>6. QED BY <1>1, <1>2, <1>3, <1>4, <1>5 DEF Crypto!Page

(* The crypto adapters together.                                           *)
CryptoInv == FeedInv /\ PagesInv

LEMMA CryptoInitHolds == Crypto!Init => CryptoInv
<1> SUFFICES ASSUME Crypto!Init PROVE CryptoInv
  OBVIOUS
<1>1. << >> \in Seq(Loops) /\ << >> \in Seq(Nat) /\ Len(<< >>) = 0 /\ 0 \in Nat
  BY EmptySeq
<1>2. FeedInv
  <2>1. cLoops = << >> /\ cWsTask = 0 /\ cCaller = [t \in Tasks |-> <<"idle", 0>>] /\ cCalls = 0
    BY DEF Crypto!Init
  <2>2. Len(cLoops) = 0 /\ cWsTask \in 0..Len(cLoops) /\ Len(cLoops) <= MaxLoops /\ cCalls \in 0..CryptoCalls
    BY <1>1, <2>1, FeedConstants
  <2>3. cCaller \in [Tasks -> {"idle", "closing", "stopping"} \X (0..Len(cLoops))]
    BY <2>1, <2>2
  <2>4. Crypto!RunningIsServed /\ {cConnected, cSession, cRunning} \subseteq BOOLEAN
    BY DEF Crypto!Init, Crypto!RunningIsServed
  <2>5. QED BY <1>1, <2>1, <2>2, <2>3, <2>4 DEF FeedInv
<1>3. PagesInv
  BY <1>1 DEF Crypto!Init, Crypto!NoFetch, PagesInv, Fetches
<1>4. QED BY <1>2, <1>3 DEF CryptoInv

LEMMA CryptoStepHolds == CryptoInv /\ [Crypto!Next]_cryptoVars => CryptoInv'
<1> SUFFICES ASSUME CryptoInv, [Crypto!Next]_cryptoVars PROVE CryptoInv'
  OBVIOUS
<1>1. FeedInv /\ PagesInv
  BY DEF CryptoInv
<1>2. ASSUME UNCHANGED cFetch PROVE PagesInv'
  BY <1>1, <1>2 DEF PagesInv
<1>3. ASSUME NEW t \in Tasks,
             \/ Crypto!Connect(t) \/ Crypto!Disconnect(t) \/ Crypto!Closed(t)
             \/ Crypto!StartWebsocket(t) \/ Crypto!StopWebsocket(t) \/ Crypto!Stopped(t)
      PROVE  CryptoInv'
  <2>1. FeedInv'
    BY <1>1, <1>3, HttpHolds, StartWebsocketHolds, StopWebsocketHolds, StoppedHolds
  <2>2. UNCHANGED cFetch
    BY <1>3 DEF Crypto!Connect, Crypto!Disconnect, Crypto!Closed, Crypto!StartWebsocket,
       Crypto!StopWebsocket, Crypto!Stopped
  <2>3. QED BY <1>2, <2>1, <2>2 DEF CryptoInv
<1>4. ASSUME NEW l \in 1..Len(cLoops), Crypto!LoopStep(l) PROVE CryptoInv'
  <2>1. FeedInv'
    BY <1>1, <1>4, LoopStepHolds
  <2>2. UNCHANGED cFetch
    BY <1>4 DEF Crypto!LoopStep, Crypto!Begin, Crypto!Dial, Crypto!Message, Crypto!Drop,
       Crypto!Wake, Crypto!Cancelled, Crypto!Goto
  <2>3. QED BY <1>2, <2>1, <2>2 DEF CryptoInv
<1>5. ASSUME NEW first \in 0..MaxTime, NEW last \in 0..MaxTime, Crypto!StartRange(first, last)
      PROVE  CryptoInv'
  <2>1. FeedInv'
    BY <1>1, <1>5, PagesKeepFeed DEF Crypto!StartRange, Crypto!http, Crypto!ws
  <2>2. QED BY <1>5, <2>1, StartRangeHolds DEF CryptoInv
<1>6. ASSUME NEW limit \in 0..Coins, Crypto!StartTop(limit) PROVE CryptoInv'
  <2>1. FeedInv'
    BY <1>1, <1>6, PagesKeepFeed DEF Crypto!StartTop, Crypto!http, Crypto!ws
  <2>2. QED BY <1>6, <2>1, StartTopHolds DEF CryptoInv
<1>7. CASE Crypto!Page
  <2>1. FeedInv'
    BY <1>1, <1>7, PagesKeepFeed DEF Crypto!Page, Crypto!http, Crypto!ws
  <2>2. QED BY <1>1, <1>7, <2>1, PageHolds DEF CryptoInv
<1>8. CASE UNCHANGED cryptoVars
  <2>1. FeedInv'
    BY <1>1, <1>8, PagesKeepFeed DEF cryptoVars
  <2>2. QED BY <1>2, <1>8, <2>1 DEF CryptoInv, cryptoVars
<1>9. QED BY <1>3, <1>4, <1>5, <1>6, <1>7, <1>8 DEF Crypto!Next

LEMMA CryptoImplies ==
  ASSUME CryptoInv
  PROVE  Crypto!TypeOK /\ Crypto!RunningIsServed /\ Crypto!PagesAreExact
<1>1. FeedInv /\ PagesInv
  BY DEF CryptoInv
<1>2. Crypto!PagesAreExact
  <2>1. ASSUME cFetch.kind = "range", cFetch.at = "done", cFetch.first < cFetch.last
        PROVE  /\ \A k \in cFetch.first..(cFetch.last - 1) : k % Width = 0 => Crypto!Contains(cFetch.got, k)
               /\ \A i \in 1..Len(cFetch.got) : cFetch.got[i] \in cFetch.first..cFetch.last
               /\ \A i, j \in 1..Len(cFetch.got) : i < j => cFetch.got[i] < cFetch.got[j]
    BY <1>1, <2>1 DEF PagesInv, RangeInv, Covers, Rises, Crypto!Contains
  <2>2. ASSUME cFetch.kind = "top", cFetch.at = "done"
        PROVE  /\ Len(cFetch.got) = cFetch.last
               /\ \A i \in 1..cFetch.last : cFetch.got[i] \in 1..cFetch.last
               /\ \A i \in 1..Crypto!InOrder(cFetch.last) : cFetch.got[i] = i
    BY <1>1, <2>2 DEF PagesInv, TopInv
  <2>3. QED BY <2>1, <2>2 DEF Crypto!PagesAreExact
<1>3. Crypto!TypeOK
  <2>1. ASSUME NEW t \in Tasks
        PROVE  cCaller[t][1] \in {"idle", "closing", "stopping"} /\ cCaller[t][2] \in 0..Len(cLoops)
    <3>1. cCaller[t] \in {"idle", "closing", "stopping"} \X (0..Len(cLoops))
      BY <1>1 DEF FeedInv
    <3>2. QED BY <3>1
  <2>2. \A l \in 1..Len(cLoops) : cLoops[l].at \in Crypto!Places /\ cLoops[l].cancelled \in BOOLEAN
    BY <1>1, LoopsLen DEF Loops
  <2>3. /\ cFetch.kind \in {"none", "range", "top"} /\ cFetch.at \in {"idle", "page", "done", "raised"}
        /\ cFetch.cur \in Nat /\ cFetch.got \in Seq(Nat)
    BY <1>1 DEF PagesInv, Fetches
  <2>4. {cConnected, cSession, cRunning} \subseteq BOOLEAN
    BY <1>1 DEF FeedInv
  <2>5. Len(cLoops) <= MaxLoops /\ cWsTask \in 0..Len(cLoops) /\ cCalls \in 0..CryptoCalls
    BY <1>1 DEF FeedInv
  <2>6. QED BY <2>1, <2>2, <2>3, <2>4, <2>5 DEF Crypto!TypeOK
<1>4. QED BY <1>1, <1>2, <1>3 DEF FeedInv

-----------------------------------------------------------------------------
(* Numbers and lists: what the router needs of induction.                  *)

Less == {p \in Nat \X Nat : p[1] < p[2]}

LEMMA LessWellFounded == IsWellFoundedOn(Less, Nat)
  BY NatLessThanWellFounded DEF OpToRel, Less

LEMMA NatSets ==
  ASSUME NEW T \in SUBSET Nat, 0 \in T, \A n \in T : n + 1 \in T
  PROVE  T = Nat
<1>1. SUFFICES ASSUME Nat \ T # {} PROVE FALSE
  OBVIOUS
<1>2. PICK x \in Nat \ T : \A y \in Nat \ T : <<y, x>> \notin Less
  BY <1>1, LessWellFounded, WFMin
<1>3. x # 0 /\ x - 1 \in Nat /\ x - 1 < x
  BY <1>2
<1>4. x - 1 \in T
  BY <1>2, <1>3 DEF Less
<1>5. QED BY <1>2, <1>3, <1>4

(* A recursive function on the numbers up to a bound exists; its step is   *)
(* given by a function of the number and the value before.                 *)
Recurs(f, N, a, step) ==
  \A n \in 0 .. N : f[n] = IF n = 0 THEN a ELSE step[<<n, f[n - 1]>>]

LEMMA RecursionExists ==
  ASSUME NEW N \in Nat, NEW V, NEW a \in V, NEW step \in [(1 .. N) \X V -> V]
  PROVE  \E f \in [0 .. N -> V] : Recurs(f, N, a, step)
<1> DEFINE T == {m \in Nat : m <= N => \E f \in [0 .. m -> V] : Recurs(f, m, a, step)}
<1>1. 0 \in T
  <2>1. [n \in 0 .. 0 |-> a] \in [0 .. 0 -> V] /\ Recurs([n \in 0 .. 0 |-> a], 0, a, step)
    BY DEF Recurs
  <2>2. QED BY <2>1
<1>2. ASSUME NEW m \in T PROVE m + 1 \in T
  <2>1. SUFFICES ASSUME m + 1 <= N
                 PROVE  \E f \in [0 .. m + 1 -> V] : Recurs(f, m + 1, a, step)
    OBVIOUS
  <2>2. PICK f \in [0 .. m -> V] : Recurs(f, m, a, step)
    BY <2>1
  <2> DEFINE g == [n \in 0 .. m + 1 |-> IF n <= m THEN f[n] ELSE step[<<m + 1, f[m]>>]]
  <2>3. step[<<m + 1, f[m]>>] \in V /\ m + 1 # 0 /\ (m + 1) - 1 = m
    <3>1. m + 1 \in 1 .. N /\ f[m] \in V BY <2>1, <2>2
    <3>2. <<m + 1, f[m]>> \in (1 .. N) \X V BY <3>1
    <3>3. QED BY <3>2
  <2>4. g \in [0 .. m + 1 -> V]
    <3>1. \A n \in 0 .. m + 1 : n <= m => n \in 0 .. m OBVIOUS
    <3>2. QED BY <2>2, <2>3, <3>1
  <2>5. ASSUME NEW n \in 0 .. m + 1
        PROVE  g[n] = IF n = 0 THEN a ELSE step[<<n, g[n - 1]>>]
    <3>1. CASE n <= m
      <4>1. n \in 0 .. m /\ (n # 0 => n - 1 \in 0 .. m /\ n - 1 <= m) BY <3>1
      <4>2. g[n] = f[n] /\ (n # 0 => g[n - 1] = f[n - 1]) BY <4>1
      <4> HIDE DEF g
      <4>3. QED BY <2>2, <4>1, <4>2 DEF Recurs
    <3>2. CASE n = m + 1
      <4>1. n # 0 /\ n - 1 = m /\ ~(n <= m) /\ m \in 0 .. m + 1 /\ m <= m BY <3>2
      <4>2. g[n] = step[<<n, f[m]>>] /\ g[m] = f[m] BY <3>2, <4>1
      <4> HIDE DEF g
      <4>3. QED BY <4>1, <4>2
    <3>3. QED BY <3>1, <3>2
  <2> HIDE DEF g
  <2>6. QED BY <2>4, <2>5 DEF Recurs
<1>3. T \in SUBSET Nat
  OBVIOUS
<1>4. N \in T
  <2> HIDE DEF T
  <2>1. QED BY <1>1, <1>2, <1>3, NatSets
<1>5. QED BY <1>4

(* A selection of a list holds selected elements, each of them once if the *)
(* list does.                                                              *)
Once(list, keep) == \A i, j \in 1 .. Len(list) : list[i] = list[j] /\ list[i] \in keep => i = j

SelectedFrom(v, list, S, keep, n) ==
  /\ v \in Seq(S \intersect keep) /\ Once(v, keep)
  /\ \A k \in 1 .. Len(v) : \E i \in 1 .. n : v[k] = list[i]

LEMMA SelectedOneMore ==
  ASSUME NEW S, NEW list \in Seq(S), NEW keep, Once(list, keep), NEW n \in Nat, n + 1 <= Len(list),
         NEW v, SelectedFrom(v, list, S, keep, n)
  PROVE  SelectedFrom(IF list[n + 1] \in keep THEN Append(v, list[n + 1]) ELSE v, list, S, keep, n + 1)
<1> DEFINE m == Len(v)
           w == Append(v, list[n + 1])
<1>1. /\ v \in Seq(S \intersect keep) /\ Once(v, keep) /\ m \in Nat /\ Len(list) \in Nat
      /\ \A k \in 1 .. m : v[k] \in S \intersect keep /\ \E i \in 1 .. n : v[k] = list[i]
  BY LenProperties, ElementOfSeq DEF SelectedFrom
<1>2. CASE list[n + 1] \notin keep
  <2>1. \A k \in 1 .. m : \E i \in 1 .. (n + 1) : v[k] = list[i]
    <3> TAKE k \in 1 .. m
    <3>1. PICK i \in 1 .. n : v[k] = list[i]
      BY <1>1
    <3>2. i \in 1 .. (n + 1)
      OBVIOUS
    <3>3. QED BY <3>1, <3>2
  <2>2. QED BY <1>1, <1>2, <2>1 DEF SelectedFrom
<1>3. CASE list[n + 1] \in keep
  <2>1. n + 1 \in 1 .. Len(list) /\ list[n + 1] \in S \intersect keep
    BY <1>1, <1>3, ElementOfSeq
  <2>2. /\ w \in Seq(S \intersect keep) /\ Len(w) = m + 1 /\ w[m + 1] = list[n + 1]
        /\ \A k \in 1 .. m : w[k] = v[k]
    BY <1>1, <2>1, AppendProperties
  <2> HIDE DEF w
  <2>3. \A k \in 1 .. m : w[k] # list[n + 1] /\ \E i \in 1 .. (n + 1) : w[k] = list[i]
    <3> TAKE k \in 1 .. m
    <3>1. PICK i \in 1 .. n : v[k] = list[i]
      BY <1>1
    <3>2. i \in 1 .. (n + 1) /\ i \in 1 .. Len(list) /\ i # n + 1
      BY <1>1
    <3>3. list[i] # list[n + 1]
      BY <1>3, <2>1, <3>2 DEF Once
    <3>4. QED BY <2>2, <3>1, <3>2, <3>3
  <2>4. \A k \in 1 .. (m + 1) : k \in 1 .. m \/ k = m + 1
    BY <1>1
  <2>5. n + 1 \in 1 .. (n + 1)
    OBVIOUS
  <2>6. \A k \in 1 .. Len(w) : \E i \in 1 .. (n + 1) : w[k] = list[i]
    BY <2>2, <2>3, <2>4, <2>5
  <2>7. Once(w, keep)
    <3> SUFFICES ASSUME NEW i \in 1 .. (m + 1), NEW j \in 1 .. (m + 1), w[i] = w[j], w[i] \in keep
                 PROVE  i = j
      BY <2>2 DEF Once
    <3>1. CASE i \in 1 .. m /\ j \in 1 .. m
      BY <1>1, <2>2, <3>1 DEF Once
    <3>2. CASE ~(i \in 1 .. m /\ j \in 1 .. m)
      BY <2>2, <2>3, <2>4, <3>2
    <3>3. QED BY <3>1, <3>2
  <2>8. QED BY <1>3, <2>2, <2>6, <2>7 DEF SelectedFrom, w
<1>4. QED BY <1>2, <1>3

LEMMA SelectedOnce ==
  ASSUME NEW S, NEW list \in Seq(S), NEW keep, Once(list, keep)
  PROVE  Selected(list, keep) \in Seq(S \intersect keep) /\ Once(Selected(list, keep), keep)
<1> DEFINE c == Len(list)
           V == Seq(S \intersect keep)
           next(v, n) == IF list[n] \in keep THEN Append(v, list[n]) ELSE v
           step == [p \in (1 .. c) \X V |-> next(p[2], p[1])]
           Good(f) == f = [n \in 0 .. c |-> IF n = 0 THEN << >> ELSE next(f[n - 1], n)]
<1>1. c \in Nat /\ \A n \in 1 .. c : list[n] \in S
  BY LenProperties, ElementOfSeq
<1>2. \A n \in 1 .. c, v \in V : next(v, n) \in V
  BY <1>1
<1>3. \E f : Good(f)
  <2> HIDE DEF next, V
  <2>1. step \in [(1 .. c) \X V -> V] BY <1>2
  <2>2. << >> \in V BY DEF V
  <2>3. PICK f \in [0 .. c -> V] : Recurs(f, c, << >>, step)
    <3> HIDE DEF step, c
    <3>1. QED BY <1>1, <2>1, <2>2, RecursionExists
  <2>4. \A n \in 0 .. c : f[n] = IF n = 0 THEN << >> ELSE next(f[n - 1], n)
    <3>1. TAKE n \in 0 .. c
    <3>2. CASE n = 0 BY <2>3, <3>2 DEF Recurs
    <3>3. CASE n # 0
      <4>1. n \in 1 .. c /\ n - 1 \in 0 .. c BY <1>1, <3>3
      <4>2. f[n - 1] \in V BY <2>3, <4>1
      <4>3. f[n] = step[<<n, f[n - 1]>>] BY <2>3, <3>3 DEF Recurs
      <4>4. QED BY <3>3, <4>1, <4>2, <4>3
    <3>4. QED BY <3>2, <3>3
  <2>5. QED BY <2>3, <2>4
<1>4. ASSUME NEW f, Good(f) PROVE SelectedFrom(f[c], list, S, keep, c)
  <2> DEFINE T == {n \in Nat : n <= c => SelectedFrom(f[n], list, S, keep, n)}
  <2>0. \A n \in 0 .. c : f[n] = IF n = 0 THEN << >> ELSE next(f[n - 1], n)
    BY <1>4
  <2> HIDE DEF Good
  <2>1. 0 \in T
    <3>1. f[0] = << >> /\ << >> \in V /\ Len(<< >>) = 0 BY <1>1, <2>0
    <3>2. SelectedFrom(<< >>, list, S, keep, 0) BY <3>1 DEF SelectedFrom, Once
    <3>3. QED BY <3>1, <3>2
  <2>2. ASSUME NEW n \in T PROVE n + 1 \in T
    <3>1. CASE n + 1 <= c
      <4>1. n + 1 \in 0 .. c /\ n + 1 # 0 /\ (n + 1) - 1 = n /\ n <= c /\ n \in Nat
        BY <1>1, <3>1
      <4>2. f[n + 1] = next(f[n], n + 1) /\ SelectedFrom(f[n], list, S, keep, n)
        BY <2>0, <2>2, <4>1
      <4>3. SelectedFrom(next(f[n], n + 1), list, S, keep, n + 1)
        BY <3>1, <4>1, <4>2, SelectedOneMore
      <4> HIDE DEF next
      <4>4. QED BY <4>1, <4>2, <4>3
    <3>2. CASE ~(n + 1 <= c) BY <3>2
    <3>3. QED BY <3>1, <3>2
  <2>3. T \in SUBSET Nat OBVIOUS
  <2>4. c \in T
    <3> HIDE DEF T, c
    <3>1. QED BY <1>1, <2>1, <2>2, <2>3, NatSets
  <2>5. QED BY <1>1, <2>4
<1> DEFINE kept == CHOOSE f : Good(f)
<1>5. Good(kept)
  <2> HIDE DEF Good
  <2>1. QED BY <1>3
<1>6. Selected(list, keep) = kept[c]
  BY DEF Selected
<1>7. QED
  <2> HIDE DEF kept, Good
  <2>1. SelectedFrom(kept[c], list, S, keep, c) BY <1>4, <1>5
  <2>2. QED BY <1>6, <2>1 DEF SelectedFrom

(* A total is reached one number after the other.                          *)
Sums(sum, list) ==
  /\ sum \in [0 .. Len(list) -> Nat] /\ sum[0] = 0
  /\ \A n \in 1 .. Len(list) : sum[n] = sum[n - 1] + list[n]

LEMMA TotalSums ==
  ASSUME NEW list \in Seq(Nat)
  PROVE  \E sum : Sums(sum, list) /\ Total(list) = sum[Len(list)]
<1> DEFINE c == Len(list)
           step == [p \in (1 .. c) \X Nat |-> p[2] + list[p[1]]]
           Good(f) == f = [n \in 0 .. c |-> IF n = 0 THEN 0 ELSE f[n - 1] + list[n]]
<1>1. c \in Nat /\ \A n \in 1 .. c : list[n] \in Nat
  BY LenProperties, ElementOfSeq
<1>2. \E f : Good(f)
  <2>1. step \in [(1 .. c) \X Nat -> Nat] BY <1>1
  <2>2. PICK f \in [0 .. c -> Nat] : Recurs(f, c, 0, step)
    <3> HIDE DEF step, c
    <3>1. QED BY <1>1, <2>1, RecursionExists
  <2>3. \A n \in 0 .. c : f[n] = IF n = 0 THEN 0 ELSE f[n - 1] + list[n]
    <3>1. TAKE n \in 0 .. c
    <3>2. CASE n = 0 BY <2>2, <3>2 DEF Recurs
    <3>3. CASE n # 0
      <4>1. n \in 1 .. c /\ n - 1 \in 0 .. c BY <1>1, <3>3
      <4>2. f[n - 1] \in Nat BY <2>2, <4>1
      <4>3. f[n] = step[<<n, f[n - 1]>>] BY <2>2, <3>3 DEF Recurs
      <4>4. QED BY <3>3, <4>1, <4>2, <4>3
    <3>4. QED BY <3>2, <3>3
  <2>4. QED BY <2>2, <2>3
<1>3. ASSUME NEW f, Good(f) PROVE Sums(f, list)
  <2> DEFINE T == {n \in Nat : n <= c => f[n] \in Nat}
  <2>0. /\ \A n \in 0 .. c : f[n] = IF n = 0 THEN 0 ELSE f[n - 1] + list[n]
        /\ DOMAIN f = 0 .. c /\ f = [n \in 0 .. c |-> f[n]]
    BY <1>3
  <2> HIDE DEF Good
  <2>1. 0 \in T
    <3>1. 0 \in 0 .. c /\ f[0] = 0 BY <1>1, <2>0
    <3>2. QED BY <3>1
  <2>2. ASSUME NEW n \in T PROVE n + 1 \in T
    <3>1. CASE n + 1 <= c
      <4>1. /\ n + 1 \in 0 .. c /\ n + 1 \in 1 .. c /\ n + 1 # 0 /\ (n + 1) - 1 = n /\ n <= c
            /\ n \in Nat
        BY <1>1, <3>1
      <4>2. f[n + 1] = f[n] + list[n + 1] /\ f[n] \in Nat
        BY <2>0, <2>2, <4>1
      <4>3. QED BY <1>1, <4>1, <4>2
    <3>2. CASE ~(n + 1 <= c) BY <3>2
    <3>3. QED BY <3>1, <3>2
  <2>3. T \in SUBSET Nat OBVIOUS
  <2>4. T = Nat
    <3> HIDE DEF T
    <3>1. QED BY <2>1, <2>2, <2>3, NatSets
  <2>5. \A n \in 0 .. c : f[n] \in Nat
    BY <1>1, <2>4
  <2>6. \A n \in 1 .. c : n \in 0 .. c /\ n # 0
    BY <1>1
  <2>7. 0 \in 0 .. c
    BY <1>1
  <2>8. QED BY <2>0, <2>5, <2>6, <2>7 DEF Sums
<1> DEFINE sum == CHOOSE f : Good(f)
<1>4. Good(sum)
  <2> HIDE DEF Good
  <2>1. QED BY <1>2
<1>5. Total(list) = sum[c]
  BY DEF Total
<1>6. QED
  <2> HIDE DEF sum
  <2>1. QED BY <1>3, <1>4, <1>5

(* Sums of lists that begin alike begin alike.                             *)
LEMMA SumsAgree ==
  ASSUME NEW a, NEW b, NEW s, NEW t, Sums(s, a), Sums(t, b), NEW m \in Nat,
         m <= Len(a), m <= Len(b), Len(a) \in Nat, Len(b) \in Nat, \A i \in 1 .. m : a[i] = b[i]
  PROVE  s[m] = t[m]
<1> DEFINE T == {n \in Nat : n <= m => s[n] = t[n]}
<1>1. 0 \in T
  BY DEF Sums
<1>2. ASSUME NEW n \in T PROVE n + 1 \in T
  <2>1. CASE n + 1 <= m
    <3>1. /\ n + 1 \in 1 .. m /\ n + 1 \in 1 .. Len(a) /\ n + 1 \in 1 .. Len(b)
          /\ (n + 1) - 1 = n /\ n <= m /\ n \in Nat
      BY <2>1
    <3>2. s[n + 1] = s[n] + a[n + 1] /\ t[n + 1] = t[n] + b[n + 1]
      BY <3>1 DEF Sums
    <3>3. QED BY <1>2, <3>1, <3>2
  <2>2. CASE ~(n + 1 <= m) BY <2>2
  <2>3. QED BY <2>1, <2>2
<1>3. T \in SUBSET Nat OBVIOUS
<1>4. T = Nat
  <2> HIDE DEF T
  <2>1. QED BY <1>1, <1>2, <1>3, NatSets
<1>5. QED BY <1>4

LEMMA TotalOne ==
  ASSUME NEW x \in Nat
  PROVE  Total(<<x>>) = x
<1>1. <<x>> \in Seq(Nat) /\ Len(<<x>>) = 1 /\ <<x>>[1] = x
  OBVIOUS
<1>2. PICK s : Sums(s, <<x>>) /\ Total(<<x>>) = s[1]
  BY <1>1, TotalSums
<1>3. s[1] = s[1 - 1] + x /\ s[0] = 0
  BY <1>1, <1>2 DEF Sums
<1>4. QED BY <1>2, <1>3

LEMMA TotalAppend ==
  ASSUME NEW list \in Seq(Nat), NEW x \in Nat
  PROVE  Total(Append(list, x)) = Total(list) + x /\ Total(list) \in Nat
<1> DEFINE more == Append(list, x)
           m == Len(list)
<1>1. /\ m \in Nat /\ more \in Seq(Nat) /\ Len(more) = m + 1 /\ more[m + 1] = x
      /\ \A i \in 1 .. m : list[i] = more[i]
  BY LenProperties, AppendProperties
<1> HIDE DEF more
<1>2. PICK s : Sums(s, list) /\ Total(list) = s[m]
  BY TotalSums
<1>3. PICK t : Sums(t, more) /\ Total(more) = t[Len(more)]
  BY <1>1, TotalSums
<1>4. s[m] = t[m]
  <2>1. m <= Len(list) /\ m <= Len(more) /\ Len(list) \in Nat /\ Len(more) \in Nat /\ m \in Nat
    BY <1>1
  <2>2. Sums(s, list) /\ Sums(t, more) /\ \A i \in 1 .. m : list[i] = more[i]
    BY <1>1, <1>2, <1>3
  <2> HIDE DEF m
  <2>3. QED BY <2>1, <2>2, SumsAgree
<1>5. t[m + 1] = t[m] + x
  <2>1. m + 1 \in 1 .. Len(more) /\ (m + 1) - 1 = m
    BY <1>1
  <2>2. QED BY <1>1, <1>3, <2>1 DEF Sums
<1>6. s[m] \in Nat
  BY <1>1, <1>2 DEF Sums
<1>7. QED BY <1>1, <1>2, <1>3, <1>4, <1>5, <1>6 DEF more

(* Parts that are all the same.                                            *)
LEMMA TotalEqual ==
  ASSUME NEW n \in Nat, NEW q \in Nat
  PROVE  Total([i \in 1 .. n |-> q]) = n * q
<1> DEFINE list == [i \in 1 .. n |-> q]
<1>1. list \in Seq(Nat) /\ Len(list) = n
  <2>1. list \in Seq(Nat)
    BY IsASeq
  <2>2. DOMAIN list = 1 .. n OBVIOUS
  <2> HIDE DEF list
  <2>3. QED BY <2>1, <2>2, LenProperties
<1>2. \A i \in 1 .. n : list[i] = q
  OBVIOUS
<1> HIDE DEF list
<1>3. PICK s : Sums(s, list) /\ Total(list) = s[n]
  BY <1>1, TotalSums
<1> DEFINE T == {m \in Nat : m <= n => s[m] = m * q}
<1>4. 0 \in T
  BY <1>3 DEF Sums
<1>5. ASSUME NEW m \in T PROVE m + 1 \in T
  <2>1. CASE m + 1 <= n
    <3>1. m + 1 \in 1 .. n /\ (m + 1) - 1 = m /\ m <= n /\ m \in Nat
      BY <2>1
    <3>2. s[m + 1] = s[m] + q
      BY <1>1, <1>2, <1>3, <3>1 DEF Sums
    <3>3. (m + 1) * q = m * q + q
      BY <3>1
    <3>4. QED BY <1>5, <3>1, <3>2, <3>3
  <2>2. CASE ~(m + 1 <= n) BY <2>2
  <2>3. QED BY <2>1, <2>2
<1>6. T \in SUBSET Nat OBVIOUS
<1>7. T = Nat
  <2> HIDE DEF T
  <2>1. QED BY <1>4, <1>5, <1>6, NatSets
<1>8. QED BY <1>3, <1>7 DEF list

LEMMA RouterLists ==
  /\ \A list, keep : Router!Selected(list, keep) = Selected(list, keep)
  /\ \A list : Router!Total(list) = Total(list)
BY DEF Router!Selected, Selected, Router!Total, Total

LEMMA RouterConstants ==
  /\ MaxParts \in Nat \ {0} /\ MaxQuantity \in Nat \ {0} /\ MaxChanges \in Nat
  /\ SplitEqual \subseteq BOOLEAN /\ FixedName \in Names /\ IsFiniteSet(Names) /\ 0 \notin Names
BY PartsConstants

LEMMA OneShareMore ==
  ASSUME NEW q \in Nat, NEW a \in Nat, NEW b \in Nat, NEW s \in Nat, NEW x \in Nat,
         NEW k \in Nat, NEW t \in Nat, s <= q * a + k * t, x <= q * b + t
  PROVE  s + x <= q * (a + b) + (k + 1) * t
<1>1. q * (a + b) = q * a + q * b /\ (k + 1) * t = k * t + t
  OBVIOUS
<1>2. q * a \in Nat /\ q * b \in Nat /\ k * t \in Nat
  OBVIOUS
<1>3. QED BY <1>1, <1>2

(* Shares of at least one unit, with what remains or nothing as the last.  *)
LEMMA SharesCover ==
  ASSUME NEW q \in Nat \ {0}, NEW w \in Seq(Nat), Len(w) > 0, Total(w) # 0
  PROVE  /\ Router!WeightedParts(q, w).scale = Total(w) /\ Total(w) \in Nat
         /\ Router!WeightedParts(q, w).parts \in Seq(Nat)
         /\ Len(Router!WeightedParts(q, w).parts) = Len(w)
         /\ Total(Router!WeightedParts(q, w).parts) >= q * Total(w)
         /\ Total(Router!WeightedParts(q, w).parts) <= (q + Len(w) - 1) * Total(w)
<1> DEFINE total == Total(w)
           n == Len(w)
           share(i) == IF q * w[i] < total THEN total ELSE q * w[i]
           firsts == [i \in 1 .. (n - 1) |-> share(i)]
           rest == q * total - Total(firsts)
           last == IF rest < 0 THEN 0 ELSE rest
           split == Router!WeightedParts(q, w)
<1>1. n \in Nat \ {0} /\ \A i \in 1 .. n : w[i] \in Nat
  BY LenProperties, ElementOfSeq
<1>2. PICK sw : Sums(sw, w) /\ total = sw[n]
  BY TotalSums
<1>3. total \in Nat \ {0} /\ q * total \in Nat
  BY <1>1, <1>2 DEF Sums
<1>4. split = [scale |-> total, parts |-> Append(firsts, last)]
  BY RouterLists DEF Router!WeightedParts
<1> HIDE DEF total, split, n
<1>5. ASSUME NEW i \in 1 .. n
      PROVE  share(i) \in Nat /\ q * w[i] \in Nat /\ share(i) <= q * w[i] + total
  <2>1. w[i] \in Nat /\ q * w[i] \in Nat
    BY <1>1
  <2>2. QED BY <1>3, <2>1
<1>6. firsts \in Seq(Nat) /\ Len(firsts) = n - 1 /\ \A i \in 1 .. (n - 1) : firsts[i] = share(i)
  <2> HIDE DEF share
  <2>1. n - 1 \in Nat /\ \A i \in 1 .. (n - 1) : i \in 1 .. n
    BY <1>1
  <2>2. \A i \in 1 .. (n - 1) : share(i) \in Nat
    BY <1>5, <2>1
  <2>3. firsts \in Seq(Nat)
    BY <2>1, <2>2, IsASeq
  <2>4. DOMAIN firsts = 1 .. (n - 1) /\ \A i \in 1 .. (n - 1) : firsts[i] = share(i)
    OBVIOUS
  <2> HIDE DEF firsts
  <2>5. QED BY <2>1, <2>3, <2>4, LenProperties
<1> HIDE DEF firsts
<1>7. PICK sf : Sums(sf, firsts) /\ Total(firsts) = sf[n - 1]
  BY <1>6, TotalSums
<1> DEFINE T == {k \in Nat : k <= n - 1 => sf[k] <= q * sw[k] + k * total}
<1>8. 0 \in T
  <2>1. sf[0] = 0 /\ sw[0] = 0
    BY <1>2, <1>7 DEF Sums
  <2>2. q * 0 = 0 /\ 0 * total = 0
    BY <1>3
  <2>3. QED BY <2>1, <2>2
<1>9. ASSUME NEW k \in T PROVE k + 1 \in T
  <2>1. CASE k + 1 <= n - 1
    <3>1. /\ k \in Nat /\ k <= n - 1 /\ k + 1 \in 1 .. (n - 1) /\ k + 1 \in 1 .. n
          /\ (k + 1) - 1 = k /\ k \in 0 .. (n - 1) /\ k \in 0 .. n
      BY <1>1, <2>1
    <3>2. sf[k + 1] = sf[k] + share(k + 1) /\ sf[k] \in Nat
      <4> HIDE DEF share
      <4>1. QED BY <1>6, <1>7, <3>1 DEF Sums
    <3>3. sw[k + 1] = sw[k] + w[k + 1] /\ sw[k] \in Nat /\ w[k + 1] \in Nat
      <4>1. w[k + 1] \in Nat
        BY <1>1, <3>1
      <4>2. QED BY <1>2, <3>1, <4>1 DEF Sums, n
    <3>4. share(k + 1) \in Nat /\ share(k + 1) <= q * w[k + 1] + total
      BY <1>5, <3>1
    <3> HIDE DEF share
    <3>5. sf[k] <= q * sw[k] + k * total
      BY <1>9, <3>1
    <3>6. sf[k] + share(k + 1) <= q * (sw[k] + w[k + 1]) + (k + 1) * total
      BY <1>3, <3>1, <3>2, <3>3, <3>4, <3>5, OneShareMore
    <3>7. QED BY <3>1, <3>2, <3>3, <3>6
  <2>2. CASE ~(k + 1 <= n - 1) BY <2>2
  <2>3. QED BY <2>1, <2>2
<1>10. T = Nat
  <2>1. T \in SUBSET Nat OBVIOUS
  <2> HIDE DEF T
  <2>2. QED BY <1>8, <1>9, <2>1, NatSets
<1>11. sf[n - 1] <= q * sw[n - 1] + (n - 1) * total /\ sf[n - 1] \in Nat
  <2>1. n - 1 \in T /\ n - 1 \in 0 .. (n - 1)
    BY <1>1, <1>10
  <2>2. QED BY <1>6, <1>7, <2>1 DEF Sums
<1>12. sw[n - 1] <= total /\ sw[n - 1] \in Nat
  <2>1. n \in 1 .. n /\ n - 1 \in 0 .. n
    BY <1>1
  <2>2. sw[n] = sw[n - 1] + w[n] /\ sw[n - 1] \in Nat
    BY <1>2, <2>1 DEF Sums, n
  <2>3. QED BY <1>1, <1>2, <2>1, <2>2
<1>13. q * sw[n - 1] <= q * total /\ q * sw[n - 1] \in Nat
  <2>1. total - sw[n - 1] \in Nat /\ q * (total - sw[n - 1]) \in Nat
    BY <1>3, <1>12
  <2>2. q * (total - sw[n - 1]) = q * total - q * sw[n - 1] /\ q * sw[n - 1] \in Nat
    BY <1>3, <1>12
  <2>3. QED BY <1>3, <2>1, <2>2
<1>14. (q + n - 1) * total = q * total + (n - 1) * total /\ (n - 1) * total \in Nat
  BY <1>1, <1>3
<1>15. last \in Nat /\ Total(firsts) + last >= q * total /\ Total(firsts) + last <= (q + n - 1) * total
  <2>1. Total(firsts) \in Nat /\ Total(firsts) <= q * total + (n - 1) * total
    BY <1>3, <1>7, <1>11, <1>13, <1>14
  <2>2. rest \in Int
    BY <1>3, <2>1
  <2>3. CASE rest < 0
    BY <1>3, <1>14, <2>1, <2>3
  <2>4. CASE ~(rest < 0)
    BY <1>3, <1>14, <2>1, <2>2, <2>4
  <2>5. QED BY <2>3, <2>4
<1> HIDE DEF last
<1>16. /\ Append(firsts, last) \in Seq(Nat) /\ Len(Append(firsts, last)) = n
       /\ Total(Append(firsts, last)) = Total(firsts) + last
  <2>1. Append(firsts, last) \in Seq(Nat) /\ Len(Append(firsts, last)) = Len(firsts) + 1
    BY <1>6, <1>15, AppendProperties
  <2>2. QED BY <1>1, <1>6, <1>15, <2>1, TotalAppend
<1>17. QED BY <1>3, <1>4, <1>15, <1>16 DEF split, total, n

-----------------------------------------------------------------------------
(* The router's lists, with one element more or less.                      *)
LEMMA FirstOf ==
  ASSUME NEW S \in SUBSET Nat, S # {}
  PROVE  Router!Min(S) \in S /\ \A y \in S : Router!Min(S) <= y
<1>1. PICK x \in S : \A y \in S : <<y, x>> \notin Less
  BY LessWellFounded, WFMin
<1>2. \A y \in S : x <= y
  <2> SUFFICES ASSUME NEW y \in S, ~(x <= y) PROVE FALSE
    OBVIOUS
  <2>1. x \in Nat /\ y \in Nat /\ y < x
    OBVIOUS
  <2>2. <<y, x>> \in Less
    BY <2>1 DEF Less
  <2>3. QED BY <1>1, <2>2
<1>3. QED BY <1>2 DEF Router!Min

LEMMA FirstTakenOut ==
  ASSUME NEW S, NEW list \in Seq(S), NEW e, \E i \in 1 .. Len(list) : list[i] = e
  PROVE  \E k \in 1 .. Len(list) :
           /\ list[k] = e
           /\ Router!RemoveFirst(list, e) \in Seq(S)
           /\ Len(Router!RemoveFirst(list, e)) = Len(list) - 1
           /\ \A i \in 1 .. (Len(list) - 1) :
                Router!RemoveFirst(list, e)[i] = IF i < k THEN list[i] ELSE list[i + 1]
<1> DEFINE c == Len(list)
           I == {i \in 1 .. c : list[i] = e}
           k == Router!Min(I)
           u == SubSeq(list, 1, k - 1)
           v == SubSeq(list, k + 1, c)
<1>1. c \in Nat /\ \A i \in 1 .. c : list[i] \in S
  BY LenProperties, ElementOfSeq
<1>2. k \in 1 .. c /\ list[k] = e
  <2>1. I \in SUBSET Nat /\ I # {}
    BY <1>1
  <2>2. k \in I
    <3> HIDE DEF I
    <3>1. QED BY <2>1, FirstOf
  <2>3. QED BY <2>2
<1>3. Router!RemoveFirst(list, e) = u \o v
  <2>1. I # {}
    OBVIOUS
  <2>2. QED BY <2>1 DEF Router!RemoveFirst, Router!RemoveAt, Router!SelectInSeq
<1> HIDE DEF k, c
<1>4. u \in Seq(S) /\ Len(u) = k - 1 /\ \A i \in 1 .. (k - 1) : u[i] = list[i]
  <2>1. 1 \in Int /\ k - 1 \in Int /\ (\A i \in 1 .. (k - 1) : list[i] \in S) /\ (k - 1) - 1 + 1 = k - 1
    BY <1>1, <1>2
  <2>2. /\ u \in Seq(S) /\ Len(u) = IF 1 <= k - 1 THEN (k - 1) - 1 + 1 ELSE 0
        /\ \A i \in 1 .. ((k - 1) - 1 + 1) : u[i] = list[1 + i - 1]
    BY <2>1, SubSeqProperties
  <2> HIDE DEF u
  <2>3. \A i \in 1 .. (k - 1) : 1 + i - 1 = i
    OBVIOUS
  <2>4. Len(u) = k - 1
    BY <1>2, <2>1, <2>2
  <2>5. QED BY <2>1, <2>2, <2>3, <2>4
<1>5. v \in Seq(S) /\ Len(v) = c - k /\ \A i \in 1 .. (c - k) : v[i] = list[k + i]
  <2>1. k + 1 \in Int /\ c \in Int /\ (\A i \in (k + 1) .. c : list[i] \in S) /\ c - (k + 1) + 1 = c - k
    BY <1>1, <1>2
  <2>2. /\ v \in Seq(S) /\ Len(v) = IF k + 1 <= c THEN c - (k + 1) + 1 ELSE 0
        /\ \A i \in 1 .. (c - (k + 1) + 1) : v[i] = list[(k + 1) + i - 1]
    BY <2>1, SubSeqProperties
  <2> HIDE DEF v
  <2>3. \A i \in 1 .. (c - k) : (k + 1) + i - 1 = k + i
    BY <1>2
  <2>4. Len(v) = c - k
    BY <1>1, <1>2, <2>1, <2>2
  <2>5. QED BY <2>1, <2>2, <2>3, <2>4
<1> HIDE DEF u, v
<1> DEFINE r == u \o v
<1>6. /\ r \in Seq(S) /\ Len(r) = c - 1
      /\ \A i \in 1 .. (c - 1) : r[i] = IF i <= k - 1 THEN u[i] ELSE v[i - (k - 1)]
  <2>1. /\ r \in Seq(S) /\ Len(r) = Len(u) + Len(v)
        /\ \A i \in 1 .. (Len(u) + Len(v)) : r[i] = IF i <= Len(u) THEN u[i] ELSE v[i - Len(u)]
    BY <1>4, <1>5, ConcatProperties
  <2>2. Len(u) + Len(v) = c - 1
    BY <1>1, <1>2, <1>4, <1>5
  <2> HIDE DEF r
  <2>3. QED BY <1>4, <2>1, <2>2
<1> HIDE DEF r
<1>7. ASSUME NEW i \in 1 .. (c - 1)
      PROVE  r[i] = IF i < k THEN list[i] ELSE list[i + 1]
  <2>1. CASE i < k
    <3>1. i \in 1 .. (k - 1) /\ i <= k - 1
      BY <1>2, <2>1
    <3>2. QED BY <1>4, <1>6, <2>1, <3>1
  <2>2. CASE ~(i < k)
    <3>1. i - (k - 1) \in 1 .. (c - k) /\ ~(i <= k - 1) /\ k + (i - (k - 1)) = i + 1
      BY <1>1, <1>2, <2>2
    <3>2. r[i] = v[i - (k - 1)]
      BY <1>6, <3>1
    <3>3. v[i - (k - 1)] = list[k + (i - (k - 1))]
      BY <1>5, <3>1
    <3>4. QED BY <2>2, <3>1, <3>2, <3>3
  <2>3. QED BY <2>1, <2>2
<1>8. QED BY <1>2, <1>3, <1>6, <1>7 DEF r, c

LEMMA OneInserted ==
  ASSUME NEW S, NEW list \in Seq(S), NEW e \in S, NEW k \in 1 .. (Len(list) + 1)
  PROVE  /\ Router!InsertAt(list, k, e) \in Seq(S)
         /\ Len(Router!InsertAt(list, k, e)) = Len(list) + 1
         /\ \A i \in 1 .. (Len(list) + 1) :
              Router!InsertAt(list, k, e)[i] =
                IF i < k THEN list[i] ELSE IF i = k THEN e ELSE list[i - 1]
<1> DEFINE c == Len(list)
           u == SubSeq(list, 1, k - 1)
           v == SubSeq(list, k, c)
           m == u \o <<e>>
           r == m \o v
<1>1. c \in Nat /\ \A i \in 1 .. c : list[i] \in S
  BY LenProperties, ElementOfSeq
<1>2. Router!InsertAt(list, k, e) = r
  BY DEF Router!InsertAt
<1> HIDE DEF c
<1>3. k \in Nat \ {0} /\ k <= c + 1
  BY <1>1 DEF c
<1>4. u \in Seq(S) /\ Len(u) = k - 1 /\ \A i \in 1 .. (k - 1) : u[i] = list[i]
  <2>1. 1 \in Int /\ k - 1 \in Int /\ (\A i \in 1 .. (k - 1) : list[i] \in S) /\ (k - 1) - 1 + 1 = k - 1
    BY <1>1, <1>3
  <2>2. /\ u \in Seq(S) /\ Len(u) = IF 1 <= k - 1 THEN (k - 1) - 1 + 1 ELSE 0
        /\ \A i \in 1 .. ((k - 1) - 1 + 1) : u[i] = list[1 + i - 1]
    BY <2>1, SubSeqProperties
  <2> HIDE DEF u
  <2>3. \A i \in 1 .. (k - 1) : 1 + i - 1 = i
    OBVIOUS
  <2>4. Len(u) = k - 1
    BY <1>3, <2>1, <2>2
  <2>5. QED BY <2>1, <2>2, <2>3, <2>4
<1>5. v \in Seq(S) /\ Len(v) = c - k + 1 /\ \A i \in 1 .. (c - k + 1) : v[i] = list[k + i - 1]
  <2>1. k \in Int /\ c \in Int /\ (\A i \in k .. c : list[i] \in S)
    BY <1>1, <1>3
  <2>2. /\ v \in Seq(S) /\ Len(v) = IF k <= c THEN c - k + 1 ELSE 0
        /\ \A i \in 1 .. (c - k + 1) : v[i] = list[k + i - 1]
    BY <2>1, SubSeqProperties
  <2> HIDE DEF v
  <2>3. Len(v) = c - k + 1
    BY <1>1, <1>3, <2>2
  <2>4. QED BY <2>2, <2>3
<1> HIDE DEF u, v
<1>6. /\ m \in Seq(S) /\ Len(m) = k /\ m[k] = e
      /\ \A i \in 1 .. (k - 1) : m[i] = list[i]
  <2> DEFINE one == <<e>>
  <2>1. one \in Seq(S) /\ Len(one) = 1 /\ one[1] = e
    OBVIOUS
  <2> HIDE DEF one
  <2>2. /\ u \o one \in Seq(S) /\ Len(u \o one) = Len(u) + Len(one)
        /\ \A i \in 1 .. (Len(u) + Len(one)) :
             (u \o one)[i] = IF i <= Len(u) THEN u[i] ELSE one[i - Len(u)]
    BY <1>4, <2>1, ConcatProperties
  <2>3. Len(u) + Len(one) = k /\ k \in 1 .. k /\ ~(k <= Len(u)) /\ k - Len(u) = 1
    BY <1>3, <1>4, <2>1
  <2>4. Len(u \o one) = k /\ (u \o one)[k] = e
    BY <2>1, <2>2, <2>3
  <2>5. ASSUME NEW i \in 1 .. (k - 1) PROVE (u \o one)[i] = list[i]
    <3>1. i \in 1 .. k /\ i <= Len(u)
      BY <1>3, <1>4
    <3>2. QED BY <1>4, <2>2, <2>3, <3>1
  <2>6. QED BY <2>2, <2>4, <2>5 DEF one
<1> HIDE DEF m
<1>7. /\ r \in Seq(S) /\ Len(r) = c + 1
      /\ \A i \in 1 .. (c + 1) : r[i] = IF i <= k THEN m[i] ELSE v[i - k]
  <2>1. /\ r \in Seq(S) /\ Len(r) = Len(m) + Len(v)
        /\ \A i \in 1 .. (Len(m) + Len(v)) : r[i] = IF i <= Len(m) THEN m[i] ELSE v[i - Len(m)]
    BY <1>5, <1>6, ConcatProperties
  <2>2. Len(m) + Len(v) = c + 1
    BY <1>1, <1>3, <1>5, <1>6
  <2> HIDE DEF r
  <2>3. QED BY <1>6, <2>1, <2>2
<1> HIDE DEF r
<1>8. ASSUME NEW i \in 1 .. (c + 1)
      PROVE  r[i] = IF i < k THEN list[i] ELSE IF i = k THEN e ELSE list[i - 1]
  <2>1. CASE i < k
    <3>1. i \in 1 .. (k - 1) /\ i <= k
      BY <1>3, <2>1
    <3>2. QED BY <1>6, <1>7, <2>1, <3>1
  <2>2. CASE i = k
    BY <1>3, <1>6, <1>7, <2>2
  <2>3. CASE i > k
    <3>1. i - k \in 1 .. (c - k + 1) /\ ~(i <= k) /\ k + (i - k) - 1 = i - 1
      BY <1>1, <1>3, <2>3
    <3>2. r[i] = v[i - k]
      BY <1>7, <3>1
    <3>3. v[i - k] = list[k + (i - k) - 1]
      BY <1>5, <3>1
    <3>4. ~(i < k) /\ i # k
      BY <1>3, <2>3
    <3>5. QED BY <3>1, <3>2, <3>3, <3>4
  <2>4. QED BY <1>3, <2>1, <2>2, <2>3
<1>9. QED BY <1>2, <1>7, <1>8 DEF c

-----------------------------------------------------------------------------
(* The router.                                                             *)
Metrics == [flag : BOOLEAN, cost : Nat, latency : Nat, total : Nat, filled : Nat, rate : Nat \X Nat]
Checks == [at : {"idle", "asking", "returned", "raised"}, name : Names \union {0}, pos : Nat,
           left : Nat, size : Nat, visited : SUBSET Names, rebuilt : BOOLEAN]

(* Names have one entry; nobody filled more orders than it was given.      *)
RegistryInv ==
  /\ rTable \in Seq(Names \union {0}) /\ Once(rTable, Names)
  /\ rMetrics \in [Names -> Metrics]
  /\ \A b \in Names : rMetrics[b].filled <= rMetrics[b].total
  /\ rUp \in [Names -> BOOLEAN]

Sorted(rules) == \A i, j \in 1 .. Len(rules) : i < j => rules[i].priority >= rules[j].priority

RoutingInv == rRules \in Seq(Router!Rules) /\ Sorted(rRules) /\ rIndex \in Nat /\ rEqual \in BOOLEAN

(* The entries the iterator of check c has passed were asked, or are being *)
(* asked, and those to come are behind it.                                 *)
Passed(c) ==
  /\ c.pos <= Len(rTable)
  /\ \A i \in 1 .. Len(rTable) : i <= c.pos => rTable[i] \in c.visited \union {c.name, 0}

(* A check under way waits for a broker, and has lost nothing unless the   *)
(* dictionary was rebuilt.                                                 *)
CheckInv ==
  /\ rCheck \in Checks
  /\ rCheck.at = "asking" => rCheck.name \in Names /\ (rCheck.rebuilt \/ Passed(rCheck))

RouterInv == RegistryInv /\ RoutingInv /\ CheckInv /\ rChanges \in 0 .. MaxChanges

LEMMA RegisteredNames ==
  ASSUME RegistryInv
  PROVE  /\ Len(rTable) \in Nat /\ DOMAIN rTable = 1 .. Len(rTable) /\ 0 \notin Names
         /\ \A i \in 1 .. Len(rTable) : rTable[i] \in Names \union {0}
         /\ Router!Registered = {rTable[i] : i \in 1 .. Len(rTable)} \ {0}
         /\ Router!Registered \subseteq Names
         /\ Router!Cardinality(Router!Registered) \in Nat
<1>1. /\ Len(rTable) \in Nat /\ DOMAIN rTable = 1 .. Len(rTable)
      /\ \A i \in 1 .. Len(rTable) : rTable[i] \in Names \union {0}
  BY LenProperties, ElementOfSeq DEF RegistryInv
<1>2. /\ Router!Registered = {rTable[i] : i \in 1 .. Len(rTable)} \ {0}
      /\ Router!Registered \subseteq Names
  BY <1>1 DEF Router!Registered, Router!ToSet
<1>3. Cardinality(Router!Registered) \in Nat
  BY <1>2, RouterConstants, FS_Subset, FS_CardinalityType
<1>4. Router!Cardinality(Router!Registered) = Cardinality(Router!Registered)
  BY DEF Router!Cardinality, Cardinality
<1>5. QED BY <1>1, <1>2, <1>3, <1>4, RouterConstants

LEMMA NewMetricsTyped == Router!NewMetrics \in Metrics /\ Router!NewMetrics.filled <= Router!NewMetrics.total
<1>1. <<0, 1>> \in Nat \X Nat
  OBVIOUS
<1>2. QED BY <1>1 DEF Router!NewMetrics, Metrics

(* The metrics of one broker are written.                                  *)
LEMMA MetricsWritten ==
  ASSUME RegistryInv, NEW b \in Names, NEW m \in Metrics, m.filled <= m.total,
         rMetrics' = [rMetrics EXCEPT ![b] = m], UNCHANGED <<rTable, rUp>>
  PROVE  RegistryInv'
<1>1. rMetrics' \in [Names -> Metrics] /\ \A n \in Names : rMetrics'[n] = IF n = b THEN m ELSE rMetrics[n]
  BY DEF RegistryInv
<1>2. \A n \in Names : rMetrics'[n].filled <= rMetrics'[n].total
  BY <1>1 DEF RegistryInv
<1>3. QED BY <1>1, <1>2 DEF RegistryInv

LEMMA ChangeCounted ==
  ASSUME RouterInv, Router!Change
  PROVE  rChanges' \in 0 .. MaxChanges
BY RouterConstants DEF RouterInv, Router!Change

(* The metrics of a broker begin anew.                                     *)
LEMMA MetricsAnew ==
  ASSUME RegistryInv, NEW b \in Names, rMetrics' = [rMetrics EXCEPT ![b] = Router!NewMetrics]
  PROVE  rMetrics' \in [Names -> Metrics] /\ \A n \in Names : rMetrics'[n].filled <= rMetrics'[n].total
<1>1. /\ rMetrics' \in [Names -> Metrics]
      /\ \A n \in Names : rMetrics'[n] = IF n = b THEN Router!NewMetrics ELSE rMetrics[n]
  BY NewMetricsTyped DEF RegistryInv
<1>2. QED BY <1>1, NewMetricsTyped DEF RegistryInv

(* A name that is not in a list is appended to it.                         *)
LEMMA OneAppended ==
  ASSUME NEW list \in Seq(Names \union {0}), Once(list, Names), NEW b \in Names,
         \A i \in 1 .. Len(list) : list[i] # b
  PROVE  /\ Append(list, b) \in Seq(Names \union {0}) /\ Once(Append(list, b), Names)
         /\ Len(list) \in Nat /\ Len(Append(list, b)) = Len(list) + 1
         /\ \A i \in 1 .. Len(list) : Append(list, b)[i] = list[i]
<1> DEFINE c == Len(list)
           w == Append(list, b)
<1>1. /\ c \in Nat /\ w \in Seq(Names \union {0}) /\ Len(w) = c + 1 /\ w[c + 1] = b
      /\ \A i \in 1 .. c : w[i] = list[i]
  BY LenProperties, AppendProperties
<1> HIDE DEF w
<1>2. Once(w, Names)
  <2> SUFFICES ASSUME NEW i \in 1 .. (c + 1), NEW j \in 1 .. (c + 1), w[i] = w[j], w[i] \in Names
               PROVE  i = j
    BY <1>1 DEF Once
  <2>1. (i \in 1 .. c \/ i = c + 1) /\ (j \in 1 .. c \/ j = c + 1)
    BY <1>1
  <2>2. CASE i \in 1 .. c /\ j \in 1 .. c
    BY <1>1, <2>2 DEF Once
  <2>3. CASE ~(i \in 1 .. c /\ j \in 1 .. c)
    BY <1>1, <2>1, <2>3
  <2>4. QED BY <2>2, <2>3
<1>3. QED BY <1>1, <1>2 DEF w

LEMMA RegisterHolds ==
  ASSUME RouterInv, NEW b \in Names, Router!Register(b)
  PROVE  RouterInv'
<1>1. /\ RegistryInv /\ CheckInv /\ rMetrics' = [rMetrics EXCEPT ![b] = Router!NewMetrics]
      /\ UNCHANGED <<rUp, rRules, rIndex, rEqual>> /\ Router!Insert(b)
  BY DEF RouterInv, Router!Register
<1>2. RoutingInv'
  BY <1>1 DEF RouterInv, RoutingInv, Sorted
<1>3. rMetrics' \in [Names -> Metrics] /\ \A n \in Names : rMetrics'[n].filled <= rMetrics'[n].total
  BY <1>1, MetricsAnew
<1>4. SUFFICES rTable' \in Seq(Names \union {0}) /\ Once(rTable', Names) /\ CheckInv'
  BY <1>1, <1>2, <1>3, ChangeCounted DEF RouterInv, RegistryInv, Router!Register, Once
<1>5. rTable \in Seq(Names \union {0}) /\ Once(rTable, Names)
  BY <1>1 DEF RegistryInv
<1>6. CASE b \in Router!Registered
  <2>1. UNCHANGED <<rTable, rCheck>>
    BY <1>1, <1>6 DEF Router!Insert
  <2>2. QED BY <1>1, <1>5, <2>1 DEF CheckInv, Passed, Once
<1>7. CASE b \notin Router!Registered /\ rTable' = Append(rTable, b) /\ UNCHANGED rCheck
  <2>1. \A i \in 1 .. Len(rTable) : rTable[i] # b
    BY <1>1, <1>7, RegisteredNames
  <2>2. /\ rTable' \in Seq(Names \union {0}) /\ Once(rTable', Names)
        /\ Len(rTable) \in Nat /\ Len(rTable') = Len(rTable) + 1
        /\ \A i \in 1 .. Len(rTable) : rTable'[i] = rTable[i]
    BY <1>5, <1>7, <2>1, OneAppended
  <2>3. ASSUME Passed(rCheck), rCheck.pos \in Nat PROVE Passed(rCheck)'
    <3>1. rCheck.pos <= Len(rTable')
      BY <2>2, <2>3 DEF Passed
    <3>2. ASSUME NEW i \in 1 .. Len(rTable'), i <= rCheck.pos
          PROVE  rTable'[i] \in rCheck.visited \union {rCheck.name, 0}
      <4>1. i \in 1 .. Len(rTable)
        BY <2>2, <2>3, <3>2 DEF Passed
      <4>2. QED BY <2>2, <2>3, <3>2, <4>1 DEF Passed
    <3>3. QED BY <1>7, <3>1, <3>2 DEF Passed
  <2>4. CheckInv'
    <3>1. rCheck.pos \in Nat
      BY <1>1 DEF CheckInv, Checks
    <3>2. QED BY <1>1, <1>7, <2>3, <3>1 DEF CheckInv
  <2>5. QED BY <2>2, <2>4
<1>8. CASE b \notin Router!Registered /\ Router!Rebuild(b)
  <2> DEFINE live == Selected(rTable, Router!Registered)
  <2>1. rTable' = Append(live, b) /\ rCheck' = [rCheck EXCEPT !.rebuilt = TRUE]
    BY <1>8, RouterLists DEF Router!Rebuild
  <2>2. (Names \union {0}) \intersect Router!Registered = Router!Registered /\ Router!Registered \subseteq Names
    BY <1>1, RegisteredNames
  <2>3. live \in Seq(Router!Registered) /\ Once(live, Router!Registered)
    <3>1. Once(rTable, Router!Registered)
      BY <1>5, <2>2 DEF Once
    <3>2. live \in Seq((Names \union {0}) \intersect Router!Registered) /\ Once(live, Router!Registered)
      BY <1>5, <3>1, SelectedOnce
    <3>3. QED BY <2>2, <3>2
  <2> HIDE DEF live
  <2>4. live \in Seq(Names \union {0}) /\ \A i \in 1 .. Len(live) : live[i] \in Router!Registered
    BY <2>2, <2>3, ElementOfSeq
  <2>5. Once(live, Names) /\ \A i \in 1 .. Len(live) : live[i] # b
    BY <1>8, <2>3, <2>4 DEF Once
  <2>6. rTable' \in Seq(Names \union {0}) /\ Once(rTable', Names)
    BY <2>1, <2>4, <2>5, OneAppended
  <2>7. CheckInv'
    BY <1>1, <2>1 DEF CheckInv, Checks
  <2>8. QED BY <2>6, <2>7
<1>9. QED BY <1>1, <1>6, <1>7, <1>8 DEF Router!Insert

LEMMA UnregisterHolds ==
  ASSUME RouterInv, NEW b \in Names, Router!Unregister(b)
  PROVE  RouterInv'
<1> DEFINE c == Len(rTable)
<1>1. /\ RegistryInv /\ CheckInv
      /\ rTable' = [i \in 1 .. c |-> IF rTable[i] = b THEN 0 ELSE rTable[i]]
      /\ rMetrics' = [rMetrics EXCEPT ![b] = Router!NewMetrics]
      /\ rCheck' = [rCheck EXCEPT !.visited = rCheck.visited \ {b}]
      /\ UNCHANGED <<rUp, rRules, rIndex, rEqual>>
  BY DEF RouterInv, Router!Unregister
<1>2. RoutingInv'
  BY <1>1 DEF RouterInv, RoutingInv, Sorted
<1>3. rMetrics' \in [Names -> Metrics] /\ \A n \in Names : rMetrics'[n].filled <= rMetrics'[n].total
  BY <1>1, MetricsAnew
<1>4. c \in Nat /\ 0 \notin Names /\ \A i \in 1 .. c : rTable[i] \in Names \union {0}
  BY <1>1, RegisteredNames
<1>5. /\ rTable' \in Seq(Names \union {0}) /\ Len(rTable') = c
      /\ \A i \in 1 .. c : rTable'[i] = IF rTable[i] = b THEN 0 ELSE rTable[i]
  <2> HIDE DEF c
  <2>1. rTable' \in Seq(Names \union {0}) /\ DOMAIN rTable' = 1 .. c
    BY <1>1, <1>4, IsASeq
  <2>2. QED BY <1>1, <1>4, <2>1, LenProperties
<1>6. Once(rTable', Names)
  BY <1>1, <1>4, <1>5 DEF Once, RegistryInv
<1>7. /\ rCheck' \in Checks /\ rCheck'.at = rCheck.at /\ rCheck'.name = rCheck.name
      /\ rCheck'.pos = rCheck.pos /\ rCheck'.rebuilt = rCheck.rebuilt
      /\ rCheck'.visited = rCheck.visited \ {b}
  <2>1. rCheck \in Checks /\ rCheck.visited \ {b} \in SUBSET Names
    BY <1>1 DEF CheckInv, Checks
  <2>2. QED BY <1>1, <2>1 DEF Checks
<1>8. Passed(rCheck) => Passed(rCheck)'
  BY <1>4, <1>5, <1>7 DEF Passed
<1>9. CheckInv'
  BY <1>1, <1>7, <1>8 DEF CheckInv
<1>10. RegistryInv'
  BY <1>1, <1>3, <1>5, <1>6 DEF RegistryInv
<1>11. QED BY <1>2, <1>9, <1>10, ChangeCounted DEF RouterInv, Router!Unregister

LEMMA AddRuleHolds ==
  ASSUME RouterInv, NEW rule \in Router!Rules, Router!AddRule(rule)
  PROVE  RouterInv'
<1> DEFINE c == Len(rRules)
           below == {i \in 1 .. c : rRules[i].priority < rule.priority}
           k == Router!Min(below \union {c + 1})
<1>1. /\ rRules \in Seq(Router!Rules) /\ Sorted(rRules) /\ rIndex \in Nat /\ rEqual \in BOOLEAN
      /\ RegistryInv /\ CheckInv
  BY DEF RouterInv, RoutingInv
<1>2. c \in Nat /\ \A i \in 1 .. c : rRules[i] \in Router!Rules
  BY <1>1, LenProperties, ElementOfSeq
<1>3. /\ rRules' = Router!InsertAt(rRules, k, rule)
      /\ UNCHANGED <<rTable, rMetrics, rUp, rIndex, rEqual, rCheck>>
  BY DEF Router!AddRule, Router!registry
<1>4. /\ k \in 1 .. (c + 1) /\ (k <= c => rRules[k].priority < rule.priority)
      /\ \A i \in 1 .. c : i < k => ~(rRules[i].priority < rule.priority)
  <2>1. below \union {c + 1} \in SUBSET Nat /\ below \union {c + 1} # {} /\ below \subseteq 1 .. c
    BY <1>2
  <2>2. k \in below \union {c + 1} /\ \A y \in below \union {c + 1} : k <= y
    <3> HIDE DEF below
    <3>1. QED BY <2>1, FirstOf
  <2> HIDE DEF k
  <2>3. k \in 1 .. (c + 1)
    BY <1>2, <2>1, <2>2
  <2>4. k <= c => k \in below
    BY <1>2, <2>2
  <2>5. \A i \in 1 .. c : i < k => i \notin below
    BY <1>2, <2>2, <2>3
  <2>6. QED BY <2>3, <2>4, <2>5
<1> HIDE DEF k
<1>5. /\ rRules' \in Seq(Router!Rules) /\ Len(rRules') = c + 1
      /\ \A i \in 1 .. (c + 1) :
           rRules'[i] = IF i < k THEN rRules[i] ELSE IF i = k THEN rule ELSE rRules[i - 1]
  <2>1. rRules \in Seq(Router!Rules) /\ rule \in Router!Rules /\ k \in 1 .. (Len(rRules) + 1)
    BY <1>1, <1>4
  <2>2. /\ Router!InsertAt(rRules, k, rule) \in Seq(Router!Rules)
        /\ Len(Router!InsertAt(rRules, k, rule)) = Len(rRules) + 1
        /\ \A i \in 1 .. (Len(rRules) + 1) :
             Router!InsertAt(rRules, k, rule)[i] =
               IF i < k THEN rRules[i] ELSE IF i = k THEN rule ELSE rRules[i - 1]
    BY <2>1, OneInserted
  <2>3. QED BY <1>3, <2>2
<1>6. \A r \in Router!Rules : r.priority \in Int
  BY DEF Router!Rules
<1>7. Sorted(rRules')
  <2> SUFFICES ASSUME NEW i \in 1 .. (c + 1), NEW j \in 1 .. (c + 1), i < j
               PROVE  rRules'[i].priority >= rRules'[j].priority
    BY <1>5 DEF Sorted
  <2> HIDE DEF c
  <2>1. \A m, n \in 1 .. c : m < n => rRules[m].priority >= rRules[n].priority
    BY <1>1 DEF Sorted, c
  <2>2. (\A m \in 1 .. c : rRules[m].priority \in Int) /\ rule.priority \in Int
    BY <1>2, <1>6
  <2>3. CASE j < k
    <3>1. i \in 1 .. c /\ j \in 1 .. c /\ i < k
      BY <1>2, <1>4, <2>3
    <3>2. rRules'[i] = rRules[i] /\ rRules'[j] = rRules[j]
      BY <1>5, <2>3, <3>1
    <3>3. QED BY <2>1, <3>1, <3>2
  <2>4. CASE j = k
    <3>1. i \in 1 .. c /\ i < k
      BY <1>2, <1>4, <2>4
    <3>2. rRules'[i] = rRules[i] /\ rRules'[j] = rule
      BY <1>4, <1>5, <2>4, <3>1
    <3>3. QED BY <1>4, <2>2, <3>1, <3>2
  <2>5. CASE j > k
    <3>1. j - 1 \in 1 .. c /\ ~(j < k) /\ j # k /\ k <= j - 1 /\ k <= c
      BY <1>2, <1>4, <2>5
    <3>2. rRules'[j] = rRules[j - 1]
      BY <1>5, <3>1
    <3>3. CASE i < k
      <4>1. i \in 1 .. c /\ i < j - 1
        BY <1>2, <1>4, <3>1, <3>3
      <4>2. rRules'[i] = rRules[i]
        BY <1>5, <3>3
      <4>3. QED BY <2>1, <3>1, <3>2, <4>1, <4>2
    <3>4. CASE i = k
      <4>1. rRules'[i] = rule /\ k \in 1 .. c
        BY <1>4, <1>5, <3>1, <3>4
      <4>2. rRules[k].priority >= rRules[j - 1].priority
        <5>1. CASE k = j - 1
          BY <2>2, <4>1, <5>1
        <5>2. CASE k < j - 1
          BY <2>1, <3>1, <4>1, <5>2
        <5>3. QED BY <1>4, <3>1, <5>1, <5>2
      <4>3. QED BY <1>4, <2>2, <3>1, <3>2, <4>1, <4>2
    <3>5. CASE i > k
      <4>1. i - 1 \in 1 .. c /\ ~(i < k) /\ i # k /\ i - 1 < j - 1
        BY <1>2, <1>4, <3>5
      <4>2. rRules'[i] = rRules[i - 1]
        BY <1>5, <4>1
      <4>3. QED BY <2>1, <3>1, <3>2, <4>1, <4>2
    <3>6. QED BY <1>4, <3>3, <3>4, <3>5
  <2>6. QED BY <1>4, <2>3, <2>4, <2>5
<1>8. RegistryInv' /\ CheckInv'
  BY <1>1, <1>3 DEF RegistryInv, CheckInv, Passed, Once
<1>9. RoutingInv'
  BY <1>1, <1>3, <1>5, <1>7 DEF RoutingInv, Sorted
<1>10. QED BY <1>8, <1>9, ChangeCounted DEF RouterInv, Router!AddRule

LEMMA RemoveRuleHolds ==
  ASSUME RouterInv, NEW rule \in Router!Rules, Router!RemoveRule(rule)
  PROVE  RouterInv'
<1> DEFINE c == Len(rRules)
<1>1. /\ rRules \in Seq(Router!Rules) /\ Sorted(rRules) /\ rIndex \in Nat /\ rEqual \in BOOLEAN
      /\ RegistryInv /\ CheckInv
  BY DEF RouterInv, RoutingInv
<1>2. /\ rRules' = Router!RemoveFirst(rRules, rule) /\ \E i \in 1 .. c : rRules[i] = rule
      /\ UNCHANGED <<rTable, rMetrics, rUp, rIndex, rEqual, rCheck>>
  BY DEF Router!RemoveRule, Router!registry, Router!Contains
<1>3. c \in Nat
  BY <1>1, LenProperties
<1>4. PICK k \in 1 .. c :
           /\ rRules' \in Seq(Router!Rules) /\ Len(rRules') = c - 1
           /\ \A i \in 1 .. (c - 1) : rRules'[i] = IF i < k THEN rRules[i] ELSE rRules[i + 1]
  <2>1. rRules \in Seq(Router!Rules) /\ \E i \in 1 .. Len(rRules) : rRules[i] = rule
    BY <1>1, <1>2
  <2>2. \E k \in 1 .. Len(rRules) :
           /\ rRules[k] = rule
           /\ Router!RemoveFirst(rRules, rule) \in Seq(Router!Rules)
           /\ Len(Router!RemoveFirst(rRules, rule)) = Len(rRules) - 1
           /\ \A i \in 1 .. (Len(rRules) - 1) :
                Router!RemoveFirst(rRules, rule)[i] = IF i < k THEN rRules[i] ELSE rRules[i + 1]
    BY <2>1, FirstTakenOut
  <2>3. QED BY <1>2, <2>2
<1> HIDE DEF c
<1>5. Sorted(rRules')
  <2> SUFFICES ASSUME NEW i \in 1 .. (c - 1), NEW j \in 1 .. (c - 1), i < j
               PROVE  rRules'[i].priority >= rRules'[j].priority
    BY <1>4 DEF Sorted
  <2> DEFINE to(n) == IF n < k THEN n ELSE n + 1
  <2>1. \A n \in 1 .. (c - 1) : to(n) \in 1 .. c /\ rRules'[n] = rRules[to(n)]
    BY <1>3, <1>4
  <2>2. to(i) < to(j)
    BY <1>3
  <2> HIDE DEF to
  <2>3. QED BY <1>1, <2>1, <2>2 DEF Sorted, c
<1>6. RegistryInv' /\ CheckInv'
  BY <1>1, <1>2 DEF RegistryInv, CheckInv, Passed, Once
<1>7. RoutingInv'
  BY <1>1, <1>2, <1>4, <1>5 DEF RoutingInv, Sorted
<1>8. QED BY <1>6, <1>7, ChangeCounted DEF RouterInv, Router!RemoveRule

(* The registry alone changes.                                             *)
LEMMA RegistryStep ==
  ASSUME RouterInv, RegistryInv', UNCHANGED <<rTable, rRules, rIndex, rEqual, rCheck>>,
         rChanges' \in 0 .. MaxChanges
  PROVE  RouterInv'
BY DEF RouterInv, RoutingInv, CheckInv, Passed, Sorted

LEMMA UpdateHolds ==
  ASSUME RouterInv, NEW b \in Names,
         \/ \E flag \in BOOLEAN : Router!UpdateConnectivity(b, flag) \/ Router!Record(b, flag)
         \/ \E cost \in 0 .. 1 : Router!UpdateMetrics(b, cost, 1 - cost)
  PROVE  RouterInv'
<1>1. RegistryInv /\ rMetrics[b] \in Metrics /\ rMetrics[b].filled <= rMetrics[b].total
      /\ rMetrics \in [Names -> Metrics]
  BY DEF RouterInv, RegistryInv
<1>2. CASE \E flag \in BOOLEAN : Router!UpdateConnectivity(b, flag)
  <2>1. PICK flag \in BOOLEAN : Router!UpdateConnectivity(b, flag)
    BY <1>2
  <2> DEFINE m == [rMetrics[b] EXCEPT !.flag = flag]
  <2>2. m \in Metrics /\ m.filled <= m.total
    BY <1>1 DEF Metrics
  <2>3. rMetrics' = [rMetrics EXCEPT ![b] = m] /\ UNCHANGED <<rTable, rUp>>
    BY <2>1 DEF Router!UpdateConnectivity
  <2> HIDE DEF m
  <2>4. RegistryInv'
    BY <1>1, <2>2, <2>3, MetricsWritten
  <2>5. QED BY <2>1, <2>4, RegistryStep, ChangeCounted DEF Router!UpdateConnectivity
<1>3. CASE \E flag \in BOOLEAN : Router!Record(b, flag)
  <2>1. PICK flag \in BOOLEAN : Router!Record(b, flag)
    BY <1>3
  <2> DEFINE more == IF flag THEN rMetrics[b].filled + 1 ELSE rMetrics[b].filled
             e == [rMetrics[b] EXCEPT !.total = rMetrics[b].total + 1, !.filled = more]
             m == Router!Rate(e)
  <2>2. e \in Metrics /\ e.filled <= e.total
    <3>1. rMetrics[b].total \in Nat /\ rMetrics[b].filled \in Nat
      BY <1>1 DEF Metrics
    <3>2. more \in Nat /\ more <= rMetrics[b].total + 1
      BY <1>1, <3>1
    <3> HIDE DEF more
    <3>3. PICK old \in Metrics, n \in Nat, f \in Nat :
            old = rMetrics[b] /\ n = rMetrics[b].total + 1 /\ f = more
      BY <1>1, <3>1, <3>2
    <3>4. e = [old EXCEPT !.total = n, !.filled = f]
      BY <3>3
    <3> HIDE DEF e
    <3>5. e \in Metrics /\ e.filled = f /\ e.total = n
      BY <3>4 DEF Metrics
    <3>6. QED BY <3>2, <3>3, <3>5
  <2>3. rMetrics' = [rMetrics EXCEPT ![b] = m] /\ UNCHANGED <<rTable, rUp>>
    BY <2>1 DEF Router!Record
  <2> HIDE DEF e
  <2>4. m \in Metrics /\ m.filled <= m.total
    <3> DEFINE rate == IF e.total = 0 THEN <<0, 1>> ELSE <<e.filled, e.total>>
    <3>1. rate \in Nat \X Nat
      BY <2>2 DEF Metrics
    <3>2. m = [e EXCEPT !.rate = rate]
      BY DEF Router!Rate
    <3> HIDE DEF rate, m
    <3>3. QED BY <2>2, <3>1, <3>2 DEF Metrics
  <2> HIDE DEF m
  <2>5. RegistryInv'
    BY <1>1, <2>3, <2>4, MetricsWritten
  <2>6. QED BY <2>1, <2>5, RegistryStep, ChangeCounted DEF Router!Record
<1>4. CASE \E cost \in 0 .. 1 : Router!UpdateMetrics(b, cost, 1 - cost)
  <2>1. PICK cost \in 0 .. 1 : Router!UpdateMetrics(b, cost, 1 - cost)
    BY <1>4
  <2> DEFINE m == [Router!NewMetrics EXCEPT !.cost = cost, !.latency = 1 - cost]
  <2>2. m \in Metrics /\ m.filled <= m.total
    <3>1. cost \in Nat /\ 1 - cost \in Nat
      OBVIOUS
    <3>2. m \in Metrics /\ m.filled = Router!NewMetrics.filled /\ m.total = Router!NewMetrics.total
      BY <3>1, NewMetricsTyped DEF Metrics
    <3>3. QED BY <3>2, NewMetricsTyped
  <2>3. rMetrics' = [rMetrics EXCEPT ![b] = m] /\ UNCHANGED <<rTable, rUp>>
    BY <2>1 DEF Router!UpdateMetrics
  <2> HIDE DEF m
  <2>4. RegistryInv'
    BY <1>1, <2>2, <2>3, MetricsWritten
  <2>5. QED BY <2>1, <2>4, RegistryStep, ChangeCounted DEF Router!UpdateMetrics
<1>5. QED BY <1>2, <1>3, <1>4

LEMMA FlipHolds ==
  ASSUME RouterInv, NEW b \in Names, Router!Flip(b)
  PROVE  RouterInv'
<1>1. RegistryInv'
  BY DEF RouterInv, RegistryInv, Once, Router!Flip, Router!registry
<1>2. QED BY <1>1, RegistryStep, ChangeCounted DEF Router!Flip, Router!registry

LEMMA AvailableNames ==
  ASSUME RouterInv
  PROVE  Router!Available \in Seq(Names)
<1> DEFINE keep == {b \in Router!Registered : rMetrics[b].flag \/ rUp[b]}
<1>1. keep \subseteq Names
  BY RegisteredNames DEF RouterInv
<1>2. Router!Available = Selected(rTable, keep)
  BY RouterLists DEF Router!Available
<1> HIDE DEF keep
<1>3. Selected(rTable, keep) \in Seq((Names \union {0}) \intersect keep)
  <2>1. rTable \in Seq(Names \union {0}) /\ Once(rTable, keep)
    BY <1>1 DEF RouterInv, RegistryInv, Once
  <2>2. QED BY <2>1, SelectedOnce
<1>4. QED BY <1>1, <1>2, <1>3

LEMMA RouteHolds ==
  ASSUME RouterInv, NEW c, NEW s, Router!Route(c, s)
  PROVE  RouterInv'
<1> DEFINE n == Len(Router!Available)
<1>1. Router!Available \in Seq(Names) /\ Router!Available # << >>
  BY AvailableNames DEF Router!Route
<1>2. n \in Nat \ {0}
  BY <1>1, EmptySeq
<1>3. rIndex' = ((rIndex % n) + 1) % n
      /\ UNCHANGED <<rTable, rMetrics, rUp, rRules, rEqual, rCheck, rChanges>>
  BY DEF Router!Route, Router!registry
<1> HIDE DEF n
<1>4. rIndex' \in Nat
  <2>1. rIndex \in Nat
    BY DEF RouterInv, RoutingInv
  <2>2. (rIndex % n) + 1 \in Nat
    BY <1>2, <2>1
  <2>3. QED BY <1>2, <1>3, <2>2
<1>5. QED BY <1>3, <1>4 DEF RouterInv, RegistryInv, RoutingInv, CheckInv, Passed, Once, Sorted

(* The check goes on with the next entry, and leaves none out; where it    *)
(* ends, no entry is left.                                                 *)
LEMMA NextAsked ==
  ASSUME RegistryInv, NEW c \in Checks
  PROVE  /\ Router!NextItem(c) \in Checks
         /\ Router!NextItem(c).at \in {"asking", "returned", "raised"}
         /\ Router!NextItem(c).visited = c.visited /\ Router!NextItem(c).rebuilt = c.rebuilt
         /\ Router!NextItem(c).at = "asking" => Router!NextItem(c).name \in Names
         /\ Router!NextItem(c).at = "returned" =>
              \A i \in 1 .. Len(rTable) : i > c.pos => rTable[i] = 0
         /\ Router!NextItem(c).at = "asking" =>
              /\ Router!NextItem(c).pos <= Len(rTable)
              /\ \A i \in 1 .. Len(rTable) : i <= Router!NextItem(c).pos /\ i > c.pos =>
                   rTable[i] \in {Router!NextItem(c).name, 0}
<1> DEFINE at == Router!Ended(c)
           k == Router!Min(Router!Ahead(c))
           n == Router!NextItem(c)
<1>1. /\ Len(rTable) \in Nat /\ 0 \notin Names /\ \A i \in 1 .. Len(rTable) : rTable[i] \in Names \union {0}
  BY RegisteredNames
<1>2. c.pos \in Nat /\ c.left \in Nat
  BY DEF Checks
<1>3. n = IF at = "asking"
          THEN [c EXCEPT !.at = "asking", !.name = rTable[k], !.pos = k, !.left = c.left - 1]
          ELSE [c EXCEPT !.at = at]
  BY DEF Router!NextItem
<1>4. /\ at \in {"asking", "returned", "raised"} /\ (at = "returned" => Router!Ahead(c) = {})
      /\ at = "asking" => Router!Ahead(c) # {} /\ c.left # 0
  BY DEF Router!Ended
<1>5. CASE at = "asking"
  <2>1. Router!Ahead(c) \in SUBSET Nat /\ Router!Ahead(c) # {}
    BY <1>1, <1>4, <1>5 DEF Router!Ahead
  <2>2. k \in Router!Ahead(c) /\ \A y \in Router!Ahead(c) : k <= y
    BY <2>1, FirstOf
  <2> HIDE DEF k
  <2>3. k \in 1 .. Len(rTable) /\ rTable[k] \in Names
    BY <1>1, <2>2 DEF Router!Ahead
  <2>4. \A i \in 1 .. Len(rTable) : i <= k /\ i > c.pos => rTable[i] \in {rTable[k], 0}
    BY <1>1, <2>2, <2>3 DEF Router!Ahead
  <2>5. PICK name \in Names \union {0}, left \in Nat, pos \in Nat :
          name = rTable[k] /\ name \in Names /\ left = c.left - 1 /\ pos = k
    BY <1>1, <1>2, <1>4, <1>5, <2>3
  <2>6. n = [c EXCEPT !.at = "asking", !.name = name, !.pos = pos, !.left = left]
    BY <1>3, <1>5, <2>5
  <2> HIDE DEF n
  <2>7. /\ n \in Checks /\ n.at = "asking" /\ n.name = name /\ n.pos = k
        /\ n.visited = c.visited /\ n.rebuilt = c.rebuilt
    BY <2>5, <2>6 DEF Checks
  <2>8. QED BY <1>1, <2>3, <2>4, <2>5, <2>7 DEF n
<1>6. CASE at # "asking"
  <2>1. n = [c EXCEPT !.at = at]
    BY <1>3, <1>6
  <2>2. at = "returned" => \A i \in 1 .. Len(rTable) : i > c.pos => rTable[i] = 0
    BY <1>4 DEF Router!Ahead
  <2> HIDE DEF n, at
  <2>3. n \in Checks /\ n.at = at /\ n.visited = c.visited /\ n.rebuilt = c.rebuilt
    BY <1>4, <2>1 DEF Checks
  <2>4. QED BY <1>4, <1>6, <2>2, <2>3 DEF n
<1>7. QED BY <1>5, <1>6

LEMMA StartCheckHolds ==
  ASSUME RouterInv, Router!StartCheck
  PROVE  RouterInv'
<1> DEFINE m == Router!Cardinality(Router!Registered)
           c == [Router!NoCheck EXCEPT !.left = m, !.size = m]
<1>1. RegistryInv /\ m \in Nat
  BY RegisteredNames DEF RouterInv
<1>2. /\ rCheck' = Router!NextItem(c)
      /\ UNCHANGED <<rTable, rMetrics, rUp, rRules, rIndex, rEqual, rChanges>>
  BY DEF Router!StartCheck, Router!registry
<1> HIDE DEF m
<1>3. c \in Checks /\ c.pos = 0 /\ c.visited = {}
  BY <1>1 DEF Checks, Router!NoCheck
<1> HIDE DEF c
<1>4. /\ rCheck' \in Checks /\ (rCheck'.at = "asking" => rCheck'.name \in Names)
      /\ rCheck'.at = "asking" =>
           /\ rCheck'.pos <= Len(rTable)
           /\ \A i \in 1 .. Len(rTable) : i <= rCheck'.pos /\ i > c.pos => rTable[i] \in {rCheck'.name, 0}
  BY <1>1, <1>2, <1>3, NextAsked
<1>5. \A i \in 1 .. Len(rTable) : i > c.pos
  BY <1>3
<1>6. CheckInv'
  BY <1>2, <1>4, <1>5 DEF CheckInv, Passed
<1>7. QED BY <1>2, <1>6 DEF RouterInv, RegistryInv, Once, RoutingInv, Sorted

LEMMA AnswerHolds ==
  ASSUME RouterInv, Router!Answer
  PROVE  /\ RouterInv'
         /\ rCheck'.at = "returned" /\ ~rCheck'.rebuilt => Router!Registered \subseteq rCheck'.visited
<1> DEFINE name == rCheck.name
           asked == [rCheck EXCEPT !.visited = rCheck.visited \union {name}]
<1>1. /\ RegistryInv /\ rCheck \in Checks /\ name \in Names /\ rMetrics \in [Names -> Metrics]
      /\ rCheck.rebuilt \/ Passed(rCheck)
  BY DEF RouterInv, RegistryInv, CheckInv, Router!Answer
<1>2. UNCHANGED <<rTable, rUp, rRules, rIndex, rEqual, rChanges>>
  BY DEF Router!Answer
<1>3. /\ asked \in Checks /\ asked.visited = rCheck.visited \union {name}
      /\ asked.pos = rCheck.pos /\ asked.rebuilt = rCheck.rebuilt
  <2>1. PICK v \in SUBSET Names : v = rCheck.visited \union {name}
    BY <1>1 DEF Checks
  <2>2. asked = [rCheck EXCEPT !.visited = v]
    BY <2>1
  <2>3. QED BY <1>1, <2>1, <2>2 DEF Checks
<1>4. CASE name \in Router!Registered
  <2>1. PICK answer \in {rUp[name], FALSE} : rMetrics' = [rMetrics EXCEPT ![name].flag = answer]
    BY <1>4 DEF Router!Answer
  <2>2. rCheck' = Router!NextItem(asked)
    BY <1>4 DEF Router!Answer
  <2>3. RegistryInv'
    <3> DEFINE m == [rMetrics[name] EXCEPT !.flag = answer]
    <3>1. answer \in BOOLEAN /\ rMetrics[name] \in Metrics /\ rMetrics[name].filled <= rMetrics[name].total
      BY <1>1 DEF RegistryInv
    <3>2. m \in Metrics /\ m.filled <= m.total
      BY <3>1 DEF Metrics
    <3>3. rMetrics' = [rMetrics EXCEPT ![name] = m]
      BY <2>1
    <3> HIDE DEF m
    <3>4. QED BY <1>1, <1>2, <3>2, <3>3, MetricsWritten
  <2> HIDE DEF asked
  <2>4. /\ rCheck' \in Checks
        /\ rCheck'.visited = asked.visited /\ rCheck'.rebuilt = asked.rebuilt
        /\ rCheck'.at = "asking" => rCheck'.name \in Names
        /\ rCheck'.at = "returned" => \A i \in 1 .. Len(rTable) : i > asked.pos => rTable[i] = 0
        /\ rCheck'.at = "asking" =>
             /\ rCheck'.pos <= Len(rTable)
             /\ \A i \in 1 .. Len(rTable) : i <= rCheck'.pos /\ i > asked.pos =>
                  rTable[i] \in {rCheck'.name, 0}
    BY <1>1, <1>3, <2>2, NextAsked
  <2>5. ASSUME ~rCheck'.rebuilt
        PROVE  \A i \in 1 .. Len(rTable) : i <= asked.pos => rTable[i] \in rCheck'.visited \union {0}
    BY <1>1, <1>3, <2>4, <2>5 DEF Passed
  <2>6. Len(rTable) \in Nat /\ asked.pos \in Nat
    BY <1>1, <1>3, RegisteredNames DEF Checks
  <2>7. CheckInv'
    <3>1. ASSUME ~rCheck'.rebuilt, rCheck'.at = "asking" PROVE Passed(rCheck)'
      <4>1. \A i \in 1 .. Len(rTable) : i <= rCheck'.pos =>
              rTable[i] \in rCheck'.visited \union {rCheck'.name, 0}
        BY <2>4, <2>5, <2>6, <3>1
      <4>2. QED BY <1>2, <2>4, <3>1, <4>1 DEF Passed
    <3>2. QED BY <2>4, <3>1 DEF CheckInv
  <2>8. rCheck'.at = "returned" /\ ~rCheck'.rebuilt => Router!Registered \subseteq rCheck'.visited
    <3> SUFFICES ASSUME rCheck'.at = "returned", ~rCheck'.rebuilt, NEW b \in Router!Registered
                 PROVE  b \in rCheck'.visited
      OBVIOUS
    <3>1. PICK i \in 1 .. Len(rTable) : b = rTable[i] /\ b # 0
      BY <1>1, RegisteredNames
    <3>2. i <= asked.pos \/ i > asked.pos
      BY <2>6
    <3>3. QED BY <2>4, <2>5, <3>1, <3>2
  <2>9. RouterInv'
    BY <1>2, <2>3, <2>7 DEF RouterInv, RoutingInv, Sorted
  <2>10. QED BY <2>8, <2>9
<1>5. CASE name \notin Router!Registered
  <2>1. rMetrics' = rMetrics /\ rCheck' = [asked EXCEPT !.at = "raised"]
    BY <1>5 DEF Router!Answer
  <2>2. rCheck' \in Checks /\ rCheck'.at = "raised"
    <3> HIDE DEF asked
    <3>1. QED BY <1>3, <2>1 DEF Checks
  <2>3. RegistryInv' /\ CheckInv'
    BY <1>1, <1>2, <2>1, <2>2 DEF RegistryInv, Once, CheckInv
  <2>4. RouterInv'
    BY <1>2, <2>3 DEF RouterInv, RoutingInv, Sorted
  <2>5. QED BY <2>2, <2>4
<1>6. QED BY <1>4, <1>5

LEMMA RouterStepHolds == RouterInv /\ [Router!Next]_routerVars => RouterInv'
<1> SUFFICES ASSUME RouterInv, [Router!Next]_routerVars PROVE RouterInv'
  OBVIOUS
<1>1. ASSUME NEW b \in Names,
             \/ Router!Register(b) \/ Router!Unregister(b) \/ Router!Flip(b)
             \/ \E flag \in BOOLEAN : Router!UpdateConnectivity(b, flag) \/ Router!Record(b, flag)
             \/ \E cost \in 0 .. 1 : Router!UpdateMetrics(b, cost, 1 - cost)
      PROVE  RouterInv'
  BY <1>1, RegisterHolds, UnregisterHolds, FlipHolds, UpdateHolds
<1>2. ASSUME NEW rule \in Router!Rules, Router!AddRule(rule) \/ Router!RemoveRule(rule)
      PROVE  RouterInv'
  BY <1>2, AddRuleHolds, RemoveRuleHolds
<1>3. ASSUME NEW c \in Contexts, NEW s \in Router!Strategies, Router!Route(c, s)
      PROVE  RouterInv'
  BY <1>3, RouteHolds
<1>4. CASE Router!StartCheck \/ Router!Answer
  BY <1>4, StartCheckHolds, AnswerHolds
<1>5. CASE UNCHANGED routerVars
  BY <1>5 DEF routerVars, RouterInv, RegistryInv, RoutingInv, CheckInv, Passed, Once, Sorted
<1>6. QED BY <1>1, <1>2, <1>3, <1>4, <1>5 DEF Router!Next

LEMMA NamesListed ==
  /\ Router!SetToSeq(Names) \in Seq(Names) /\ Len(Router!SetToSeq(Names)) \in Nat \ {0}
  /\ \A i, j \in 1 .. Len(Router!SetToSeq(Names)) :
       Router!SetToSeq(Names)[i] = Router!SetToSeq(Names)[j] => i = j
<1> DEFINE n == Cardinality(Names)
           list == Router!SetToSeq(Names)
<1>1. n \in Nat /\ ExistsBijection(1 .. n, Names)
  BY RouterConstants, FS_CardinalityType
<1>2. \E f \in [1 .. n -> Names] : \A i, j \in DOMAIN f : f[i] = f[j] => i = j
  BY <1>1 DEF ExistsBijection, Bijection, Injection, IsInjective
<1>3. list = CHOOSE f \in [1 .. n -> Names] : \A i, j \in DOMAIN f : f[i] = f[j] => i = j
  BY DEF Router!SetToSeq, Router!IsInjective, Router!Cardinality, Cardinality
<1> HIDE DEF list, n
<1>4. list \in [1 .. n -> Names] /\ \A i, j \in DOMAIN list : list[i] = list[j] => i = j
  BY <1>2, <1>3
<1>5. list \in Seq(Names) /\ Len(list) = n /\ DOMAIN list = 1 .. n
  <2>1. list = [i \in 1 .. n |-> list[i]] /\ \A i \in 1 .. n : list[i] \in Names
    BY <1>4
  <2>2. list \in Seq(Names)
    BY <1>1, <1>4
  <2>3. QED BY <1>1, <1>4, <2>2, LenProperties
<1>6. n # 0
  BY RouterConstants, FS_EmptySet DEF n
<1>7. QED BY <1>1, <1>4, <1>5, <1>6 DEF list

LEMMA RoutingStarts ==
  ASSUME rRules = << >>, rIndex = 0, rEqual \in BOOLEAN, rCheck = Router!NoCheck, rChanges = 0
  PROVE  RoutingInv /\ CheckInv /\ rChanges \in 0 .. MaxChanges
<1>1. << >> \in Seq(Router!Rules) /\ Len(<< >>) = 0
  BY EmptySeq
<1>2. RoutingInv
  BY <1>1 DEF RoutingInv, Sorted
<1>3. QED BY <1>2, RouterConstants DEF CheckInv, Checks, Router!NoCheck

LEMMA RouterInitHolds == BrokersInit => RouterInv
<1> SUFFICES ASSUME BrokersInit PROVE RouterInv
  OBVIOUS
<1>1. CASE part = "router"
  <2>1. Router!Init
    BY <1>1 DEF BrokersInit
  <2>2. rEqual \in BOOLEAN
    BY <2>1, RouterConstants DEF Router!Init
  <2>3. RoutingInv /\ CheckInv /\ rChanges \in 0 .. MaxChanges
    BY <2>1, <2>2, RoutingStarts DEF Router!Init
  <2> DEFINE list == Router!SetToSeq(Names)
  <2>4. /\ list \in Seq(Names) /\ Len(list) \in Nat \ {0}
        /\ \A i, j \in 1 .. Len(list) : list[i] = list[j] => i = j
    BY NamesListed
  <2>5. PICK names \in {list, Tail(list)}, past \in BOOLEAN :
          /\ rTable = (IF past THEN <<0, 0>> ELSE << >>) \o names
          /\ rMetrics = [b \in Names |-> IF past THEN [Router!NewMetrics EXCEPT !.filled = 1, !.total = 1]
                                        ELSE Router!NewMetrics]
    BY <2>1 DEF Router!Init
  <2> HIDE DEF list
  <2>6. rTable \in Seq(Names \union {0}) /\ Once(rTable, Names)
    <3>1. names \in Seq(Names) /\ Len(names) \in Nat /\ \A i, j \in 1 .. Len(names) : names[i] = names[j] => i = j
      <4>1. CASE names = list
        BY <2>4, <4>1
      <4>2. CASE names = Tail(list)
        <5>1. list # << >>
          BY <2>4
        <5>2. /\ names \in Seq(Names) /\ Len(names) = Len(list) - 1
              /\ \A i \in 1 .. Len(names) : names[i] = list[i + 1]
          BY <2>4, <4>2, <5>1, HeadTailProperties
        <5>3. \A i \in 1 .. Len(names) : i + 1 \in 1 .. Len(list)
          BY <2>4, <5>2
        <5>4. ASSUME NEW i \in 1 .. Len(names), NEW j \in 1 .. Len(names), names[i] = names[j]
              PROVE  i = j
          <6>1. list[i + 1] = list[j + 1]
            BY <5>2, <5>4
          <6>2. i + 1 = j + 1
            BY <2>4, <5>3, <6>1
          <6>3. QED BY <2>4, <5>2, <6>2
        <5>5. QED BY <2>4, <5>2, <5>4
      <4>3. QED BY <4>1, <4>2
    <3> DEFINE holes == IF past THEN <<0, 0>> ELSE << >>
    <3>2. holes \in Seq(Names \union {0}) /\ Len(holes) \in Nat /\ \A i \in 1 .. Len(holes) : holes[i] = 0
      <4>1. <<0, 0>> \in Seq(Names \union {0}) /\ Len(<<0, 0>>) = 2 /\ \A i \in 1 .. 2 : <<0, 0>>[i] = 0
        OBVIOUS
      <4>2. << >> \in Seq(Names \union {0}) /\ Len(<< >>) = 0 /\ 1 .. 0 = {}
        OBVIOUS
      <4>3. QED BY <4>1, <4>2
    <3>3. rTable = holes \o names /\ names \in Seq(Names \union {0})
      BY <2>5, <3>1
    <3> HIDE DEF holes
    <3>4. /\ rTable \in Seq(Names \union {0}) /\ Len(rTable) = Len(holes) + Len(names)
          /\ \A i \in 1 .. (Len(holes) + Len(names)) :
               rTable[i] = IF i <= Len(holes) THEN holes[i] ELSE names[i - Len(holes)]
      BY <3>2, <3>3, ConcatProperties
    <3>5. Once(rTable, Names)
      <4> SUFFICES ASSUME NEW i \in 1 .. Len(rTable), NEW j \in 1 .. Len(rTable),
                          rTable[i] = rTable[j], rTable[i] \in Names
                   PROVE  i = j
        BY DEF Once
      <4>1. /\ i \in 1 .. (Len(holes) + Len(names)) /\ j \in 1 .. (Len(holes) + Len(names))
            /\ 0 \notin Names
        BY <3>4, RouterConstants
      <4>2. ~(i <= Len(holes)) /\ ~(j <= Len(holes))
        BY <3>2, <3>4, <4>1
      <4>3. i - Len(holes) \in 1 .. Len(names) /\ j - Len(holes) \in 1 .. Len(names)
        BY <3>1, <3>2, <4>1, <4>2
      <4>4. names[i - Len(holes)] = names[j - Len(holes)]
        BY <3>4, <4>1, <4>2
      <4>5. i - Len(holes) = j - Len(holes)
        BY <3>1, <4>3, <4>4
      <4>6. QED BY <3>2, <4>1, <4>5
    <3>6. QED BY <3>4, <3>5
  <2>9. rMetrics \in [Names -> Metrics] /\ \A b \in Names : rMetrics[b].filled <= rMetrics[b].total
    <3> DEFINE m == [Router!NewMetrics EXCEPT !.filled = 1, !.total = 1]
    <3>1. m \in Metrics /\ m.filled <= m.total
      <4>1. PICK one \in Nat : one = 1
        OBVIOUS
      <4>2. m = [Router!NewMetrics EXCEPT !.filled = one, !.total = one]
        BY <4>1
      <4> HIDE DEF m
      <4>3. m \in Metrics /\ m.filled = one /\ m.total = one
        BY <4>2, NewMetricsTyped DEF Metrics
      <4>4. QED BY <4>3
    <3>2. \A b \in Names : rMetrics[b] = m \/ rMetrics[b] = Router!NewMetrics
      BY <2>5
    <3>3. DOMAIN rMetrics = Names /\ rMetrics = [b \in Names |-> rMetrics[b]]
      BY <2>5
    <3> HIDE DEF m
    <3>4. QED BY <3>1, <3>2, <3>3, NewMetricsTyped
  <2>7. rUp \in [Names -> BOOLEAN]
    BY <2>1 DEF Router!Init
  <2>8. QED BY <2>3, <2>6, <2>7, <2>9 DEF RouterInv, RegistryInv
<1>2. CASE part # "router"
  <2>1. /\ rTable = << >> /\ rMetrics = [b \in Names |-> Router!NewMetrics]
        /\ rUp = [b \in Names |-> TRUE] /\ rRules = << >> /\ rIndex = 0 /\ rEqual = TRUE
        /\ rCheck = Router!NoCheck /\ rChanges = 0
    BY <1>2 DEF BrokersInit
  <2>2. RoutingInv /\ CheckInv /\ rChanges \in 0 .. MaxChanges
    BY <2>1, RoutingStarts
  <2>3. rTable \in Seq(Names \union {0}) /\ Len(rTable) = 0 /\ 1 .. Len(rTable) = {}
    BY <2>1, EmptySeq
  <2>4. rMetrics \in [Names -> Metrics] /\ \A b \in Names : rMetrics[b].filled <= rMetrics[b].total
    BY <2>1, NewMetricsTyped
  <2>5. QED BY <2>1, <2>2, <2>3, <2>4 DEF RouterInv, RegistryInv, Once
<1>3. QED BY <1>1, <1>2

LEMMA RouterTyped == RouterInv => Router!TypeOK
<1> SUFFICES ASSUME RouterInv PROVE Router!TypeOK
  OBVIOUS
<1>1. RegistryInv /\ RoutingInv /\ CheckInv /\ rChanges \in 0 .. MaxChanges
  BY DEF RouterInv
<1>2. /\ Router!Registered \subseteq Names
      /\ \A i, j \in 1 .. Len(rTable) : rTable[i] = rTable[j] /\ rTable[i] # 0 => i = j
  <2>1. Once(rTable, Names) /\ \A i \in 1 .. Len(rTable) : rTable[i] \in Names \union {0}
    BY <1>1, RegisteredNames DEF RegistryInv
  <2>2. QED BY <1>1, <2>1, RegisteredNames DEF Once
<1>3. \A b \in Names :
        /\ rMetrics[b].flag \in BOOLEAN /\ {rMetrics[b].cost, rMetrics[b].latency} \subseteq Nat
        /\ rMetrics[b].filled \in 0 .. rMetrics[b].total
  <2> SUFFICES ASSUME NEW b \in Names
               PROVE  /\ rMetrics[b].flag \in BOOLEAN /\ {rMetrics[b].cost, rMetrics[b].latency} \subseteq Nat
                      /\ rMetrics[b].filled \in 0 .. rMetrics[b].total
    OBVIOUS
  <2>1. rMetrics[b] \in Metrics /\ rMetrics[b].filled <= rMetrics[b].total
    BY <1>1 DEF RegistryInv
  <2>2. QED BY <2>1 DEF Metrics
<1>4. Router!ToSet(rRules) \subseteq Router!Rules
  <2>1. DOMAIN rRules = 1 .. Len(rRules) /\ \A i \in 1 .. Len(rRules) : rRules[i] \in Router!Rules
    BY <1>1, LenProperties, ElementOfSeq DEF RoutingInv
  <2>2. QED BY <2>1 DEF Router!ToSet
<1>5. rCheck.at \in {"idle", "asking", "returned", "raised"}
  BY <1>1 DEF CheckInv, Checks
<1>6. QED BY <1>1, <1>2, <1>3, <1>4, <1>5 DEF Router!TypeOK, RoutingInv, RegistryInv, Sorted

(* A result whose parts cover an order of q units.                         *)
Covered(r, q) ==
  /\ Total(r.parts) >= q * r.scale
  /\ Total(r.parts) <= (q + Len(r.parts) - 1) * r.scale
  /\ Len(r.parts) <= Len(r.names)

LEMMA OnePartCovers ==
  ASSUME NEW q \in Nat \ {0}, NEW names, Len(names) \in Nat \ {0}, NEW r,
         r.parts = <<q>>, r.scale = 1, r.names = names
  PROVE  Covered(r, q)
<1>1. Len(<<q>>) = 1 /\ Total(<<q>>) = q
  BY TotalOne
<1>2. q * 1 = q /\ (q + 1 - 1) * 1 = q
  OBVIOUS
<1>3. QED BY <1>1, <1>2 DEF Covered

LEMMA WholeCovers ==
  ASSUME NEW q \in Nat \ {0}, NEW name
  PROVE  Covered(Router!Whole(name, q), q)
<1> DEFINE names == <<name>>
<1>1. Len(names) = 1
  OBVIOUS
<1>2. Router!Whole(name, q).names = names /\ Router!Whole(name, q).parts = <<q>> /\ Router!Whole(name, q).scale = 1
  BY DEF Router!Whole
<1> HIDE DEF names
<1>3. QED BY <1>1, <1>2, OnePartCovers

LEMMA SplitCovers ==
  ASSUME NEW q \in Nat \ {0}, NEW names, Len(names) \in Nat \ {0}, Router!RouteSplit(q, names).ok
  PROVE  Covered(Router!RouteSplit(q, names), q)
<1> DEFINE n == Len(names)
           parts == IF n < MaxParts THEN n ELSE MaxParts
           r == Router!RouteSplit(q, names)
<1>1. n \in Nat \ {0} /\ parts \in Nat \ {0} /\ parts <= n
  BY RouterConstants
<1>2. r = IF n = 1 \/ q < MinSplit THEN Router!Whole(names[1], q)
          ELSE IF parts <= 1 THEN Router!Parts(names, [scale |-> 1, parts |-> <<q>>])
          ELSE IF rEqual THEN Router!Parts(names, Router!EqualParts(q, parts)) ELSE Router!NoResult
  BY DEF Router!RouteSplit
<1> HIDE DEF r, parts, n
<1>3. CASE r = Router!Whole(names[1], q)
  BY <1>3, WholeCovers DEF r
<1>4. CASE r = Router!Parts(names, [scale |-> 1, parts |-> <<q>>])
  <2>1. r.parts = <<q>> /\ r.scale = 1 /\ r.names = names
    BY <1>4 DEF Router!Parts
  <2>2. Covered(r, q)
    BY <1>1, <2>1, OnePartCovers DEF n
  <2>3. QED BY <2>2 DEF r
<1>5. CASE r = Router!Parts(names, Router!EqualParts(q, parts))
  <2> DEFINE list == [i \in 1 .. parts |-> q]
  <2>1. r.parts = list /\ r.scale = parts /\ r.names = names
    BY <1>5 DEF Router!Parts, Router!EqualParts
  <2>2. Total(list) = parts * q /\ Len(list) = parts
    <3>1. list \in Seq(Nat) /\ DOMAIN list = 1 .. parts
      BY <1>1, IsASeq
    <3>2. Total(list) = parts * q
      BY <1>1, TotalEqual
    <3> HIDE DEF list
    <3>3. QED BY <1>1, <3>1, <3>2, LenProperties
  <2> HIDE DEF list
  <2>3. parts * q = q * parts /\ parts * q \in Nat
    BY <1>1
  <2>4. (q + parts - 1) * parts = q * parts + (parts - 1) * parts /\ (parts - 1) * parts \in Nat
    BY <1>1
  <2>5. Covered(r, q)
    BY <1>1, <2>1, <2>2, <2>3, <2>4 DEF Covered, n
  <2>6. QED BY <2>5 DEF r
<1>6. CASE r = Router!NoResult
  BY <1>6 DEF r, Router!NoResult
<1>7. QED BY <1>2, <1>3, <1>4, <1>5, <1>6

LEMMA VolumeCovers ==
  ASSUME RouterInv, NEW q \in Nat \ {0}, NEW names \in Seq(Names), Len(names) # 0,
         Router!RouteVolume(q, names).ok
  PROVE  Covered(Router!RouteVolume(q, names), q)
<1> DEFINE n == Len(names)
           w == [i \in 1 .. n |-> rMetrics[names[i]].filled]
           r == Router!RouteVolume(q, names)
<1>1. n \in Nat \ {0} /\ \A i \in 1 .. n : names[i] \in Names
  BY LenProperties, ElementOfSeq
<1>2. \A i \in 1 .. n : rMetrics[names[i]].filled \in Nat
  <2> TAKE i \in 1 .. n
  <2>1. rMetrics[names[i]] \in Metrics
    BY <1>1 DEF RouterInv, RegistryInv
  <2>2. QED BY <2>1 DEF Metrics
<1> HIDE DEF n
<1>3. w \in Seq(Nat) /\ Len(w) = n
  <2>1. w \in Seq(Nat)
    BY <1>1, <1>2, IsASeq
  <2>2. DOMAIN w = 1 .. n
    OBVIOUS
  <2> HIDE DEF w
  <2>3. QED BY <1>1, <2>1, <2>2, LenProperties
<1>4. r = IF Total(w) = 0 THEN Router!RouteSplit(q, names)
          ELSE IF n = 1 THEN Router!Whole(names[1], q)
          ELSE Router!Parts(names, Router!WeightedParts(q, w))
  BY RouterLists DEF Router!RouteVolume, n
<1> HIDE DEF w, r
<1>5. CASE Total(w) = 0
  BY <1>1, <1>4, <1>5, SplitCovers DEF r, n
<1>6. CASE Total(w) # 0 /\ r = Router!Whole(names[1], q)
  BY <1>6, WholeCovers DEF r
<1>7. CASE Total(w) # 0 /\ r = Router!Parts(names, Router!WeightedParts(q, w))
  <2> DEFINE split == Router!WeightedParts(q, w)
  <2>1. r.parts = split.parts /\ r.scale = split.scale /\ r.names = names
    BY <1>7 DEF Router!Parts
  <2>2. /\ split.scale = Total(w) /\ split.parts \in Seq(Nat) /\ Len(split.parts) = Len(w)
        /\ Total(split.parts) >= q * Total(w)
        /\ Total(split.parts) <= (q + Len(w) - 1) * Total(w)
    <3>1. w \in Seq(Nat) /\ Len(w) > 0 /\ Total(w) # 0
      BY <1>1, <1>3, <1>7
    <3>2. QED BY <3>1, SharesCover
  <2> HIDE DEF split
  <2>3. Covered(r, q)
    BY <1>1, <1>3, <2>1, <2>2 DEF Covered, n
  <2>4. QED BY <2>3 DEF r
<1>8. QED BY <1>4, <1>5, <1>6, <1>7

LEMMA RouterCovers == RouterInv => Router!PartsCoverOrder
<1> SUFFICES ASSUME RouterInv, NEW q \in 1 .. MaxQuantity, NEW c \in Contexts,
                    NEW s \in Router!Strategies, Router!RoutingResult(q, c, s).ok
             PROVE  Covered(Router!RoutingResult(q, c, s), q)
  BY RouterLists DEF Router!PartsCoverOrder, Covered
<1> DEFINE names == Router!Available
           strategy == Router!Chosen(c, s)
           r == Router!RoutingResult(q, c, s)
<1>1. q \in Nat \ {0} /\ names \in Seq(Names)
  BY AvailableNames
<1>2. r = IF names = << >> THEN Router!NoResult
          ELSE CASE strategy = "split" -> Router!RouteSplit(q, names)
                 [] strategy = "volume" -> Router!RouteVolume(q, names)
                 [] OTHER -> Router!Whole(Router!Best(strategy, names), q)
  BY DEF Router!RoutingResult
<1> HIDE DEF names, strategy, r
<1>3. r.ok
  BY DEF r
<1>4. names # << >>
  BY <1>2, <1>3 DEF Router!NoResult
<1>5. Len(names) \in Nat \ {0}
  BY <1>1, <1>4, EmptySeq
<1>6. CASE strategy = "split"
  <2>1. r = Router!RouteSplit(q, names)
    BY <1>2, <1>4, <1>6
  <2>2. Covered(r, q)
    BY <1>1, <1>3, <1>5, <2>1, SplitCovers
  <2>3. QED BY <2>2 DEF r
<1>7. CASE strategy = "volume"
  <2>1. r = Router!RouteVolume(q, names)
    BY <1>2, <1>4, <1>7
  <2>2. Covered(r, q)
    BY <1>1, <1>3, <1>5, <2>1, VolumeCovers
  <2>3. QED BY <2>2 DEF r
<1>8. CASE strategy \notin {"split", "volume"}
  <2>1. r = Router!Whole(Router!Best(strategy, names), q)
    BY <1>2, <1>4, <1>8
  <2>2. Covered(r, q)
    BY <1>1, <2>1, WholeCovers
  <2>3. QED BY <2>2 DEF r
<1>9. QED BY <1>6, <1>7, <1>8
-----------------------------------------------------------------------------
(* The parts together.                                                     *)
BrokersInv ==
  /\ part \in {"ig", "oanda", "crypto", "router"}
  /\ IgInv /\ OandaInv /\ CryptoInv /\ RouterInv

LEMMA BrokersInitHolds == BrokersInit => BrokersInv
<1> SUFFICES ASSUME BrokersInit PROVE BrokersInv
  OBVIOUS
<1>1. Init /\ Oanda!Init /\ Crypto!Init /\ part \in {"ig", "oanda", "crypto", "router"}
  BY DEF BrokersInit
<1>2. QED BY <1>1, IgInitHolds, OandaInitHolds, CryptoInitHolds, RouterInitHolds DEF BrokersInv

LEMMA BrokersStepHolds == BrokersInv /\ [BrokersNext]_allVars => BrokersInv'
<1> SUFFICES ASSUME BrokersInv, [BrokersNext]_allVars PROVE BrokersInv'
  OBVIOUS
<1>1. /\ [Next]_vars /\ [Oanda!Next]_oandaVars /\ [Crypto!Next]_cryptoVars /\ [Router!Next]_routerVars
      /\ UNCHANGED part
  BY DEF BrokersNext, allVars, igVars
<1>2. IgInv /\ OandaInv /\ CryptoInv /\ RouterInv
  BY DEF BrokersInv
<1>3. IgInv' /\ OandaInv' /\ CryptoInv' /\ RouterInv'
  BY <1>1, <1>2, IgStepHolds, OandaStepHolds, CryptoStepHolds, RouterStepHolds
<1>4. QED BY <1>1, <1>3 DEF BrokersInv

LEMMA BrokersAlways == BrokersSpec => []BrokersInv
<1>1. QED BY BrokersInitHolds, BrokersStepHolds, PTL DEF BrokersSpec

(* Every adapter and the router keep the shape of their state: jobs,       *)
(* tokens and ids within what was given out, loops and pages, the registry *)
(* without a name twice, the rules by priority.                            *)
THEOREM BrokersTypeCorrect == BrokersSpec => []BrokersTypeOK
<1>1. BrokersInv => BrokersTypeOK
  BY IgImplies, OandaImplies, CryptoImplies, RouterTyped DEF BrokersInv, BrokersTypeOK
<1>2. QED BY <1>1, BrokersAlways, PTL

(* Retries never multiply an order: the IG adapter's deals stay within the *)
(* submit_order calls, OANDA's orders within their attempts                *)
(* (IgBroker._rest_request, OandaApiClient._request).                      *)
THEOREM RetriesAlwaysBounded == BrokersSpec => []RetriesAreBounded
<1>1. BrokersInv => RetriesAreBounded
  BY IgImplies, OandaImplies DEF BrokersInv, RetriesAreBounded
<1>2. QED BY <1>1, BrokersAlways, PTL

(* What the adapters report as cancelled or closed, or track under an id,  *)
(* is so at the exchange (cancel_order, close_position, _orders).          *)
THEOREM ReportsAlwaysTrue == BrokersSpec => []ReportsAreTrue
<1>1. BrokersInv => ReportsAreTrue
  BY IgImplies, OandaImplies DEF BrokersInv, ReportsAreTrue
<1>2. QED BY <1>1, BrokersAlways, PTL

(* A Binance feed that runs has a loop nobody cancelled, however           *)
(* start_websocket and stop_websocket overlap.  get_klines_range neither   *)
(* loses nor repeats a candle; get_top_coins returns as many coins as it   *)
(* was asked for and ranks in order on its full pages, while a shorter     *)
(* last page repeats some and misses as many (PagesAreExact).              *)
THEOREM FeedAlwaysServed == BrokersSpec => []FeedIsServed
<1>1. BrokersInv => FeedIsServed
  BY CryptoImplies DEF BrokersInv, FeedIsServed
<1>2. QED BY <1>1, BrokersAlways, PTL

(* The parts of a routed order cover it, whatever the strategy, the number *)
(* of brokers and the orders they filled (_split_order).                   *)
THEOREM PartsAlwaysCover == BrokersSpec => []PartsCoverOrder
<1>1. BrokersInv => PartsCoverOrder
  BY RouterCovers DEF BrokersInv, PartsCoverOrder
<1>2. QED BY <1>1, BrokersAlways, PTL

(* A connectivity check that returns has asked every broker registered     *)
(* then, whatever was registered and unregistered while it waited, unless  *)
(* the dictionary it iterates was rebuilt meanwhile (check_all_brokers).   *)
THEOREM ChecksAreComplete == BrokersSpec => CheckIsComplete
<1> DEFINE Complete == rCheck.at = "asking" /\ rCheck'.at = "returned" /\ ~rCheck'.rebuilt =>
                         Router!Registered \subseteq rCheck'.visited
<1>1. RouterInv /\ [Router!Next]_routerVars => [Complete]_(Router!vars)
  <2> SUFFICES ASSUME RouterInv, Router!Next, rCheck.at = "asking", rCheck'.at = "returned",
                      ~rCheck'.rebuilt
               PROVE  Router!Registered \subseteq rCheck'.visited
    BY DEF routerVars, Router!vars
  <2>1. CASE Router!Answer
    BY <2>1, AnswerHolds
  <2>2. CASE Router!StartCheck
    BY <2>2 DEF Router!StartCheck
  <2>3. CASE \E b \in Names : Router!Unregister(b)
    <3>1. PICK b \in Names : Router!Unregister(b)
      BY <2>3
    <3>2. rCheck' = [rCheck EXCEPT !.visited = rCheck.visited \ {b}]
      BY <3>1 DEF Router!Unregister
    <3>3. rCheck'.at = rCheck.at
      BY <3>2 DEF RouterInv, CheckInv, Checks
    <3>4. QED BY <3>3
  <2>4. CASE UNCHANGED rCheck
    BY <2>4
  <2>5. CASE rCheck' = [rCheck EXCEPT !.rebuilt = TRUE]
    <3>1. rCheck'.at = rCheck.at
      BY <2>5 DEF RouterInv, CheckInv, Checks
    <3>2. QED BY <3>1
  <2>6. QED BY <2>1, <2>2, <2>3, <2>4, <2>5 DEF Router!Next, Router!Register, Router!Insert,
     Router!Rebuild, Router!Flip,
     Router!UpdateConnectivity, Router!Record, Router!UpdateMetrics, Router!AddRule,
     Router!RemoveRule, Router!Route
<1>2. BrokersInv /\ [BrokersNext]_allVars => [Complete]_(Router!vars)
  <2> SUFFICES ASSUME BrokersInv, [BrokersNext]_allVars PROVE [Complete]_(Router!vars)
    OBVIOUS
  <2>1. [Router!Next]_routerVars
    BY DEF BrokersNext, allVars
  <2> HIDE DEF Complete
  <2>2. QED BY <1>1, <2>1 DEF BrokersInv
<1>3. BrokersSpec => []BrokersInv /\ [][BrokersNext]_allVars
  BY BrokersAlways, PTL DEF BrokersSpec
<1> HIDE DEF Complete
<1>4. BrokersSpec => [][Complete]_(Router!vars)
  BY <1>2, <1>3, PTL
<1>5. QED BY <1>4 DEF CheckIsComplete, Router!CheckIsComplete, Complete
=============================================================================
