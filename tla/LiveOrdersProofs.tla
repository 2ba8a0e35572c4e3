-------------------------- MODULE LiveOrdersProofs --------------------------
(***************************************************************************)
(* Proofs about LiveOrders, for any orders, limits, kinds of broker and    *)
(* start modes: types, the books of an engine without adapter, the orders  *)
(* that can be found again, the limits, and the statuses that are final.   *)
(***************************************************************************)
EXTENDS LiveOrders, FiniteSetTheorems, SequenceTheorems, TLAPS

(* The variables have their types, TypeOK without the bound of the daily   *)
(* count: that one needs CountInv.                                         *)
Types ==
  /\ kind \in BrokerKinds
  /\ linkUp \in BOOLEAN /\ running \in BOOLEAN /\ starting \in BOOLEAN /\ gate \in BOOLEAN
  /\ mode \in Modes
  /\ status \in [Orders -> Status]
  /\ registered \in SUBSET Orders
  /\ active \in SUBSET registered
  /\ pending \in SUBSET registered
  /\ tradeCount \in Nat
  /\ submitting \in SUBSET registered /\ peak \in Nat \ {0}
  /\ cancelling \in SUBSET (registered \X {"user", "stop"})
  /\ held \in SUBSET registered
  /\ queue \in Seq(Orders)
  /\ filling \in Orders \cup {None}
  /\ stop \in {<<"no">>, <<"gather">>} \cup {<<"cancel", S>> : S \in SUBSET Orders}

(* What can be under way depends on where the broker suspends.             *)
KindInv ==
  /\ kind # "network" => submitting = {} /\ cancelling = {} /\ stop[1] # "cancel"
  /\ kind = "none" => ~linkUp /\ ~starting
  /\ filling # None => kind = "simulated"

(* stop() and the fill loop only work on registered orders.                *)
KnownInv ==
  /\ stop[1] = "cancel" => stop[2] \subseteq registered
  /\ \A i \in 1 .. Len(queue) : queue[i] \in registered
  /\ filling # None => filling \in registered

(* An order is counted at most once, and not before its submission is over. *)
CountInv == tradeCount <= Cardinality(registered \ submitting)

(* Only ticks and the fill loop fill orders, and neither fills one twice;   *)
(* an order that was not submitted is neither filled nor cancelled.        *)
FillInv ==
  /\ \A o \in Orders : status[o] = "FILLED" => kind # "network"
  /\ \A o \in Orders : status[o] \in {"FILLED", "CANCELLED"} => o \in registered
  /\ filling # None => status[filling] # "FILLED"

(* Never more orders in submit_order than at the peak.                     *)
PeakInv == Cardinality(submitting) <= peak

Books == AcceptedIsTracked /\ PaperBooksAgree /\ OverrunIsBounded

IInv == Types /\ KindInv /\ KnownInv /\ CountInv /\ FillInv /\ PeakInv /\ Books

-----------------------------------------------------------------------------
(* Lemmas about finite sets of orders.                                     *)

(* A set of orders is finite, and no larger than a set that includes it.   *)
LEMMA SmallerSet ==
  ASSUME NEW S \in SUBSET Orders, NEW T \in SUBSET S
  PROVE  /\ IsFiniteSet(S) /\ Cardinality(S) \in Nat
         /\ Cardinality(T) \in Nat /\ Cardinality(T) <= Cardinality(S)
<1>1. IsFiniteSet(S)
  BY FS_Subset, OrdersAssumption
<1>2. IsFiniteSet(T) /\ Cardinality(T) <= Cardinality(S)
  BY <1>1, FS_Subset
<1>3. QED BY <1>1, <1>2, FS_CardinalityType

(* One order more makes a set of orders one larger at most, and exactly if *)
(* it is new.                                                              *)
LEMMA OneMore ==
  ASSUME NEW S \in SUBSET Orders, NEW o \in Orders
  PROVE  /\ Cardinality(S) \in Nat
         /\ Cardinality(S \cup {o}) \in Nat
         /\ Cardinality(S \cup {o}) <= Cardinality(S) + 1
         /\ o \notin S => Cardinality(S \cup {o}) = Cardinality(S) + 1
<1>1. IsFiniteSet(S) /\ Cardinality(S) \in Nat
  BY SmallerSet
<1>2. Cardinality(S \cup {o}) = IF o \in S THEN Cardinality(S) ELSE Cardinality(S) + 1
  BY <1>1, FS_AddElement
<1>3. QED BY <1>1, <1>2

(* The two bounds of the overrun when no order is added: fewer are pending *)
(* or under way, and no more are counted.                                  *)
LEMMA OverrunShrinks ==
  ASSUME IInv, pending' \in SUBSET (pending \cup submitting), submitting' \in SUBSET submitting,
         peak' = peak, tradeCount' \in Nat, tradeCount' <= tradeCount
  PROVE  PeakInv' /\ OverrunIsBounded'
<1>1. /\ pending \cup submitting \in SUBSET Orders /\ submitting \in SUBSET Orders
      /\ pending' \cup submitting' \in SUBSET (pending \cup submitting)
      /\ peak \in Nat /\ tradeCount \in Nat
  BY DEF IInv, Types
<1>2. /\ Cardinality(pending \cup submitting) \in Nat /\ Cardinality(pending' \cup submitting') \in Nat
      /\ Cardinality(pending' \cup submitting') <= Cardinality(pending \cup submitting)
  BY <1>1, SmallerSet
<1>3. /\ Cardinality(submitting) \in Nat /\ Cardinality(submitting') \in Nat
      /\ Cardinality(submitting') <= Cardinality(submitting)
  BY <1>1, SmallerSet
<1>4. PeakInv /\ OverrunIsBounded
  BY DEF IInv, Books
<1>5. QED BY <1>1, <1>2, <1>3, <1>4, OrdersAssumption DEF PeakInv, OverrunIsBounded

(* A set of orders added to another.                                       *)
LEMMA BothSets ==
  ASSUME NEW S \in SUBSET Orders, NEW T \in SUBSET Orders
  PROVE  /\ Cardinality(S) \in Nat /\ Cardinality(T) \in Nat /\ Cardinality(S \cup T) \in Nat
         /\ Cardinality(S \cup T) <= Cardinality(S) + Cardinality(T)
<1>1. IsFiniteSet(S) /\ IsFiniteSet(T) /\ IsFiniteSet(S \cup T)
  BY OrdersAssumption, FS_Subset
<1>2. Cardinality(S \cup T) = Cardinality(S) + Cardinality(T) - Cardinality(S \cap T)
  BY <1>1, FS_Union
<1>3. IsFiniteSet(S \cap T)
  BY <1>1, FS_Subset
<1>4. QED BY <1>1, <1>2, <1>3, FS_CardinalityType

-----------------------------------------------------------------------------
(* The cancellation of a set of orders, as far as the books are concerned. *)
LEMMA CancelBooksHolds ==
  ASSUME IInv, NEW S, CancelBooks(S)
  PROVE  /\ status' \in [Orders -> Status]
         /\ registered' = registered /\ tradeCount' = tradeCount
         /\ active' \in SUBSET active /\ pending' \in SUBSET pending
         /\ \A o \in Orders : status'[o] = "ACCEPTED" => o \in pending'
         /\ \A o \in Orders : status'[o] = "FILLED" <=> status[o] = "FILLED"
         /\ kind = "none" =>
              /\ pending' = active'
              /\ active' = {o \in registered : status'[o] \in ActiveStatus}
              /\ S = pending => pending' = {}
              /\ pending = {} => pending' = {}
              /\ \A o \in Orders : status[o] = "CANCELLED" => status'[o] = "CANCELLED"
         /\ Cardinality(pending') \in Nat /\ Cardinality(pending') <= Cardinality(pending)
<1> USE DEF IInv, Types, Books
<1>1. /\ status' \in [Orders -> Status]
      /\ registered' = registered /\ tradeCount' = tradeCount
      /\ active' \in SUBSET active /\ pending' \in SUBSET pending
  BY DEF CancelBooks, Cancelled, Status
<1>2. \A o \in Orders : status'[o] = "ACCEPTED" => o \in pending'
  BY DEF CancelBooks, Cancelled, AcceptedIsTracked
<1>3. \A o \in Orders : status'[o] = "FILLED" <=> status[o] = "FILLED"
  BY DEF CancelBooks, Cancelled, IsActive, ActiveStatus
<1>4. ASSUME kind = "none"
      PROVE  /\ pending' = active'
             /\ active' = {o \in registered : status'[o] \in ActiveStatus}
             /\ S = pending => pending' = {}
             /\ pending = {} => pending' = {}
             /\ \A o \in Orders : status[o] = "CANCELLED" => status'[o] = "CANCELLED"
  BY <1>4 DEF CancelBooks, Cancelled, PaperBooksAgree, IsActive, ActiveStatus
<1>5. Cardinality(pending') \in Nat /\ Cardinality(pending') <= Cardinality(pending)
  BY <1>1, SmallerSet
<1>6. QED BY <1>1, <1>2, <1>3, <1>4, <1>5

-----------------------------------------------------------------------------
LEMMA InitHolds == Init => IInv
<1>1. SUFFICES ASSUME Init PROVE IInv
  OBVIOUS
<1>2. Cardinality({}) = 0
  BY FS_EmptySet
<1>3. Types
  <2>1. kind \in BrokerKinds /\ mode \in Modes
    BY <1>1, OrdersAssumption DEF Init
  <2>2. queue \in Seq(Orders) /\ status \in [Orders -> Status]
    BY <1>1 DEF Init, Status, ActiveStatus
  <2>3. peak \in Nat \ {0} /\ tradeCount \in Nat
    BY <1>1 DEF Init
  <2>4. QED BY <1>1, <2>1, <2>2, <2>3 DEF Init, Types
<1>4. KindInv /\ KnownInv /\ FillInv
  BY <1>1 DEF Init, KindInv, KnownInv, FillInv
<1>5. CountInv
  BY <1>1, <1>2 DEF Init, CountInv
<1>6. AcceptedIsTracked /\ PaperBooksAgree
  BY <1>1 DEF Init, AcceptedIsTracked, PaperBooksAgree
<1>7. PeakInv /\ OverrunIsBounded
  <2>1. pending \cup submitting = {} /\ submitting = {} /\ peak = 1 /\ tradeCount = 0
    BY <1>1 DEF Init
  <2>2. QED BY <1>2, <2>1, OrdersAssumption DEF PeakInv, OverrunIsBounded
<1>8. QED BY <1>3, <1>4, <1>5, <1>6, <1>7 DEF IInv, Books

(* A submission that is admitted, and accepted at once or under way: it    *)
(* finds room for one order more, besides those that are under way.        *)
LEMMA AdmittedFits ==
  ASSUME IInv, NEW o \in Orders, Admits, Register(o), pending' \in {pending, pending \cup {o}},
         submitting' \in {submitting, submitting \cup {o}}, tradeCount' \in Nat,
         tradeCount' + Cardinality(submitting') <= tradeCount + Cardinality(submitting \cup {o})
  PROVE  peak' \in Nat \ {0} /\ PeakInv' /\ OverrunIsBounded'
<1> DEFINE together == submitting \cup {o}
<1>1. /\ pending \in SUBSET Orders /\ submitting \in SUBSET Orders /\ together \in SUBSET Orders
      /\ tradeCount \in Nat /\ peak \in Nat \ {0}
  BY DEF IInv, Types
<1>2. /\ Cardinality(pending) \in Nat /\ Cardinality(together) \in Nat
      /\ Cardinality(pending \cup together) \in Nat
      /\ Cardinality(pending \cup together) <= Cardinality(pending) + Cardinality(together)
  BY <1>1, BothSets
<1>3. Cardinality(submitting') \in Nat /\ Cardinality(submitting') <= Cardinality(together)
  <2>1. submitting' \in SUBSET together
    OBVIOUS
  <2>2. QED BY <1>1, <2>1, SmallerSet
<1>4. /\ Cardinality(pending' \cup submitting') \in Nat
      /\ Cardinality(pending' \cup submitting') <= Cardinality(pending \cup together)
  <2>1. pending \cup together \in SUBSET Orders
        /\ pending' \cup submitting' \in SUBSET (pending \cup together)
    BY <1>1
  <2>2. QED BY <2>1, SmallerSet
<1>5. peak' = IF Cardinality(together) > peak THEN Cardinality(together) ELSE peak
  BY DEF Register
<1>6. tradeCount < MaxDaily /\ Cardinality(pending) < MaxPending
  BY DEF Admits
<1> HIDE DEF together
<1>7. peak' \in Nat \ {0} /\ Cardinality(together) <= peak'
  BY <1>1, <1>2, <1>5
<1>8. tradeCount' + Cardinality(submitting') <= tradeCount + Cardinality(together)
  BY DEF together
<1>9. QED
  BY <1>1, <1>2, <1>3, <1>4, <1>6, <1>7, <1>8, OrdersAssumption DEF PeakInv, OverrunIsBounded

(* An order accepted at once is counted and never under way.               *)
LEMMA AcceptedAtOnce ==
  ASSUME IInv, NEW o \in Orders, Admits, Register(o), pending' = pending \cup {o},
         submitting' = submitting, tradeCount' = tradeCount + 1
  PROVE  peak' \in Nat \ {0} /\ PeakInv' /\ OverrunIsBounded'
<1>1. submitting \in SUBSET Orders /\ tradeCount \in Nat /\ o \notin submitting
  BY DEF IInv, Types, Register
<1>2. Cardinality(submitting) \in Nat /\ Cardinality(submitting \cup {o}) = Cardinality(submitting) + 1
  BY <1>1, OneMore
<1>3. tradeCount' + Cardinality(submitting') <= tradeCount + Cardinality(submitting \cup {o})
  BY <1>1, <1>2
<1>4. QED BY <1>1, <1>3, AdmittedFits

LEMMA SubmitLocallyHolds ==
  ASSUME IInv, NEW o \in Orders, SubmitLocally(o) PROVE IInv'
<1>0. peak' \in Nat \ {0} /\ PeakInv' /\ OverrunIsBounded'
  BY AcceptedAtOnce DEF SubmitLocally, Accepted
<1> USE DEF IInv, Types, SubmitLocally, Register, Accepted, session, simulator
<1>1. Types'
  BY <1>0 DEF Status, ActiveStatus
<1>2. KindInv' /\ KnownInv'
  BY DEF KindInv, KnownInv
<1>3. CountInv'
  <2>1. o \notin registered \ submitting
    OBVIOUS
  <2>2. registered' \ submitting' = (registered \ submitting) \cup {o}
    OBVIOUS
  <2>3. Cardinality(registered' \ submitting') = Cardinality(registered \ submitting) + 1
    BY <2>1, <2>2, OneMore
  <2>4. Cardinality(registered \ submitting) \in Nat
    BY OneMore
  <2>5. QED BY <2>3, <2>4 DEF CountInv
<1>4. FillInv'
  BY DEF FillInv, KnownInv
<1>5. AcceptedIsTracked'
  BY DEF Books, AcceptedIsTracked
<1>6. PaperBooksAgree'
  BY DEF Books, PaperBooksAgree, IsActive, ActiveStatus, Admits
<1>7. PeakInv' /\ OverrunIsBounded'
  BY <1>0
<1>8. QED BY <1>1, <1>2, <1>3, <1>4, <1>5, <1>6, <1>7 DEF Books

LEMMA SubmitSimulatedHolds ==
  ASSUME IInv, NEW o \in Orders, SubmitSimulated(o) PROVE IInv'
<1>0. peak' \in Nat \ {0} /\ PeakInv' /\ OverrunIsBounded'
  BY AcceptedAtOnce DEF SubmitSimulated, Accepted
<1> USE DEF IInv, Types, SubmitSimulated, Register, Accepted, session
<1>1. Types'
  BY <1>0 DEF Status, ActiveStatus
<1>2. KindInv'
  BY DEF KindInv
<1>3. KnownInv'
  BY DEF KnownInv
<1>4. CountInv'
  <2>1. o \notin registered \ submitting
    OBVIOUS
  <2>2. registered' \ submitting' = (registered \ submitting) \cup {o}
    OBVIOUS
  <2>3. Cardinality(registered' \ submitting') = Cardinality(registered \ submitting) + 1
    BY <2>1, <2>2, OneMore
  <2>4. Cardinality(registered \ submitting) \in Nat
    BY OneMore
  <2>5. QED BY <2>3, <2>4 DEF CountInv
<1>5. FillInv'
  BY DEF FillInv, KnownInv
<1>6. AcceptedIsTracked' /\ PaperBooksAgree'
  BY DEF Books, AcceptedIsTracked, PaperBooksAgree
<1>7. PeakInv' /\ OverrunIsBounded'
  BY <1>0
<1>8. QED BY <1>1, <1>2, <1>3, <1>4, <1>5, <1>6, <1>7 DEF Books

(* An order that goes to the network is not counted yet.                   *)
LEMMA SubmitToNetworkHolds ==
  ASSUME IInv, NEW o \in Orders, SubmitToNetwork(o) PROVE IInv'
<1>0. peak' \in Nat \ {0} /\ PeakInv' /\ OverrunIsBounded'
  <2>1. submitting \in SUBSET Orders /\ tradeCount \in Nat
    BY DEF IInv, Types
  <2>2. Cardinality(submitting \cup {o}) \in Nat
    BY <2>1, OneMore
  <2>3. /\ pending' = pending /\ submitting' = submitting \cup {o} /\ tradeCount' = tradeCount
        /\ Admits /\ Register(o)
    BY DEF SubmitToNetwork
  <2>4. tradeCount' + Cardinality(submitting') <= tradeCount + Cardinality(submitting \cup {o})
    BY <2>1, <2>2, <2>3
  <2>5. QED BY <2>1, <2>3, <2>4, AdmittedFits
<1> USE DEF IInv, Types, SubmitToNetwork, Register, session, simulator
<1>1. Types'
  BY <1>0
<1>2. KindInv' /\ KnownInv'
  BY DEF KindInv, KnownInv
<1>3. CountInv'
  <2>1. registered' \ submitting' = registered \ submitting
    OBVIOUS
  <2>2. QED BY <2>1 DEF CountInv
<1>4. FillInv'
  BY DEF FillInv
<1>5. Books'
  BY <1>0 DEF Books, AcceptedIsTracked, PaperBooksAgree
<1>6. QED BY <1>0, <1>1, <1>2, <1>3, <1>4, <1>5

LEMMA NetworkAnswersHold ==
  ASSUME IInv, NEW o \in Orders, NetworkAccepts(o) \/ NetworkRejects(o) PROVE IInv'
<1> USE DEF IInv, Types, NetworkAccepts, NetworkRejects, Accepted, session, simulator
<1>1. kind = "network"
  BY DEF KindInv
<1>2. Types'
  BY DEF Status, ActiveStatus
<1>3. KindInv' /\ KnownInv'
  BY <1>1 DEF KindInv, KnownInv
<1>4. CountInv'
  <2>1. o \notin registered \ submitting
    OBVIOUS
  <2>2. registered' \ submitting' = (registered \ submitting) \cup {o}
    OBVIOUS
  <2>3. Cardinality(registered' \ submitting') = Cardinality(registered \ submitting) + 1
    BY <2>1, <2>2, OneMore
  <2>4. Cardinality(registered \ submitting) \in Nat
    BY OneMore
  <2>5. QED BY <2>3, <2>4 DEF CountInv
<1>5. FillInv'
  BY <1>1 DEF FillInv, KindInv
<1>6. PeakInv' /\ OverrunIsBounded'
  <2>1. CASE NetworkAccepts(o)
    <3>1. /\ pending' \cup submitting' = pending \cup submitting
          /\ submitting = submitting' \cup {o} /\ o \notin submitting'
          /\ submitting' \in SUBSET Orders /\ peak' = peak /\ tradeCount' = tradeCount + 1
      BY <2>1
    <3>2. Cardinality(submitting') \in Nat /\ Cardinality(submitting) = Cardinality(submitting') + 1
      BY <3>1, OneMore
    <3>3. PeakInv /\ OverrunIsBounded /\ tradeCount \in Nat /\ peak \in Nat
      BY DEF Books
    <3>4. Cardinality(submitting') <= peak'
      BY <3>1, <3>2, <3>3 DEF PeakInv
    <3>5. Cardinality(pending' \cup submitting') < MaxPending + peak'
      BY <3>1, <3>3 DEF OverrunIsBounded
    <3>6. tradeCount' + Cardinality(submitting') < MaxDaily + peak'
      BY <3>1, <3>2, <3>3, OrdersAssumption DEF OverrunIsBounded
    <3>7. QED BY <3>4, <3>5, <3>6 DEF PeakInv, OverrunIsBounded
  <2>2. CASE NetworkRejects(o)
    <3>1. /\ pending' \in SUBSET (pending \cup submitting) /\ submitting' \in SUBSET submitting
          /\ peak' = peak /\ tradeCount' \in Nat /\ tradeCount' <= tradeCount
      BY <2>2
    <3>2. QED BY <3>1, OverrunShrinks
  <2>3. QED BY <2>1, <2>2
<1>7. Books'
  BY <1>1, <1>6 DEF Books, AcceptedIsTracked, PaperBooksAgree
<1>8. QED BY <1>2, <1>3, <1>4, <1>5, <1>6, <1>7

-----------------------------------------------------------------------------
(* Cancellations, of one order or of all that are pending: what they leave *)
(* alone of the session is the same, the rest is CancelBooksHolds.         *)
LEMMA CancelledBooksHold ==
  ASSUME IInv, NEW S \in SUBSET registered, CancelBooks(S), kind' = kind, queue' = queue, held' = held,
         submitting' = submitting, peak' = peak, filling' \in {filling, None},
         kind = "none" => (running' = running /\ stop' = stop) \/ S = pending
  PROVE  /\ CountInv' /\ FillInv' /\ PeakInv' /\ Books'
         /\ status' \in [Orders -> Status] /\ active' \in SUBSET registered'
         /\ pending' \in SUBSET registered' /\ registered' = registered
         /\ tradeCount' = tradeCount
<1> USE CancelBooksHolds DEF IInv, Types
<1>1. /\ status' \in [Orders -> Status] /\ active' \in SUBSET registered'
      /\ pending' \in SUBSET registered' /\ registered' = registered
      /\ tradeCount' = tradeCount
  OBVIOUS
<1>2. CountInv'
  BY <1>1 DEF CountInv
<1>3. FillInv'
  <2>1. \A o \in Orders : status'[o] = "CANCELLED" => status[o] = "CANCELLED" \/ o \in S
    BY DEF CancelBooks, Cancelled
  <2>2. QED BY <1>1, <2>1 DEF FillInv
<1>4. AcceptedIsTracked'
  BY DEF AcceptedIsTracked
<1>5. PaperBooksAgree'
  BY <1>1 DEF Books, PaperBooksAgree, IsActive
<1>6. PeakInv' /\ OverrunIsBounded'
  <2>1. /\ pending' \in SUBSET (pending \cup submitting) /\ submitting' \in SUBSET submitting
        /\ tradeCount' \in Nat /\ tradeCount' <= tradeCount
    BY <1>1
  <2>2. QED BY <2>1, OverrunShrinks
<1>7. QED BY <1>1, <1>2, <1>3, <1>4, <1>5, <1>6 DEF Books

LEMMA CancelOrderHolds ==
  ASSUME IInv, NEW o \in Orders, CancelOrder(o) PROVE IInv'
<1> USE DEF CancelOrder, session, simulator, tasks
<1>1. /\ CountInv' /\ FillInv' /\ PeakInv' /\ Books'
      /\ status' \in [Orders -> Status] /\ active' \in SUBSET registered'
      /\ pending' \in SUBSET registered' /\ registered' = registered
      /\ tradeCount' = tradeCount
  BY CancelledBooksHold DEF IInv, Types
<1>2. Types' /\ KindInv' /\ KnownInv'
  BY <1>1 DEF IInv, Types, KindInv, KnownInv
<1>3. QED BY <1>1, <1>2 DEF IInv

LEMMA CancelAtNetworkHolds ==
  ASSUME IInv, NEW o \in Orders, CancelAtNetwork(o) PROVE IInv'
<1> USE DEF IInv, CancelAtNetwork, session, books, simulator
<1>1. Types'
  BY DEF Types
<1>2. KindInv'
  BY DEF KindInv, Suspends
<1>3. KnownInv' /\ CountInv' /\ FillInv' /\ PeakInv'
  BY DEF KnownInv, CountInv, FillInv, PeakInv
<1>4. Books'
  BY DEF Books, AcceptedIsTracked, PaperBooksAgree, OverrunIsBounded, IsActive
<1>5. QED BY <1>1, <1>2, <1>3, <1>4

LEMMA NetworkCancelReturnsHolds ==
  ASSUME IInv, NEW o \in Orders, NEW caller \in {"user", "stop"}, NetworkCancelReturns(o, caller)
  PROVE  IInv'
<1> USE DEF NetworkCancelReturns, session, simulator
<1>1. /\ CountInv' /\ FillInv' /\ PeakInv' /\ Books'
      /\ status' \in [Orders -> Status] /\ active' \in SUBSET registered'
      /\ pending' \in SUBSET registered' /\ registered' = registered
      /\ tradeCount' = tradeCount
  BY CancelledBooksHold DEF IInv, Types
<1>2. Types' /\ KindInv' /\ KnownInv'
  BY <1>1 DEF IInv, Types, KindInv, KnownInv
<1>3. QED BY <1>1, <1>2 DEF IInv
-----------------------------------------------------------------------------
(* Fills.                                                                  *)

LEMMA TickHolds ==
  ASSUME IInv, NEW S \in SUBSET Orders, Tick(S) PROVE IInv'
<1> USE DEF IInv, Types, Tick, session, simulator, tasks
<1>1. Types'
  BY DEF Status
<1>2. KindInv' /\ KnownInv' /\ CountInv'
  BY DEF KindInv, KnownInv, CountInv
<1>3. FillInv'
  BY DEF FillInv, KindInv, Fillable
<1>4. AcceptedIsTracked' /\ PaperBooksAgree'
  BY DEF Books, AcceptedIsTracked, PaperBooksAgree, IsActive, ActiveStatus, Fillable
<1>5. PeakInv' /\ OverrunIsBounded'
  <2>1. /\ pending' \in SUBSET (pending \cup submitting) /\ submitting' \in SUBSET submitting
        /\ peak' = peak /\ tradeCount' \in Nat /\ tradeCount' <= tradeCount
    OBVIOUS
  <2>2. QED BY <2>1, OverrunShrinks
<1>6. QED BY <1>1, <1>2, <1>3, <1>4, <1>5 DEF Books

LEMMA TakeForFillHolds == ASSUME IInv, TakeForFill PROVE IInv'
<1> USE DEF IInv, Types, TakeForFill, session, books, tasks
<1>1. Types'
  BY HeadTailProperties
<1>2. KindInv' /\ CountInv' /\ PeakInv'
  BY DEF KindInv, CountInv, PeakInv
<1>3. KnownInv'
  <2>1. queue # << >> /\ Len(queue) \in Nat /\ Len(queue) # 0 /\ Head(queue) = queue[1]
    BY HeadTailProperties, EmptySeq
  <2>2. Head(queue) \in registered
    BY <2>1 DEF KnownInv
  <2>3. ASSUME NEW i \in 1 .. Len(queue') PROVE queue'[i] \in registered
    BY <2>1, <2>3, HeadTailProperties DEF KnownInv
  <2>4. QED BY <2>2, <2>3 DEF KnownInv
<1>4. FillInv'
  BY DEF FillInv, IsActive, ActiveStatus
<1>5. Books'
  BY DEF Books, AcceptedIsTracked, PaperBooksAgree, OverrunIsBounded, IsActive
<1>6. QED BY <1>1, <1>2, <1>3, <1>4, <1>5

LEMMA SimulateFillHolds ==
  ASSUME IInv, NEW s \in Status, SimulateFill(s),
         s \in {"FILLED", "PARTIALLY_FILLED"} \/ s = status[filling]
  PROVE  IInv'
<1> USE DEF IInv, Types, SimulateFill, session, tasks
<1>1. kind = "simulated" /\ filling \in registered
  BY DEF KindInv, KnownInv
<1>2. Types' /\ KindInv' /\ KnownInv' /\ CountInv' /\ PeakInv'
  BY DEF KindInv, KnownInv, CountInv, PeakInv
<1>3. FillInv'
  BY <1>1 DEF FillInv
<1>4. Books'
  BY <1>1 DEF Books, AcceptedIsTracked, PaperBooksAgree, OverrunIsBounded
<1>5. QED BY <1>2, <1>3, <1>4

-----------------------------------------------------------------------------
(* Lifecycle.                                                              *)

(* What touches neither the books nor the simulator, and leaves an engine  *)
(* without adapter running or not as it was, starts it, or is in stop().   *)
LEMMA UntouchedBooksHold ==
  ASSUME IInv, UNCHANGED <<kind, books, simulator, submitting, peak, cancelling>>,
         kind = "none" => running' \/ stop' # <<"no">> \/ UNCHANGED <<running, stop>>
  PROVE  CountInv' /\ FillInv' /\ PeakInv' /\ Books'
<1> USE DEF IInv, books, simulator
<1>1. CountInv' /\ FillInv' /\ PeakInv'
  BY DEF CountInv, FillInv, PeakInv
<1>2. AcceptedIsTracked' /\ OverrunIsBounded'
  BY DEF Books, AcceptedIsTracked, OverrunIsBounded
<1>3. PaperBooksAgree'
  BY DEF Books, PaperBooksAgree, IsActive
<1>4. QED BY <1>1, <1>2, <1>3 DEF Books

LEMMA StartHolds ==
  ASSUME IInv, StartPaper \/ StartConnecting \/ StartSucceeds \/ StartFails PROVE IInv'
<1> USE DEF IInv, StartPaper, StartConnecting, StartSucceeds, StartFails, books, simulator, tasks
<1>1. CountInv' /\ FillInv' /\ PeakInv' /\ Books'
  <2>1. UNCHANGED <<kind, books, simulator, submitting, peak, cancelling, stop>>
    OBVIOUS
  <2>2. kind = "none" => running' \/ UNCHANGED <<running, stop>>
    BY DEF KindInv
  <2>3. QED BY <2>1, <2>2, UntouchedBooksHold
<1>2. CASE StartPaper
  BY <1>1, <1>2 DEF Types, KindInv, KnownInv
<1>3. CASE StartConnecting
  BY <1>1, <1>3 DEF Types, KindInv, KnownInv
<1>4. CASE StartSucceeds
  BY <1>1, <1>4 DEF Types, KindInv, KnownInv
<1>5. CASE StartFails
  BY <1>1, <1>5 DEF Types, KindInv, KnownInv
<1>6. QED BY <1>2, <1>3, <1>4, <1>5

LEMMA StopHolds == ASSUME IInv, Stop PROVE IInv'
<1> USE DEF IInv, Stop, books, simulator
<1>1. stop' = <<"gather">> /\ stop' # <<"no">> /\ stop'[1] # "cancel"
  OBVIOUS
<1>2. CountInv' /\ FillInv' /\ PeakInv' /\ Books'
  BY <1>1, UntouchedBooksHold
<1>3. Types' /\ KindInv' /\ KnownInv'
  BY <1>1 DEF Types, KindInv, KnownInv
<1>4. QED BY <1>2, <1>3

LEMMA StopSnapshotHolds == ASSUME IInv, StopSnapshot PROVE IInv'
<1> USE DEF IInv, StopSnapshot, books, simulator, session
<1>1. kind = "network" /\ stop'[1] = "cancel" /\ stop'[2] = pending
  BY DEF Suspends
<1>2. CountInv' /\ FillInv' /\ PeakInv' /\ Books'
  BY <1>1, UntouchedBooksHold
<1>3. Types'
  BY DEF Types
<1>4. KindInv' /\ KnownInv'
  BY <1>1 DEF Types, KindInv, KnownInv
<1>5. QED BY <1>2, <1>3, <1>4

LEMMA ModeHolds == ASSUME IInv, Pause \/ Resume PROVE IInv'
<1> USE DEF IInv, Pause, Resume, books, simulator, tasks
<1>1. CountInv' /\ FillInv' /\ PeakInv' /\ Books'
  BY UntouchedBooksHold
<1>2. Types' /\ KindInv' /\ KnownInv'
  BY DEF Types, KindInv, KnownInv, Modes
<1>3. QED BY <1>1, <1>2

LEMMA MoveGateHolds == ASSUME IInv, MoveGate PROVE IInv'
<1> USE DEF IInv, MoveGate, books, simulator, tasks
<1>1. CountInv' /\ FillInv' /\ PeakInv' /\ Books'
  BY UntouchedBooksHold
<1>2. linkUp' \in BOOLEAN /\ (kind = "none" => ~linkUp')
  BY DEF Types
<1>3. Types' /\ KindInv' /\ KnownInv'
  BY <1>2 DEF Types, KindInv, KnownInv
<1>4. QED BY <1>1, <1>3

(* The end of stop() with nothing to await: all that is pending is         *)
(* cancelled.                                                              *)
LEMMA StopQuietlyHolds == ASSUME IInv, StopQuietly PROVE IInv'
<1> USE DEF StopQuietly, Disconnect
<1>1. /\ CountInv' /\ FillInv' /\ PeakInv' /\ Books'
      /\ status' \in [Orders -> Status] /\ active' \in SUBSET registered'
      /\ pending' \in SUBSET registered' /\ registered' = registered
      /\ tradeCount' = tradeCount
  BY CancelledBooksHold DEF IInv, Types
<1>2. Types' /\ KindInv' /\ KnownInv'
  BY <1>1 DEF IInv, Types, KindInv, KnownInv
<1>3. QED BY <1>1, <1>2 DEF IInv

LEMMA StopCancelsNextHolds ==
  ASSUME IInv, NEW o \in Orders, StopCancelsNext(o) PROVE IInv'
<1> USE DEF StopCancelsNext, Stopping
<1>1. kind = "network" /\ o \in registered
  BY DEF IInv, KindInv, KnownInv
<1>2. CASE Suspends
  <2>0. PICK S \in SUBSET Orders : stop = <<"cancel", S>>
    BY DEF IInv, Types
  <2>1. Types'
    <3>1. stop' = <<"cancel", S \ {o}>> /\ S \ {o} \in SUBSET Orders
      BY <2>0
    <3>2. cancelling' \in SUBSET (registered \X {"user", "stop"})
      BY <1>1, <1>2 DEF IInv, Types
    <3>3. QED BY <1>2, <3>1, <3>2 DEF IInv, Types, session, simulator, books
  <2>2. KindInv' /\ KnownInv' /\ CountInv' /\ FillInv' /\ PeakInv'
    BY <1>1, <1>2 DEF IInv, KindInv, KnownInv, CountInv, FillInv, PeakInv, session, simulator, books
  <2>3. Books'
    BY <1>1, <1>2 DEF IInv, Books, AcceptedIsTracked, PaperBooksAgree, OverrunIsBounded,
                      session, simulator, books
  <2>4. QED BY <2>1, <2>2, <2>3 DEF IInv
<1>3. CASE ~Suspends
  <2>1. /\ CountInv' /\ FillInv' /\ PeakInv' /\ Books'
        /\ status' \in [Orders -> Status] /\ active' \in SUBSET registered'
        /\ pending' \in SUBSET registered' /\ registered' = registered
        /\ tradeCount' = tradeCount
    BY <1>1, <1>3, CancelledBooksHold DEF IInv, Types, session, simulator
  <2>2. Types' /\ KindInv' /\ KnownInv'
    BY <1>1, <1>3, <2>1 DEF IInv, Types, KindInv, KnownInv, session, simulator
  <2>3. QED BY <2>1, <2>2 DEF IInv
<1>4. QED BY <1>2, <1>3

LEMMA StopEndsHolds == ASSUME IInv, StopEnds PROVE IInv'
<1> USE DEF IInv, StopEnds, Disconnect, Stopping, books
<1>1. kind = "network"
  BY DEF KindInv
<1>2. Types'
  BY DEF Types
<1>3. KindInv' /\ KnownInv' /\ CountInv' /\ FillInv' /\ PeakInv'
  BY <1>1 DEF KindInv, KnownInv, CountInv, FillInv, PeakInv, Types
<1>4. Books'
  BY <1>1 DEF Books, AcceptedIsTracked, PaperBooksAgree, OverrunIsBounded
<1>5. QED BY <1>2, <1>3, <1>4

LEMMA DailyResetHolds == ASSUME IInv, DailyReset PROVE IInv'
<1> USE DEF IInv, Types, DailyReset, session, simulator, tasks
<1>1. Types' /\ KindInv' /\ KnownInv' /\ FillInv'
  BY DEF KindInv, KnownInv, FillInv
<1>2. CountInv'
  BY SmallerSet DEF CountInv
<1>3. PeakInv' /\ OverrunIsBounded'
  <2>1. /\ pending' \in SUBSET (pending \cup submitting) /\ submitting' \in SUBSET submitting
        /\ peak' = peak /\ tradeCount' \in Nat /\ tradeCount' <= tradeCount
    OBVIOUS
  <2>2. QED BY <2>1, OverrunShrinks
<1>4. Books'
  BY <1>3 DEF Books, AcceptedIsTracked, PaperBooksAgree, IsActive
<1>5. QED BY <1>1, <1>2, <1>3, <1>4

LEMMA StutterHolds == ASSUME IInv, UNCHANGED vars PROVE IInv'
  BY DEF IInv, Types, KindInv, KnownInv, CountInv, FillInv, PeakInv, Books, AcceptedIsTracked,
         PaperBooksAgree, OverrunIsBounded, IsActive, vars, session, books, simulator, tasks

-----------------------------------------------------------------------------
(* Every step keeps the inductive invariant.                               *)
LEMMA NextHolds == IInv /\ [Next]_vars => IInv'
<1> SUFFICES ASSUME IInv, [Next]_vars PROVE IInv'
  OBVIOUS
<1>1. ASSUME NEW o \in Orders, OrderStep(o) PROVE IInv'
  BY <1>1, SubmitLocallyHolds, SubmitSimulatedHolds, SubmitToNetworkHolds, NetworkAnswersHold,
     CancelOrderHolds, CancelAtNetworkHolds, NetworkCancelReturnsHolds, StopCancelsNextHolds
     DEF OrderStep
<1>2. CASE SomeTick
  BY <1>2, TickHolds DEF SomeTick
<1>3. CASE TakeForFill
  BY <1>3, TakeForFillHolds
<1>4. ASSUME NEW s \in {"FILLED", "PARTIALLY_FILLED"}, SimulateFill(s) PROVE IInv'
  BY <1>4, SimulateFillHolds DEF Status, ActiveStatus
<1>5. CASE filling # None /\ SimulateFill(status[filling])
  BY <1>5, SimulateFillHolds DEF IInv, Types
<1>6. CASE StartPaper \/ StartConnecting \/ StartSucceeds \/ StartFails
  BY <1>6, StartHolds
<1>7. CASE Stop \/ StopQuietly \/ StopSnapshot \/ StopEnds
  BY <1>7, StopHolds, StopQuietlyHolds, StopSnapshotHolds, StopEndsHolds
<1>8. CASE Pause \/ Resume \/ MoveGate \/ DailyReset
  BY <1>8, ModeHolds, MoveGateHolds, DailyResetHolds
<1>9. CASE UNCHANGED vars
  BY <1>9, StutterHolds
<1>10. QED
  BY <1>1, <1>2, <1>3, <1>4, <1>5, <1>6, <1>7, <1>8, <1>9 DEF Next

(* The inductive invariant holds in every reachable state.                 *)
THEOREM Invariance == Spec => []IInv
<1>1. QED BY InitHolds, NextHolds, PTL DEF Spec

(* The variables keep their types; the trades counted since the last reset *)
(* are no more than the orders there are.                                  *)
THEOREM TypeCorrect == Spec => []TypeOK
<1>1. ASSUME IInv PROVE TypeOK
  <2>1. Types /\ CountInv
    BY <1>1 DEF IInv
  <2>2. tradeCount \in 0 .. Cardinality(Orders)
    <3>1. registered \ submitting \in SUBSET Orders
      BY <2>1 DEF Types
    <3>2. /\ Cardinality(Orders) \in Nat /\ Cardinality(registered \ submitting) \in Nat
          /\ Cardinality(registered \ submitting) <= Cardinality(Orders)
      BY <3>1, SmallerSet
    <3>3. QED BY <2>1, <3>2 DEF Types, CountInv
  <2>3. QED BY <2>1, <2>2 DEF Types, TypeOK
<1>2. QED BY Invariance, <1>1, PTL

(* An order whose status is ACCEPTED is always one that                    *)
(* cancel_all_orders and stop() find, with every broker.                   *)
THEOREM AcceptedAlwaysTracked == Spec => []AcceptedIsTracked
<1>1. QED BY Invariance, PTL DEF IInv, Books

(* Without an adapter the books of LiveEngine, of OrderManager and of the  *)
(* orders always agree, and a stopped engine has nothing pending.          *)
THEOREM PaperBooksAlwaysAgree == Spec => []PaperBooksAgree
<1>1. QED BY Invariance, PTL DEF IInv, Books

(* The orders pending or under way exceed max_pending_orders, and those    *)
(* counted max_daily_trades, by no more than the submissions that          *)
(* overlapped, less one (LiveEngine.submit_order).                         *)
THEOREM OverrunAlwaysBounded == Spec => []OverrunIsBounded
<1>1. QED BY Invariance, PTL DEF IInv, Books

-----------------------------------------------------------------------------
(* The statuses that are final.                                            *)
Sticks ==
  \A o \in Orders :
    /\ status[o] = "FILLED" => status'[o] = "FILLED"
    /\ kind = "none" /\ status[o] = "CANCELLED" => status'[o] = "CANCELLED"

LEMMA CancelSticks == ASSUME IInv, NEW S, CancelBooks(S) PROVE Sticks
  BY CancelBooksHolds DEF Sticks

LEMMA OrderStepSticks == ASSUME IInv, NEW o \in Orders, OrderStep(o) PROVE Sticks
<1> USE DEF IInv, Types, Sticks
<1>1. CASE SubmitLocally(o) \/ SubmitSimulated(o)
  BY <1>1 DEF SubmitLocally, SubmitSimulated, Register, Accepted, FillInv
<1>2. CASE SubmitToNetwork(o)
  BY <1>2 DEF SubmitToNetwork
<1>3. CASE NetworkAccepts(o) \/ NetworkRejects(o)
  <2>1. kind = "network"
    BY <1>3 DEF NetworkAccepts, NetworkRejects, KindInv
  <2>2. QED BY <2>1 DEF FillInv
<1>4. CASE CancelOrder(o)
  BY <1>4, CancelSticks DEF CancelOrder
<1>5. CASE CancelAtNetwork(o)
  BY <1>5 DEF CancelAtNetwork, books
<1>6. ASSUME NEW caller \in {"user", "stop"}, NetworkCancelReturns(o, caller) PROVE Sticks
  BY <1>6, CancelSticks DEF NetworkCancelReturns
<1>7. CASE StopCancelsNext(o)
  BY <1>7, CancelSticks DEF StopCancelsNext, books
<1>8. QED BY <1>1, <1>2, <1>3, <1>4, <1>5, <1>6, <1>7 DEF OrderStep

LEMMA StepSticks == ASSUME IInv, [Next]_vars PROVE Sticks
<1>1. ASSUME NEW o \in Orders, OrderStep(o) PROVE Sticks
  BY <1>1, OrderStepSticks
<1>2. CASE SomeTick
  BY <1>2 DEF SomeTick, Tick, Fillable, Sticks, IInv, Types
<1>3. ASSUME NEW s, SimulateFill(s), s = "FILLED" \/ s = "PARTIALLY_FILLED" \/ s = status[filling]
      PROVE  Sticks
  BY <1>3 DEF SimulateFill, Sticks, IInv, Types, KindInv, FillInv
<1>4. CASE StopQuietly
  BY <1>4, CancelSticks DEF StopQuietly
<1>5. CASE \/ TakeForFill \/ StartPaper \/ StartConnecting \/ StartSucceeds \/ StartFails
           \/ Stop \/ StopSnapshot \/ StopEnds \/ Pause \/ Resume \/ MoveGate
           \/ DailyReset \/ UNCHANGED vars
  <2>1. status' = status
    BY <1>5 DEF TakeForFill, StartPaper, StartConnecting, StartSucceeds, StartFails, Stop,
                StopSnapshot, StopEnds, Pause, Resume, MoveGate, DailyReset, vars, books
  <2>2. QED BY <2>1 DEF Sticks
<1>6. QED BY <1>1, <1>2, <1>3, <1>4, <1>5 DEF Next

(* A filled order stays filled whoever cancels it later, and without an    *)
(* adapter a cancelled order stays cancelled.                              *)
THEOREM TerminalAlwaysSticks == Spec => TerminalSticks
<1>1. IInv /\ [Next]_vars =>
        [ \A o \in Orders :
            /\ status[o] = "FILLED" => status'[o] = "FILLED"
            /\ kind = "none" /\ status[o] = "CANCELLED" => status'[o] = "CANCELLED" ]_vars
  BY StepSticks DEF Sticks
<1>2. QED BY Invariance, <1>1, PTL DEF Spec, TerminalSticks
=============================================================================
