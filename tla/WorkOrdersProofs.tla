--------------------------- MODULE WorkOrdersProofs ---------------------------
(***************************************************************************)
(* Machine-checked proofs about WorkOrders, for any set of keys and        *)
(* requests, any number of orders and any interleaving.                    *)
(***************************************************************************)
EXTENDS WorkOrders, FiniteSetTheorems, TLAPS

(* The record of a request under way is its own.                           *)
OwnRecord(r) ==
    tx[r].at # "idle" =>
        /\ records[tx[r].key] = None
        /\ \A q \in Requests \ {r} : tx[q].at # "idle" => tx[q].key # tx[r].key

(* A request speaks of an order that exists.                               *)
OfOrder(r) ==
    tx[r].at # "idle" /\ tx[r].body.op # "create" => tx[r].body.order \in DOMAIN orders

(* The number a submission has taken is the next one, and nobody else's.   *)
NextNumber(r) ==
    tx[r].at = "numbered" =>
        /\ tx[r].no = Len(orders) + 1 /\ Len(orders) < MaxWork
        /\ \A q \in Requests \ {r} : tx[q].at # "numbered"

(* What was checked under the lock of an order still holds.                *)
CheckStands(r) ==
    tx[r].at = "locked" =>
        /\ tx[r].body.op # "create" /\ Allowed(tx[r].body)
        /\ orders[tx[r].body.order].ver <= MaxWork
        /\ \A q \in Requests \ {r} :
              tx[q].at = "locked" => tx[q].body.order # tx[r].body.order

Relies == \A r \in Requests : OwnRecord(r) /\ OfOrder(r) /\ NextNumber(r) /\ CheckStands(r)

(* The record of a key is None before its effect, and holds it afterwards. *)
RecordTells ==
    \A k \in Keys : EffectsOf(k) = IF records[k] = None THEN {} ELSE {records[k].effect}

(* What the bound on the work counts is finite.                            *)
Counted == IsFiniteSet(Moves) /\ IsFiniteSet(ratings)

IInv ==
    /\ TypeOK /\ Relies /\ RecordTells /\ Counted
    /\ NumbersInOrder /\ TimelineFits /\ RatedOnce

-----------------------------------------------------------------------------
(* What the operators say. *)

LEMMA TxOf ==
  ASSUME TypeOK, NEW r \in Requests, tx[r].at # "idle"
  PROVE  /\ tx[r].key \in Keys /\ tx[r].body \in Sent
         /\ tx[r].body.op \in {"create", "move", "rate"}
         /\ tx[r].at \in {"begun", "locked", "numbered"}
         /\ tx[r].at \in {"begun", "locked"} =>
               tx[r] \in [at : {"begun", "locked"}, key : Keys, body : Sent]
         /\ tx[r].at = "numbered" => tx[r].no \in 1 .. MaxNo
         /\ tx[r].body.op = "move" =>
               tx[r].body \in [op : {"move"}, order : Nat, target : States, ver : Nat]
<1>1. tx[r] \in Transactions
  BY DEF TypeOK
<1>2. tx[r] # Idle
  BY DEF Idle
<1>3. tx[r].body \in Sent /\ tx[r].key \in Keys
  BY <1>1, <1>2 DEF Transactions
<1> QED
  BY <1>1, <1>2, <1>3 DEF Transactions, Sent

LEMMA RowsOf ==
  ASSUME TypeOK, NEW o \in DOMAIN orders
  PROVE  /\ orders[o] \in OrderRows /\ events[o] \in Seq(EventRows)
         /\ o \in 1 .. Len(orders) /\ o \in DOMAIN events
BY DEF TypeOK

LEMMA BodiesSent ==
  ASSUME TypeOK, NEW body \in Bodies
  PROVE  body \in Sent /\ (body.op # "create" => body.order \in DOMAIN orders)
<1>1. CASE body = [op |-> "create"]
  BY <1>1 DEF Sent
<1>2. CASE \E m \in (DOMAIN orders) \X States :
              body = [op |-> "move", order |-> m[1], target |-> m[2],
                      ver |-> orders[m[1]].ver]
  <2> PICK m \in (DOMAIN orders) \X States :
              body = [op |-> "move", order |-> m[1], target |-> m[2],
                      ver |-> orders[m[1]].ver]
    BY <1>2
  <2>1. m[1] \in DOMAIN orders /\ m[2] \in States
    OBVIOUS
  <2>2. m[1] \in Nat /\ orders[m[1]].ver \in Nat
    BY <2>1, RowsOf, WorkOrdersAssumption DEF OrderRows
  <2> QED
    BY <2>1, <2>2 DEF Sent
<1>3. CASE \E o \in DOMAIN orders : body = [op |-> "rate", order |-> o]
  <2> PICK o \in DOMAIN orders : body = [op |-> "rate", order |-> o]
    BY <1>3
  <2>1. o \in Nat
    BY DEF TypeOK
  <2> QED
    BY <2>1 DEF Sent
<1> QED
  BY <1>1, <1>2, <1>3 DEF Bodies

(* The numbers are those of all orders so far, so the latest is their      *)
(* count.                                                                  *)
LEMMA LatestIsLast ==
  ASSUME TypeOK, NumbersInOrder
  PROVE  Latest = Len(orders)
<1>1. CASE orders = <<>>
  BY <1>1 DEF Latest
<1>2. CASE orders # <<>>
  <2>1. Len(orders) \in Nat /\ Len(orders) >= 1 /\ DOMAIN orders = 1 .. Len(orders)
    BY <1>2 DEF TypeOK
  <2>2. \A n : n \in Numbers <=> n \in 1 .. Len(orders)
    BY <2>1 DEF Numbers, NumbersInOrder
  <2>3. Latest \in Numbers /\ \A m \in Numbers : m <= Latest
    <3>1. Len(orders) \in Numbers /\ \A m \in Numbers : m <= Len(orders)
      BY <2>1, <2>2
    <3> QED
      BY <1>2, <3>1 DEF Latest
  <2> QED
    BY <2>1, <2>2, <2>3
<1> QED
  BY <1>1, <1>2

(* While more work may begin no order and no timeline is at its bound.     *)
LEMMA WorkBounds ==
  ASSUME TypeOK, Counted, TimelineFits, MayWork
  PROVE  /\ Len(orders) < MaxWork
         /\ \A o \in DOMAIN orders : orders[o].ver <= MaxWork
<1>1. /\ Cardinality(ratings) \in Nat /\ Cardinality(Moves) \in Nat
      /\ Len(orders) \in Nat /\ MaxWork \in Nat
      /\ Len(orders) + Cardinality(ratings) + Cardinality(Moves) < MaxWork
  BY FS_CardinalityType, WorkOrdersAssumption DEF Counted, MayWork, TypeOK
<1>2. ASSUME NEW o \in DOMAIN orders PROVE orders[o].ver <= MaxWork
  <2> DEFINE ver == orders[o].ver
             own == {o} \X (1 .. ver - 1)
  <2>1. ver \in Nat /\ ver >= 1 /\ Len(events[o]) = ver
    BY RowsOf, <1>1 DEF OrderRows, TimelineFits
  <2>2. own \subseteq Moves
    BY <2>1 DEF Moves
  <2>3. IsFiniteSet(own) /\ Cardinality(own) <= Cardinality(Moves)
    BY <2>2, FS_Subset DEF Counted
  <2>4. Cardinality(own) = ver - 1
    <3>1. IsFiniteSet(1 .. ver - 1) /\ Cardinality(1 .. ver - 1) = ver - 1
      <4>1. 1 \in Int /\ ver - 1 \in Int /\ (1 > ver - 1 => ver - 1 = 0)
        BY <2>1
      <4>2. (ver - 1) - 1 + 1 = ver - 1
        BY <2>1
      <4> QED
        BY <4>1, <4>2, FS_Interval
    <3>2. IsFiniteSet({o}) /\ Cardinality({o}) = 1
      BY FS_Singleton
    <3>3. Cardinality(own) = Cardinality({o}) * Cardinality(1 .. ver - 1)
      BY <3>1, <3>2, FS_Product
    <3> QED
      BY <2>1, <3>1, <3>2, <3>3
  <2> HIDE DEF own, ver
  <2>5. ver <= MaxWork
    BY <1>1, <2>1, <2>3, <2>4
  <2> QED
    BY <2>5 DEF ver
<1> QED
  BY <1>1, <1>2

-----------------------------------------------------------------------------
(* A step that writes only transactions keeps all that is stored. *)

LEMMA StoredKeeps ==
  ASSUME IInv, UNCHANGED <<orders, events, ratings, records>>
  PROVE  RecordTells' /\ Counted' /\ NumbersInOrder' /\ TimelineFits' /\ RatedOnce'
<1>2. Counted'
  BY DEF IInv, Counted, Moves
<1>1. \A k \in Keys : EffectsOf(k)' = EffectsOf(k)
  BY DEF EffectsOf, Moves
<1> QED
  BY <1>1, <1>2 DEF IInv, RecordTells, NumbersInOrder, TimelineFits, RatedOnce

LEMMA TxStep ==
  ASSUME IInv, NEW r \in Requests, NEW t \in Transactions,
         tx' = [tx EXCEPT ![r] = t],
         UNCHANGED <<orders, events, ratings, records, told>>,
         Relies'
  PROVE  IInv'
<1>1. TypeOK'
  BY DEF IInv, TypeOK
<1> QED
  BY <1>1, StoredKeeps DEF IInv

LEMMA BeginKeeps ==
  ASSUME IInv, NEW r \in Requests, NEW k \in Keys, NEW body \in Bodies,
         Begin(r, k, body)
  PROVE  IInv'
<1> DEFINE t == [at |-> "begun", key |-> k, body |-> body]
<1>1. body \in Sent /\ (body.op # "create" => body.order \in DOMAIN orders)
  BY BodiesSent DEF IInv
<1>2. t \in Transactions /\ t.at = "begun" /\ t.key = k /\ t.body = body
  BY <1>1 DEF Transactions
<1>3. /\ tx' = [tx EXCEPT ![r] = t]
      /\ UNCHANGED <<orders, events, ratings, records, told>>
      /\ records[k] = None
      /\ \A q \in Requests : tx[q].at # "idle" => tx[q].key # k
  BY DEF Begin, Holds
<1> HIDE DEF t
<1>4. Relies'
  <2> SUFFICES ASSUME NEW s \in Requests
               PROVE  (OwnRecord(s) /\ OfOrder(s) /\ NextNumber(s) /\ CheckStands(s))'
    BY DEF Relies
  <2>1. \A q \in Requests : tx'[q] = IF q = r THEN t ELSE tx[q]
    BY <1>3 DEF IInv, TypeOK
  <2>2. OwnRecord(s) /\ OfOrder(s) /\ NextNumber(s) /\ CheckStands(s)
    BY DEF IInv, Relies
  <2>3. OwnRecord(s)'
    BY <1>2, <1>3, <2>1, <2>2 DEF OwnRecord
  <2>4. OfOrder(s)'
    BY <1>1, <1>2, <1>3, <2>1, <2>2 DEF OfOrder
  <2>5. NextNumber(s)'
    BY <1>2, <1>3, <2>1, <2>2 DEF NextNumber
  <2>6. CheckStands(s)'
    BY <1>2, <1>3, <2>1, <2>2 DEF CheckStands, Allowed, MayMove, MayRate
  <2> QED
    BY <2>3, <2>4, <2>5, <2>6
<1> QED
  BY <1>2, <1>3, <1>4, TxStep

LEMMA AbortKeeps ==
  ASSUME IInv, NEW r \in Requests, Abort(r)
  PROVE  IInv'
<1>1. Idle \in Transactions /\ Idle.at = "idle"
  BY DEF Transactions, Idle
<1>2. /\ tx' = [tx EXCEPT ![r] = Idle]
      /\ UNCHANGED <<orders, events, ratings, records, told>>
  BY DEF Abort
<1>3. \A q \in Requests : tx'[q] = IF q = r THEN Idle ELSE tx[q]
  BY <1>2 DEF IInv, TypeOK
<1>4. Relies'
  BY <1>1, <1>2, <1>3
     DEF IInv, Relies, OwnRecord, OfOrder, NextNumber, CheckStands, Allowed,
         MayMove, MayRate
<1> QED
  BY <1>1, <1>2, <1>4, TxStep

LEMMA AllocateKeeps ==
  ASSUME IInv, NEW r \in Requests, AllocateNo(r)
  PROVE  IInv'
<1> DEFINE t == [at |-> "numbered", key |-> tx[r].key, body |-> tx[r].body,
                 no |-> Latest + 1]
<1>1. Latest = Len(orders) /\ Len(orders) \in Nat /\ Len(orders) < MaxWork
  BY LatestIsLast, WorkBounds DEF IInv, TypeOK, AllocateNo
<1>2. Latest + 1 \in 1 .. MaxNo
  BY <1>1, WorkOrdersAssumption DEF AllocateNo
<1>3. /\ tx[r].at = "begun" /\ tx[r].key \in Keys /\ tx[r].body \in Sent
      /\ tx[r].body.op = "create"
  BY TxOf DEF AllocateNo, IInv
<1>4. /\ t \in Transactions /\ t.at = "numbered" /\ t.key = tx[r].key
      /\ t.body = tx[r].body /\ t.no = Len(orders) + 1
  BY <1>1, <1>2, <1>3 DEF Transactions
<1>5. /\ tx' = [tx EXCEPT ![r] = t]
      /\ UNCHANGED <<orders, events, ratings, records, told>>
      /\ \A q \in Requests : tx[q].at # "numbered"
  BY DEF AllocateNo
<1> HIDE DEF t
<1>6. \A q \in Requests : tx'[q] = IF q = r THEN t ELSE tx[q]
  BY <1>5 DEF IInv, TypeOK
<1>7. Relies'
  <2> SUFFICES ASSUME NEW s \in Requests
               PROVE  (OwnRecord(s) /\ OfOrder(s) /\ NextNumber(s) /\ CheckStands(s))'
    BY DEF Relies
  <2>2. OwnRecord(s) /\ OfOrder(s) /\ NextNumber(s) /\ CheckStands(s) /\ OwnRecord(r)
    BY DEF IInv, Relies
  <2>3. OwnRecord(s)'
    BY <1>3, <1>4, <1>5, <1>6, <2>2 DEF OwnRecord
  <2>4. OfOrder(s)'
    BY <1>3, <1>4, <1>5, <1>6, <2>2 DEF OfOrder
  <2>5. NextNumber(s)'
    BY <1>1, <1>4, <1>5, <1>6, <2>2 DEF NextNumber
  <2>6. CheckStands(s)'
    BY <1>4, <1>5, <1>6, <2>2 DEF CheckStands, Allowed, MayMove, MayRate
  <2> QED
    BY <2>3, <2>4, <2>5, <2>6
<1> QED
  BY <1>4, <1>5, <1>7, TxStep

LEMMA LockKeeps ==
  ASSUME IInv, NEW r \in Requests, Lock(r)
  PROVE  IInv'
<1> DEFINE t == [tx[r] EXCEPT !.at = "locked"]
<1>1. /\ tx[r].at = "begun" /\ tx[r].body.op # "create" /\ Allowed(tx[r].body)
      /\ RowFree(tx[r].body.order)
      /\ tx' = [tx EXCEPT ![r] = t]
      /\ UNCHANGED <<orders, events, ratings, records, told>>
  BY DEF Lock
<1>2. tx[r] \in [at : {"begun", "locked"}, key : Keys, body : Sent]
  BY <1>1, TxOf DEF IInv
<1>a. orders[tx[r].body.order].ver <= MaxWork
  BY <1>1, WorkBounds DEF IInv, Relies, OfOrder, Lock
<1>3. t \in Transactions /\ t.at = "locked" /\ t.key = tx[r].key /\ t.body = tx[r].body
  BY <1>2 DEF Transactions
<1> HIDE DEF t
<1>4. \A q \in Requests : tx'[q] = IF q = r THEN t ELSE tx[q]
  BY <1>1 DEF IInv, TypeOK
<1>5. Relies'
  <2> SUFFICES ASSUME NEW s \in Requests
               PROVE  (OwnRecord(s) /\ OfOrder(s) /\ NextNumber(s) /\ CheckStands(s))'
    BY DEF Relies
  <2>2. /\ OwnRecord(s) /\ OfOrder(s) /\ NextNumber(s) /\ CheckStands(s)
        /\ OwnRecord(r)
    BY DEF IInv, Relies
  <2>3. OwnRecord(s)'
    BY <1>1, <1>3, <1>4, <2>2 DEF OwnRecord
  <2>4. OfOrder(s)'
    BY <1>1, <1>3, <1>4, <2>2 DEF OfOrder
  <2>5. NextNumber(s)'
    BY <1>1, <1>3, <1>4, <2>2 DEF NextNumber
  <2>6. CheckStands(s)'
    BY <1>1, <1>3, <1>4, <1>a, <2>2
       DEF CheckStands, Allowed, MayMove, MayRate, RowFree
  <2> QED
    BY <2>3, <2>4, <2>5, <2>6
<1> QED
  BY <1>1, <1>3, <1>5, TxStep

-----------------------------------------------------------------------------
(* A step that commits an effect. *)

(* The record is completed with the effect that is stored, which keeps the *)
(* two in agreement.                                                       *)
LEMMA AnsweredTells ==
  ASSUME IInv, NEW r \in Requests, NEW e \in Effects,
         tx[r].at # "idle", Answered(r, e),
         \A k \in Keys : EffectsOf(k)' = IF k = tx[r].key THEN EffectsOf(k) \cup {e}
                                         ELSE EffectsOf(k)
  PROVE  /\ RecordTells'
         /\ DOMAIN records' = Keys
         /\ \A k \in Keys : records'[k] # None => records'[k].effect \in Effects
         /\ \A k \in Keys : k # tx[r].key => records'[k] = records[k]
         /\ tx' = [tx EXCEPT ![r] = Idle] /\ tx' \in [Requests -> Transactions]
         /\ told' \subseteq Keys \X Effects
<1> DEFINE d == [op |-> "done", body |-> tx[r].body, effect |-> e]
<1>1. tx[r].key \in Keys /\ records[tx[r].key] = None
  BY TxOf DEF IInv, Relies, OwnRecord
<1>2. records' = [records EXCEPT ![tx[r].key] = d]
  BY DEF Answered
<1>3. d # None /\ d.effect = e
  BY DEF None
<1> HIDE DEF d
<1>4. \A k \in Keys : records'[k] = IF k = tx[r].key THEN d ELSE records[k]
  BY <1>2 DEF IInv, TypeOK
<1>5. RecordTells'
  BY <1>1, <1>3, <1>4 DEF RecordTells, IInv
<1>6. tx' = [tx EXCEPT ![r] = Idle] /\ tx' \in [Requests -> Transactions]
  BY DEF Answered, IInv, TypeOK, Transactions
<1>7. told' \subseteq Keys \X Effects
  BY <1>1 DEF Answered, IInv, TypeOK
<1> QED
  BY <1>2, <1>3, <1>4, <1>5, <1>6, <1>7 DEF IInv, TypeOK

LEMMA CreateWrites ==
  ASSUME IInv, NEW r \in Requests, Create(r)
  PROVE  /\ tx[r].key \in Keys /\ tx[r].no \in 1 .. MaxNo
         /\ tx[r].no = Len(orders) + 1
         /\ Len(orders) \in Nat /\ Len(orders) < MaxWork
         /\ orders' \in Seq(OrderRows) /\ Len(orders') = Len(orders) + 1
         /\ events' \in Seq(Seq(EventRows)) /\ Len(events') = Len(orders) + 1
         /\ DOMAIN orders' = DOMAIN orders \cup {Len(orders) + 1}
         /\ Len(orders) + 1 \notin DOMAIN orders
         /\ \A o \in DOMAIN orders : orders'[o] = orders[o] /\ events'[o] = events[o]
         /\ orders'[Len(orders) + 1] = [no |-> tx[r].no, st |-> "submitted", ver |-> 1,
                                        assigned |-> FALSE, key |-> tx[r].key]
         /\ events'[Len(orders) + 1] =
               <<[from |-> "none", to |-> "submitted", key |-> tx[r].key]>>
<1> DEFINE order == [no |-> tx[r].no, st |-> "submitted", ver |-> 1,
                     assigned |-> FALSE, key |-> tx[r].key]
           event == [from |-> "none", to |-> "submitted", key |-> tx[r].key]
<1>1. /\ tx[r].at = "numbered" /\ tx[r].key \in Keys /\ tx[r].no \in 1 .. MaxNo
      /\ tx[r].no = Len(orders) + 1 /\ Len(orders) < MaxWork
  BY TxOf DEF Create, IInv, Relies, NextNumber
<1>2. order \in OrderRows /\ event \in EventRows
  BY <1>1, WorkOrdersAssumption DEF OrderRows, EventRows, States
<1>3. <<event>> \in Seq(EventRows)
  BY <1>2
<1>4. /\ orders' = Append(orders, order) /\ events' = Append(events, <<event>>)
  BY DEF Create
<1>5. /\ orders \in Seq(OrderRows) /\ events \in Seq(Seq(EventRows))
      /\ Len(events) = Len(orders) /\ Len(orders) \in Nat
  BY DEF IInv, TypeOK
<1> HIDE DEF order, event
<1>6. orders' \in Seq(OrderRows) /\ Len(orders') = Len(orders) + 1
  BY <1>2, <1>4, <1>5
<1>7. events' \in Seq(Seq(EventRows)) /\ Len(events') = Len(orders) + 1
  BY <1>3, <1>4, <1>5
<1>8. /\ orders'[Len(orders) + 1] = order /\ events'[Len(orders) + 1] = <<event>>
      /\ \A o \in DOMAIN orders : orders'[o] = orders[o] /\ events'[o] = events[o]
  BY <1>4, <1>5
<1>9. /\ DOMAIN orders' = DOMAIN orders \cup {Len(orders) + 1}
      /\ Len(orders) + 1 \notin DOMAIN orders
  BY <1>5, <1>6
<1> QED
  BY <1>1, <1>5, <1>6, <1>7, <1>8, <1>9 DEF order, event

LEMMA CreateMoves ==
  ASSUME IInv, NEW r \in Requests, Create(r)
  PROVE  Moves' = Moves
<1> DEFINE n == Len(orders) + 1
<1>1. /\ DOMAIN orders' = DOMAIN orders \cup {n}
      /\ \A o \in DOMAIN orders : events'[o] = events[o]
      /\ events'[n] = <<[from |-> "none", to |-> "submitted", key |-> tx[r].key]>>
  BY CreateWrites
<1>0. Len(events'[n]) = 1
  BY <1>1
<1> HIDE DEF n
<1>2. {n} \X (1 .. Len(events'[n]) - 1) = {}
  BY <1>0
<1>3. \A o \in DOMAIN orders : {o} \X (1 .. Len(events'[o]) - 1)
                                = {o} \X (1 .. Len(events[o]) - 1)
  BY <1>1
<1>4. \A m : m \in Moves' <=> \E o \in DOMAIN orders' :
                                    m \in {o} \X (1 .. Len(events'[o]) - 1)
  BY DEF Moves
<1>5. \A m : m \in Moves <=> \E o \in DOMAIN orders :
                                    m \in {o} \X (1 .. Len(events[o]) - 1)
  BY DEF Moves
<1> QED
  BY <1>1, <1>2, <1>3, <1>4, <1>5

LEMMA CreateEffect ==
  ASSUME IInv, NEW r \in Requests, Create(r), NEW k \in Keys
  PROVE  EffectsOf(k)' = IF k = tx[r].key
                         THEN EffectsOf(k) \cup {[op |-> "created", no |-> tx[r].no]}
                         ELSE EffectsOf(k)
<1> DEFINE n == Len(orders) + 1
<1>1. /\ DOMAIN orders' = DOMAIN orders \cup {n} /\ n \notin DOMAIN orders
      /\ \A o \in DOMAIN orders : orders'[o] = orders[o] /\ events'[o] = events[o]
      /\ orders'[n] = [no |-> tx[r].no, st |-> "submitted", ver |-> 1,
                       assigned |-> FALSE, key |-> tx[r].key]
      /\ events'[n] = <<[from |-> "none", to |-> "submitted", key |-> tx[r].key]>>
  BY CreateWrites
<1>0. orders'[n].no = tx[r].no /\ orders'[n].key = tx[r].key /\ Len(events'[n]) = 1
  BY <1>1
<1> HIDE DEF n
<1>2. Moves' = Moves
  BY CreateMoves
<1>3. \A m \in Moves : m[1] \in DOMAIN orders
  BY DEF Moves
<1>4. {[op |-> "moved", order |-> m[1], ver |-> m[2] + 1] :
             m \in {m \in Moves : events[m[1]][m[2] + 1].key = k}}'
      = {[op |-> "moved", order |-> m[1], ver |-> m[2] + 1] :
             m \in {m \in Moves : events[m[1]][m[2] + 1].key = k}}
  BY <1>1, <1>2, <1>3
<1>5. {[op |-> "created", no |-> orders[o].no] :
             o \in {o \in DOMAIN orders : orders[o].key = k}}'
      = IF k = tx[r].key
        THEN {[op |-> "created", no |-> orders[o].no] :
                 o \in {o \in DOMAIN orders : orders[o].key = k}}
             \cup {[op |-> "created", no |-> tx[r].no]}
        ELSE {[op |-> "created", no |-> orders[o].no] :
                 o \in {o \in DOMAIN orders : orders[o].key = k}}
  BY <1>0, <1>1
<1>6. ratings' = ratings
  BY DEF Create
<1> QED
  BY <1>4, <1>5, <1>6 DEF EffectsOf

LEMMA CreateKeeps ==
  ASSUME IInv, NEW r \in Requests, Create(r)
  PROVE  IInv'
<1> DEFINE n == Len(orders) + 1
           e == [op |-> "created", no |-> tx[r].no]
<1>1. /\ tx[r].at = "numbered" /\ tx[r].key \in Keys /\ tx[r].no \in 1 .. MaxNo
      /\ tx[r].no = n /\ Len(orders) \in Nat /\ Len(orders) < MaxWork
      /\ DOMAIN orders' = DOMAIN orders \cup {n} /\ n \notin DOMAIN orders
      /\ \A o \in DOMAIN orders : orders'[o] = orders[o] /\ events'[o] = events[o]
      /\ orders'[n] = [no |-> tx[r].no, st |-> "submitted", ver |-> 1,
                       assigned |-> FALSE, key |-> tx[r].key]
      /\ events'[n] = <<[from |-> "none", to |-> "submitted", key |-> tx[r].key]>>
      /\ Len(orders') = n /\ Len(events') = n /\ ratings' = ratings
  BY CreateWrites DEF Create
<1>2. orders' \in Seq(OrderRows) /\ events' \in Seq(Seq(EventRows))
  BY CreateWrites
<1>3. e \in Effects /\ Answered(r, e)
  <2>1. tx[r].no \in 1 .. MaxNo
    BY <1>1
  <2> QED
    BY <2>1 DEF Effects, Create
<1>4. \A k \in Keys : EffectsOf(k)' = IF k = tx[r].key THEN EffectsOf(k) \cup {e}
                                      ELSE EffectsOf(k)
  BY CreateEffect
<1> HIDE DEF e
<1>5. /\ RecordTells'
      /\ DOMAIN records' = Keys
      /\ \A k \in Keys : records'[k] # None => records'[k].effect \in Effects
      /\ \A k \in Keys : k # tx[r].key => records'[k] = records[k]
      /\ tx' = [tx EXCEPT ![r] = Idle] /\ tx' \in [Requests -> Transactions]
      /\ told' \subseteq Keys \X Effects
  BY <1>1, <1>3, <1>4, AnsweredTells
<1>6. TypeOK'
  <2>1. Len(orders') <= MaxWork /\ DOMAIN orders \subseteq DOMAIN orders'
    BY <1>1, WorkOrdersAssumption
  <2>2. ratings' \subseteq [order : DOMAIN orders', key : Keys]
    BY <1>1, <2>1 DEF IInv, TypeOK
  <2> QED
    BY <1>1, <1>2, <1>5, <2>1, <2>2 DEF TypeOK
<1>7. Relies'
  <2>1. /\ \A q \in Requests : tx'[q] = IF q = r THEN Idle ELSE tx[q]
        /\ Idle.at = "idle"
    BY <1>5 DEF IInv, TypeOK, Idle
  <2> SUFFICES ASSUME NEW s \in Requests
               PROVE  (OwnRecord(s) /\ OfOrder(s) /\ NextNumber(s) /\ CheckStands(s))'
    BY DEF Relies
  <2>2. /\ OwnRecord(s) /\ OfOrder(s) /\ NextNumber(s) /\ CheckStands(s)
        /\ OwnRecord(r) /\ NextNumber(r)
    BY DEF IInv, Relies
  <2>3. s # r /\ tx[s].at # "idle" => tx[s].key \in Keys
    BY TxOf DEF IInv
  <2>4. OwnRecord(s)'
    BY <1>1, <1>5, <2>1, <2>2, <2>3 DEF OwnRecord
  <2>5. OfOrder(s)'
    BY <1>1, <2>1, <2>2 DEF OfOrder
  <2>6. NextNumber(s)'
    BY <1>1, <2>1, <2>2 DEF NextNumber
  <2>7. CheckStands(s)'
    <3> SUFFICES ASSUME tx'[s].at = "locked" PROVE CheckStands(s)'
      BY DEF CheckStands
    <3>1. s # r /\ tx'[s] = tx[s] /\ tx[s].at = "locked"
      BY <2>1
    <3>2. tx[s].body.order \in DOMAIN orders
      BY <2>2, <3>1 DEF OfOrder, CheckStands
    <3>3. Allowed(tx[s].body)'
      BY <1>1, <2>2, <3>1, <3>2 DEF CheckStands, Allowed, MayMove, MayRate
    <3>5. orders'[tx[s].body.order].ver <= MaxWork
      BY <1>1, <2>2, <3>1, <3>2 DEF CheckStands
    <3>4. \A q \in Requests \ {s} : tx'[q].at = "locked" => tx[q].at = "locked" /\ tx'[q] = tx[q]
      BY <2>1
    <3> QED
      BY <2>2, <3>1, <3>3, <3>4, <3>5 DEF CheckStands
  <2> QED
    BY <2>4, <2>5, <2>6, <2>7
<1>8. NumbersInOrder'
  BY <1>1 DEF IInv, NumbersInOrder
<1>9. TimelineFits'
  <2> SUFFICES ASSUME NEW o \in DOMAIN orders'
               PROVE  /\ Len(events'[o]) = orders'[o].ver
                      /\ events'[o][orders'[o].ver].to = orders'[o].st
                      /\ \A i \in 2 .. Len(events'[o]) :
                            /\ events'[o][i].from = events'[o][i - 1].to
                            /\ <<events'[o][i].from, events'[o][i].to>> \in Legal
    BY DEF TimelineFits
  <2>1. CASE o = n
    <3>1. /\ Len(events'[n]) = 1 /\ events'[n][1].to = "submitted"
          /\ orders'[n].ver = 1 /\ orders'[n].st = "submitted"
      BY <1>1
    <3> QED
      BY <2>1, <3>1
  <2>2. CASE o # n
    BY <1>1, <2>2 DEF IInv, TimelineFits
  <2> QED
    BY <2>1, <2>2
<1>10. RatedOnce'
  BY <1>1 DEF IInv, TypeOK, RatedOnce
<1>11. Counted'
  BY <1>1, CreateMoves DEF IInv, Counted
<1> QED
  BY <1>5, <1>6, <1>7, <1>8, <1>9, <1>10, <1>11 DEF IInv

(* The locked order is rewritten from the reading that still stands.       *)
LEMMA TransitionWrites ==
  ASSUME IInv, NEW r \in Requests, Transition(r)
  PROVE  LET b == tx[r].body
             new == [from |-> orders[b.order].st, to |-> b.target, key |-> tx[r].key] IN
         /\ tx[r].at = "locked" /\ b.op = "move" /\ tx[r].key \in Keys
         /\ b.order \in DOMAIN orders /\ b.order \in Nat /\ b.target \in States
         /\ b.ver \in Nat /\ orders[b.order].ver = b.ver
         /\ b.order \in 1 .. MaxWork /\ b.ver + 1 \in 2 .. MaxWork + 1
         /\ Len(events[b.order]) = b.ver
         /\ <<orders[b.order].st, b.target>> \in Legal
         /\ orders' \in Seq(OrderRows) /\ DOMAIN orders' = DOMAIN orders
         /\ Len(orders') = Len(orders)
         /\ \A o \in DOMAIN orders : /\ orders'[o].no = orders[o].no
                                     /\ orders'[o].key = orders[o].key
         /\ orders'[b.order].st = b.target /\ orders'[b.order].ver = b.ver + 1
         /\ \A o \in DOMAIN orders \ {b.order} : /\ orders'[o] = orders[o]
                                                 /\ events'[o] = events[o]
         /\ events' \in Seq(Seq(EventRows)) /\ Len(events') = Len(orders)
         /\ events'[b.order] = Append(events[b.order], new)
         /\ events[b.order] \in Seq(EventRows) /\ new \in EventRows
<1> DEFINE b == tx[r].body
           o == b.order
           old == orders[o]
           s1 == [old EXCEPT !.st = b.target]
           s2 == [s1 EXCEPT !.ver = b.ver + 1]
           s3 == [s2 EXCEPT !.assigned = @ \/ b.target = "accepted"]
           new == [from |-> old.st, to |-> b.target, key |-> tx[r].key]
<1>1. tx[r].at = "locked" /\ b.op = "move"
  BY DEF Transition
<1>2. /\ b \in [op : {"move"}, order : Nat, target : States, ver : Nat]
      /\ tx[r].key \in Keys
  BY <1>1, TxOf DEF IInv
<1>3. o \in DOMAIN orders /\ Allowed(b) /\ old.ver <= MaxWork
  BY <1>1 DEF IInv, Relies, OfOrder, CheckStands
<1>4. old.ver = b.ver /\ <<old.st, b.target>> \in Legal
  BY <1>1, <1>3 DEF Allowed, MayMove
<1>5. /\ old \in OrderRows /\ events[o] \in Seq(EventRows)
      /\ o \in 1 .. Len(orders) /\ o \in DOMAIN events
  BY <1>3, RowsOf DEF IInv
<1>a. o \in 1 .. MaxWork /\ b.ver + 1 \in 2 .. MaxWork + 1
  <2>1. old.ver \in 1 .. MaxWork + 1
    BY <1>5 DEF OrderRows
  <2>2. b.ver \in 1 .. MaxWork
    BY <1>2, <1>3, <1>4, <2>1, WorkOrdersAssumption
  <2>3. o \in 1 .. MaxWork
    BY <1>5, WorkOrdersAssumption DEF IInv, TypeOK
  <2> QED
    BY <2>2, <2>3, WorkOrdersAssumption
<1>6. Len(events[o]) = b.ver
  BY <1>3, <1>4 DEF IInv, TimelineFits
<1>7. s3 \in OrderRows /\ s3.no = old.no /\ s3.key = old.key /\ s3.st = b.target /\ s3.ver = b.ver + 1
  <2>1. s1 \in OrderRows /\ s1.no = old.no /\ s1.key = old.key /\ s1.st = b.target
    BY <1>2, <1>5 DEF OrderRows
  <2> HIDE DEF s1
  <2>2. /\ s2 \in OrderRows /\ s2.no = old.no /\ s2.key = old.key /\ s2.st = b.target
        /\ s2.ver = b.ver + 1
    <3>1. b.ver + 1 \in 1 .. MaxWork + 1
      BY <1>2, <1>a, WorkOrdersAssumption
    <3> QED
      BY <2>1, <3>1 DEF OrderRows
  <2> HIDE DEF s2
  <2>3. (s2.assigned \/ b.target = "accepted") \in BOOLEAN
    BY <2>2 DEF OrderRows
  <2> QED
    BY <2>2, <2>3 DEF OrderRows
<1>8. orders' = [orders EXCEPT ![o] = s3]
  BY DEF Transition
<1>9. new \in EventRows
  BY <1>2, <1>5 DEF EventRows, OrderRows
<1>10. events' = [events EXCEPT ![o] = Append(events[o], new)]
  BY DEF Transition
<1>11. /\ orders \in Seq(OrderRows) /\ events \in Seq(Seq(EventRows))
       /\ Len(events) = Len(orders)
  BY DEF IInv, TypeOK
<1>12. Append(events[o], new) \in Seq(EventRows)
  BY <1>5, <1>9
<1> HIDE DEF s3, new
<1>13. /\ orders' \in Seq(OrderRows) /\ DOMAIN orders' = DOMAIN orders
       /\ Len(orders') = Len(orders) /\ orders'[o] = s3
       /\ \A p \in DOMAIN orders \ {o} : orders'[p] = orders[p]
  BY <1>3, <1>7, <1>8, <1>11
<1>14. /\ events' \in Seq(Seq(EventRows)) /\ Len(events') = Len(orders)
       /\ events'[o] = Append(events[o], new)
       /\ \A p \in DOMAIN orders \ {o} : events'[p] = events[p]
  BY <1>3, <1>5, <1>10, <1>11, <1>12
<1>15. \A p \in DOMAIN orders : /\ orders'[p].no = orders[p].no
                                /\ orders'[p].key = orders[p].key
  BY <1>7, <1>13
<1> QED
  BY <1>1, <1>2, <1>3, <1>4, <1>5, <1>6, <1>7, <1>9, <1>13, <1>14, <1>15, <1>a DEF new

LEMMA TransitionMoves ==
  ASSUME IInv, NEW r \in Requests, Transition(r)
  PROVE  Moves' = Moves \cup {<<tx[r].body.order, tx[r].body.ver>>}
<1> DEFINE b == tx[r].body
           n == b.order
           new == [from |-> orders[n].st, to |-> b.target, key |-> tx[r].key]
           last == <<n, b.ver>>
<1>1. /\ n \in DOMAIN orders /\ b.ver \in Nat /\ Len(events[n]) = b.ver
      /\ DOMAIN orders' = DOMAIN orders
      /\ \A o \in DOMAIN orders : orders'[o].no = orders[o].no /\ orders'[o].key = orders[o].key
      /\ \A o \in DOMAIN orders \ {n} : events'[o] = events[o]
      /\ events'[n] = Append(events[n], new) /\ events[n] \in Seq(EventRows)
      /\ new \in EventRows
  BY TransitionWrites
<1>2. /\ Len(events'[n]) = b.ver + 1 /\ events'[n][b.ver + 1] = new
      /\ \A i \in 1 .. b.ver : events'[n][i] = events[n][i]
  <2> PICK old, row : old = events[n] /\ row = new
    OBVIOUS
  <2>1. /\ old \in Seq(EventRows) /\ row \in EventRows /\ Len(old) = b.ver
        /\ events'[n] = Append(old, row)
    BY <1>1
  <2>2. /\ Len(Append(old, row)) = b.ver + 1 /\ Append(old, row)[b.ver + 1] = row
        /\ \A i \in 1 .. b.ver : Append(old, row)[i] = old[i]
    <3> PICK len : len = b.ver
      OBVIOUS
    <3>1. Len(old) = len
      BY <2>1
    <3> HIDE DEF b
    <3> QED
      BY <2>1, <3>1
  <2> QED
    BY <2>1, <2>2
<1>3. b.ver >= 1
  <2>1. orders[n].ver = b.ver
    BY TransitionWrites
  <2> QED
    BY <1>1, <2>1, RowsOf DEF IInv, OrderRows
<1>4. new.key = tx[r].key
  OBVIOUS
<1> HIDE DEF new
<1>5. \A o \in DOMAIN orders \ {n} : {o} \X (1 .. Len(events'[o]) - 1)
                                       = {o} \X (1 .. Len(events[o]) - 1)
  BY <1>1
<1>6. {n} \X (1 .. Len(events'[n]) - 1) = {n} \X (1 .. Len(events[n]) - 1) \cup {last}
  BY <1>1, <1>2, <1>3
<1>7. \A m : m \in Moves' <=> \E o \in DOMAIN orders :
                                    m \in {o} \X (1 .. Len(events'[o]) - 1)
  BY <1>1 DEF Moves
<1>8. \A m : m \in Moves <=> \E o \in DOMAIN orders :
                                    m \in {o} \X (1 .. Len(events[o]) - 1)
  BY DEF Moves
<1> QED
  BY <1>1, <1>5, <1>6, <1>7, <1>8

LEMMA TransitionEffect ==
  ASSUME IInv, NEW r \in Requests, Transition(r), NEW k \in Keys
  PROVE  EffectsOf(k)' =
            IF k = tx[r].key
            THEN EffectsOf(k) \cup {[op |-> "moved", order |-> tx[r].body.order,
                                     ver |-> tx[r].body.ver + 1]}
            ELSE EffectsOf(k)
<1> DEFINE b == tx[r].body
           n == b.order
           new == [from |-> orders[n].st, to |-> b.target, key |-> tx[r].key]
           last == <<n, b.ver>>
<1>1. /\ n \in DOMAIN orders /\ b.ver \in Nat /\ Len(events[n]) = b.ver
      /\ DOMAIN orders' = DOMAIN orders
      /\ \A o \in DOMAIN orders : orders'[o].no = orders[o].no /\ orders'[o].key = orders[o].key
      /\ \A o \in DOMAIN orders \ {n} : events'[o] = events[o]
      /\ events'[n] = Append(events[n], new) /\ events[n] \in Seq(EventRows)
      /\ new \in EventRows
  BY TransitionWrites
<1>2. /\ Len(events'[n]) = b.ver + 1 /\ events'[n][b.ver + 1] = new
      /\ \A i \in 1 .. b.ver : events'[n][i] = events[n][i]
  <2> PICK old, row : old = events[n] /\ row = new
    OBVIOUS
  <2>1. /\ old \in Seq(EventRows) /\ row \in EventRows /\ Len(old) = b.ver
        /\ events'[n] = Append(old, row)
    BY <1>1
  <2>2. /\ Len(Append(old, row)) = b.ver + 1 /\ Append(old, row)[b.ver + 1] = row
        /\ \A i \in 1 .. b.ver : Append(old, row)[i] = old[i]
    <3> PICK len : len = b.ver
      OBVIOUS
    <3>1. Len(old) = len
      BY <2>1
    <3> HIDE DEF b
    <3> QED
      BY <2>1, <3>1
  <2> QED
    BY <2>1, <2>2
<1>3. b.ver >= 1
  <2>1. orders[n].ver = b.ver
    BY TransitionWrites
  <2> QED
    BY <1>1, <2>1, RowsOf DEF IInv, OrderRows
<1>4. new.key = tx[r].key
  OBVIOUS
<1> HIDE DEF new
<1>5. Moves' = Moves \cup {last}
  BY TransitionMoves
<1>6. \A m \in Moves : events'[m[1]][m[2] + 1] = events[m[1]][m[2] + 1]
  <2> SUFFICES ASSUME NEW o \in DOMAIN orders, NEW i \in 1 .. Len(events[o]) - 1
               PROVE  events'[o][i + 1] = events[o][i + 1]
    BY DEF Moves
  <2>1. events[o] \in Seq(EventRows)
    BY RowsOf DEF IInv
  <2>2. CASE o = n
    BY <1>1, <1>2, <2>2
  <2>3. CASE o # n
    BY <1>1, <2>3
  <2> QED
    BY <2>2, <2>3
<1>7. events'[last[1]][last[2] + 1].key = tx[r].key
  BY <1>2, <1>4
<1>8. {m \in Moves' : events'[m[1]][m[2] + 1].key = k}
      = IF k = tx[r].key THEN {m \in Moves : events[m[1]][m[2] + 1].key = k} \cup {last}
        ELSE {m \in Moves : events[m[1]][m[2] + 1].key = k}
  BY <1>5, <1>6, <1>7
<1>9. last[1] = n /\ last[2] = b.ver
  OBVIOUS
<1> HIDE DEF last
<1>10. {[op |-> "moved", order |-> m[1], ver |-> m[2] + 1] :
             m \in {m \in Moves : events[m[1]][m[2] + 1].key = k}}'
      = IF k = tx[r].key
        THEN {[op |-> "moved", order |-> m[1], ver |-> m[2] + 1] :
                 m \in {m \in Moves : events[m[1]][m[2] + 1].key = k}}
             \cup {[op |-> "moved", order |-> n, ver |-> b.ver + 1]}
        ELSE {[op |-> "moved", order |-> m[1], ver |-> m[2] + 1] :
                 m \in {m \in Moves : events[m[1]][m[2] + 1].key = k}}
  BY <1>8, <1>9
<1>11. {[op |-> "created", no |-> orders[o].no] :
             o \in {o \in DOMAIN orders : orders[o].key = k}}'
       = {[op |-> "created", no |-> orders[o].no] :
             o \in {o \in DOMAIN orders : orders[o].key = k}}
  BY <1>1
<1>12. ratings' = ratings
  BY DEF Transition
<1> QED
  BY <1>10, <1>11, <1>12 DEF EffectsOf

LEMMA RateEffect ==
  ASSUME IInv, NEW r \in Requests, Rate(r), NEW k \in Keys
  PROVE  EffectsOf(k)' = IF k = tx[r].key
                         THEN EffectsOf(k) \cup {[op |-> "rated", order |-> tx[r].body.order]}
                         ELSE EffectsOf(k)
<1> DEFINE y == [order |-> tx[r].body.order, key |-> tx[r].key]
<1>1. /\ UNCHANGED <<orders, events>> /\ ratings' = ratings \cup {y}
      /\ y.order = tx[r].body.order /\ y.key = tx[r].key
  BY DEF Rate
<1> HIDE DEF y
<1>2. {[op |-> "rated", order |-> x.order] : x \in {x \in ratings : x.key = k}}'
      = IF k = tx[r].key
        THEN {[op |-> "rated", order |-> x.order] : x \in {x \in ratings : x.key = k}}
             \cup {[op |-> "rated", order |-> tx[r].body.order]}
        ELSE {[op |-> "rated", order |-> x.order] : x \in {x \in ratings : x.key = k}}
  BY <1>1
<1> QED
  BY <1>1, <1>2 DEF EffectsOf, Moves

(* What a commit of a locked request leaves to the others.                 *)
LEMMA OthersRely ==
  ASSUME IInv, NEW r \in Requests, tx[r].at = "locked",
         tx' = [tx EXCEPT ![r] = Idle],
         \A k \in Keys : k # tx[r].key => records'[k] = records[k],
         DOMAIN orders' = DOMAIN orders, Len(orders') = Len(orders),
         \A o \in DOMAIN orders : o # tx[r].body.order => orders'[o] = orders[o],
         \A x \in ratings' : x \in ratings \/ x.order = tx[r].body.order
  PROVE  Relies'
<1>1. /\ \A q \in Requests : tx'[q] = IF q = r THEN Idle ELSE tx[q]
      /\ Idle.at = "idle"
  BY DEF IInv, TypeOK, Idle
<1> SUFFICES ASSUME NEW s \in Requests
             PROVE  (OwnRecord(s) /\ OfOrder(s) /\ NextNumber(s) /\ CheckStands(s))'
  BY DEF Relies
<1>2. /\ OwnRecord(s) /\ OfOrder(s) /\ NextNumber(s) /\ CheckStands(s)
      /\ OwnRecord(r) /\ CheckStands(r)
  BY DEF IInv, Relies
<1>3. s # r /\ tx[s].at # "idle" => tx[s].key \in Keys
  BY TxOf DEF IInv
<1>4. OwnRecord(s)'
  BY <1>1, <1>2, <1>3 DEF OwnRecord
<1>5. OfOrder(s)'
  BY <1>1, <1>2 DEF OfOrder
<1>6. NextNumber(s)'
  BY <1>1, <1>2 DEF NextNumber
<1>7. CheckStands(s)'
  <2> SUFFICES ASSUME tx'[s].at = "locked" PROVE CheckStands(s)'
    BY DEF CheckStands
  <2>1. s # r /\ tx'[s] = tx[s] /\ tx[s].at = "locked"
    BY <1>1
  <2>2. tx[s].body.order \in DOMAIN orders /\ tx[s].body.order # tx[r].body.order
    BY <1>2, <2>1 DEF OfOrder, CheckStands
  <2>3. Allowed(tx[s].body)'
    BY <1>2, <2>1, <2>2 DEF CheckStands, Allowed, MayMove, MayRate
  <2>5. orders'[tx[s].body.order].ver <= MaxWork
    BY <1>2, <2>1, <2>2 DEF CheckStands
  <2>4. \A q \in Requests \ {s} :
           tx'[q].at = "locked" => tx[q].at = "locked" /\ tx'[q] = tx[q]
    BY <1>1
  <2> QED
    BY <1>2, <2>1, <2>3, <2>4, <2>5 DEF CheckStands
<1> QED
  BY <1>4, <1>5, <1>6, <1>7

LEMMA TransitionKeeps ==
  ASSUME IInv, NEW r \in Requests, Transition(r)
  PROVE  IInv'
<1> DEFINE b == tx[r].body
           n == b.order
           new == [from |-> orders[n].st, to |-> b.target, key |-> tx[r].key]
           e == [op |-> "moved", order |-> n, ver |-> b.ver + 1]
<1>1. /\ tx[r].at = "locked" /\ b.op = "move" /\ tx[r].key \in Keys
      /\ n \in DOMAIN orders /\ n \in Nat /\ b.target \in States
      /\ b.ver \in Nat /\ orders[n].ver = b.ver /\ Len(events[n]) = b.ver
      /\ <<orders[n].st, b.target>> \in Legal
      /\ orders' \in Seq(OrderRows) /\ DOMAIN orders' = DOMAIN orders
      /\ Len(orders') = Len(orders)
      /\ \A o \in DOMAIN orders : orders'[o].no = orders[o].no /\ orders'[o].key = orders[o].key
      /\ orders'[n].st = b.target /\ orders'[n].ver = b.ver + 1
      /\ \A o \in DOMAIN orders \ {n} : orders'[o] = orders[o] /\ events'[o] = events[o]
      /\ events' \in Seq(Seq(EventRows)) /\ Len(events') = Len(orders)
      /\ events'[n] = Append(events[n], new)
      /\ events[n] \in Seq(EventRows) /\ new \in EventRows
  BY TransitionWrites
<1>2. e \in Effects /\ Answered(r, e) /\ ratings' = ratings
  <2>1. n \in 1 .. MaxWork /\ b.ver + 1 \in 2 .. MaxWork + 1
    BY TransitionWrites
  <2>2. e \in Effects
    BY <2>1 DEF Effects
  <2>3. Answered(r, e) /\ ratings' = ratings
    BY DEF Transition
  <2> QED
    BY <2>2, <2>3
<1>3. \A k \in Keys : EffectsOf(k)' = IF k = tx[r].key THEN EffectsOf(k) \cup {e}
                                      ELSE EffectsOf(k)
  BY TransitionEffect
<1>4. /\ new.from = orders[n].st /\ new.to = b.target
  OBVIOUS
<1> HIDE DEF e, new
<1>5. /\ RecordTells'
      /\ DOMAIN records' = Keys
      /\ \A k \in Keys : records'[k] # None => records'[k].effect \in Effects
      /\ \A k \in Keys : k # tx[r].key => records'[k] = records[k]
      /\ tx' = [tx EXCEPT ![r] = Idle] /\ tx' \in [Requests -> Transactions]
      /\ told' \subseteq Keys \X Effects
  BY <1>1, <1>2, <1>3, AnsweredTells
<1>6. TypeOK'
  BY <1>1, <1>2, <1>5 DEF IInv, TypeOK
<1>7. Relies'
  BY <1>1, <1>2, <1>5, OthersRely
<1>8. NumbersInOrder'
  BY <1>1 DEF IInv, NumbersInOrder
<1>9. TimelineFits'
  <2> SUFFICES ASSUME NEW o \in DOMAIN orders
               PROVE  /\ Len(events'[o]) = orders'[o].ver
                      /\ events'[o][orders'[o].ver].to = orders'[o].st
                      /\ \A i \in 2 .. Len(events'[o]) :
                            /\ events'[o][i].from = events'[o][i - 1].to
                            /\ <<events'[o][i].from, events'[o][i].to>> \in Legal
    BY <1>1 DEF TimelineFits
  <2>1. CASE o = n
    <3>0. b.ver \in Nat
      BY <1>1
    <3>1. /\ Len(events'[n]) = b.ver + 1 /\ events'[n][b.ver + 1] = new
          /\ \A i \in 1 .. b.ver : events'[n][i] = events[n][i]
      <4>1. /\ events'[n] = Append(events[n], new) /\ events[n] \in Seq(EventRows)
            /\ Len(events[n]) = b.ver
        BY <1>1
      <4> QED
        BY <4>1
    <3>2. /\ events[n][b.ver].to = orders[n].st
          /\ \A i \in 2 .. b.ver :
                /\ events[n][i].from = events[n][i - 1].to
                /\ <<events[n][i].from, events[n][i].to>> \in Legal
      BY <1>1 DEF IInv, TimelineFits
    <3>3. b.ver >= 1
      <4>1. n \in DOMAIN orders /\ orders[n].ver = b.ver
        BY <1>1
      <4> QED
        BY <3>0, <4>1, RowsOf DEF IInv, OrderRows
    <3>4. ASSUME NEW i \in 2 .. b.ver + 1
          PROVE  /\ events'[n][i].from = events'[n][i - 1].to
                 /\ <<events'[n][i].from, events'[n][i].to>> \in Legal
      <4>1. CASE i = b.ver + 1
        <5>1. i - 1 = b.ver /\ events'[n][i] = new
          BY <3>0, <3>1, <4>1
        <5>2. events'[n][i - 1] = events[n][b.ver]
          <6>1. b.ver \in 1 .. b.ver
            BY <3>0, <3>3
          <6> QED
            BY <3>1, <5>1, <6>1
        <5> QED
          BY <1>1, <1>4, <3>2, <5>1, <5>2
      <4>2. CASE i \in 2 .. b.ver
        <5>1. i - 1 \in 1 .. b.ver /\ i \in 1 .. b.ver
          BY <3>0, <4>2
        <5> QED
          BY <3>1, <3>2, <4>2, <5>1
      <4> QED
        BY <3>0, <4>1, <4>2
    <3>5. orders'[n].ver = b.ver + 1 /\ orders'[n].st = b.target
      BY <1>1
    <3> QED
      BY <1>4, <2>1, <3>1, <3>4, <3>5
  <2>2. CASE o # n
    <3>1. orders'[o] = orders[o] /\ events'[o] = events[o]
      BY <1>1, <2>2
    <3>2. /\ Len(events[o]) = orders[o].ver
          /\ events[o][orders[o].ver].to = orders[o].st
          /\ \A i \in 2 .. Len(events[o]) :
                /\ events[o][i].from = events[o][i - 1].to
                /\ <<events[o][i].from, events[o][i].to>> \in Legal
      BY DEF IInv, TimelineFits
    <3> QED
      BY <3>1, <3>2
  <2> QED
    BY <2>1, <2>2
<1>10. RatedOnce'
  <2>1. orders[n].st # "completed"
    BY <1>1 DEF Legal
  <2>2. \A x \in ratings : x.order \in DOMAIN orders /\ x.order # n
    BY <2>1 DEF IInv, TypeOK, RatedOnce
  <2> QED
    BY <1>1, <1>2, <2>2 DEF IInv, RatedOnce
<1>11. Counted'
  <2>1. IsFiniteSet(Moves')
    <3> PICK last : last = <<n, b.ver>>
      OBVIOUS
    <3>1. Moves' = Moves \cup {last}
      BY TransitionMoves
    <3>2. IsFiniteSet(Moves)
      BY DEF IInv, Counted
    <3> QED
      BY <3>1, <3>2, FS_AddElement
  <2> QED
    BY <1>2, <2>1 DEF IInv, Counted
<1> QED
  BY <1>5, <1>6, <1>7, <1>8, <1>9, <1>10, <1>11 DEF IInv

LEMMA RateKeeps ==
  ASSUME IInv, NEW r \in Requests, Rate(r)
  PROVE  IInv'
<1> DEFINE n == tx[r].body.order
           y == [order |-> n, key |-> tx[r].key]
           e == [op |-> "rated", order |-> n]
<1>1. /\ tx[r].at = "locked" /\ tx[r].key \in Keys
      /\ n \in DOMAIN orders /\ MayRate(n) /\ tx[r].body.op = "rate"
  BY TxOf DEF Rate, IInv, Relies, OfOrder, CheckStands, Allowed
<1>2. n \in 1 .. MaxWork
  BY <1>1, WorkOrdersAssumption DEF IInv, TypeOK
<1>3. /\ e \in Effects /\ Answered(r, e) /\ UNCHANGED <<orders, events>>
      /\ ratings' = ratings \cup {y}
  BY <1>2 DEF Effects, Rate
<1>4. \A k \in Keys : EffectsOf(k)' = IF k = tx[r].key THEN EffectsOf(k) \cup {e}
                                      ELSE EffectsOf(k)
  BY RateEffect
<1>5. y.order = n /\ y \in [order : DOMAIN orders, key : Keys]
  BY <1>1
<1> HIDE DEF e, y
<1>6. /\ RecordTells'
      /\ DOMAIN records' = Keys
      /\ \A k \in Keys : records'[k] # None => records'[k].effect \in Effects
      /\ \A k \in Keys : k # tx[r].key => records'[k] = records[k]
      /\ tx' = [tx EXCEPT ![r] = Idle] /\ tx' \in [Requests -> Transactions]
      /\ told' \subseteq Keys \X Effects
  BY <1>1, <1>3, <1>4, AnsweredTells
<1>7. TypeOK'
  BY <1>3, <1>5, <1>6 DEF IInv, TypeOK
<1>8. Relies'
  BY <1>1, <1>3, <1>5, <1>6, OthersRely
<1>9. NumbersInOrder' /\ TimelineFits'
  BY <1>3 DEF IInv, NumbersInOrder, TimelineFits
<1>10. RatedOnce'
  BY <1>1, <1>3, <1>5 DEF IInv, RatedOnce, MayRate
<1>11. Counted'
  BY <1>3, FS_AddElement DEF IInv, Counted, Moves
<1> QED
  BY <1>6, <1>7, <1>8, <1>9, <1>10, <1>11 DEF IInv

LEMMA ReplayKeeps ==
  ASSUME IInv, NEW k \in Keys, Replay(k)
  PROVE  IInv'
<1>1. records[k].effect \in Effects
  BY DEF Replay, IInv, TypeOK
<1>2. UNCHANGED <<orders, events, ratings, records, tx>>
  BY DEF Replay
<1>3. TypeOK'
  BY <1>1, <1>2 DEF Replay, IInv, TypeOK
<1>4. Relies'
  BY <1>2 DEF IInv, Relies, OwnRecord, OfOrder, NextNumber, CheckStands, Allowed,
              MayMove, MayRate
<1> QED
  BY <1>2, <1>3, <1>4, StoredKeeps DEF IInv

LEMMA InitIInv == Init => IInv
<1> SUFFICES ASSUME Init PROVE IInv
  OBVIOUS
<1>1. /\ orders = <<>> /\ events = <<>> /\ ratings = {} /\ told = {}
      /\ \A k \in Keys : records[k] = None
      /\ DOMAIN records = Keys
      /\ tx = [r \in Requests |-> Idle]
  BY DEF Init
<1>2. orders \in Seq(OrderRows) /\ events \in Seq(Seq(EventRows)) /\ DOMAIN orders = {}
  BY <1>1
<1>3. TypeOK
  BY <1>1, <1>2, WorkOrdersAssumption DEF TypeOK, Transactions
<1>4. Relies
  BY <1>1 DEF Relies, OwnRecord, OfOrder, NextNumber, CheckStands, Idle
<1>5. \A k \in Keys : EffectsOf(k) = {}
  <2>1. Moves = {}
    BY <1>2 DEF Moves
  <2> QED
    BY <1>1, <1>2, <2>1 DEF EffectsOf
<1>6. RecordTells
  BY <1>1, <1>5 DEF RecordTells
<1>7. NumbersInOrder /\ TimelineFits /\ RatedOnce
  BY <1>1, <1>2 DEF NumbersInOrder, TimelineFits, RatedOnce
<1>8. Counted
  <2>1. Moves = {}
    BY <1>2 DEF Moves
  <2> QED
    BY <1>1, <2>1, FS_EmptySet DEF Counted
<1> QED
  BY <1>3, <1>4, <1>6, <1>7, <1>8 DEF IInv

LEMMA NextIInv == IInv /\ [Next]_vars => IInv'
<1> SUFFICES ASSUME IInv, [Next]_vars PROVE IInv'
  OBVIOUS
<1>1. CASE Next
  <2>1. CASE \E r \in Requests, k \in Keys, body \in Bodies : Begin(r, k, body)
    BY <2>1, BeginKeeps
  <2>2. CASE \E r \in Requests : Abort(r)
    BY <2>2, AbortKeeps
  <2>3. CASE \E r \in Requests : AllocateNo(r)
    BY <2>3, AllocateKeeps
  <2>4. CASE \E r \in Requests : Create(r)
    BY <2>4, CreateKeeps
  <2>5. CASE \E r \in Requests : Lock(r)
    BY <2>5, LockKeeps
  <2>6. CASE \E r \in Requests : Transition(r)
    BY <2>6, TransitionKeeps
  <2>7. CASE \E r \in Requests : Rate(r)
    BY <2>7, RateKeeps
  <2>8. CASE \E k \in Keys : Replay(k)
    BY <2>8, ReplayKeeps
  <2> QED
    BY <1>1, <2>1, <2>2, <2>3, <2>4, <2>5, <2>6, <2>7, <2>8 DEF Next
<1>2. CASE UNCHANGED vars
  <2>1. /\ UNCHANGED <<orders, events, ratings, records>>
        /\ tx' = tx /\ told' = told
    BY <1>2 DEF vars
  <2>2. TypeOK'
    BY <2>1 DEF IInv, TypeOK
  <2>3. Relies'
    BY <2>1 DEF IInv, Relies, OwnRecord, OfOrder, NextNumber, CheckStands, Allowed,
                MayMove, MayRate
  <2> QED
    BY <2>1, <2>2, <2>3, StoredKeeps DEF IInv
<1> QED
  BY <1>1, <1>2

-----------------------------------------------------------------------------
(* The theorems *)

LEMMA Invariance == Spec => []IInv
BY InitIInv, NextIInv, PTL DEF Spec

(* Orders, timelines, ratings, records and transactions hold what their    *)
(* columns and constraints admit.                                          *)
THEOREM TypeCorrect == Spec => []TypeOK
<1>1. IInv => TypeOK
  BY DEF IInv
<1> QED
  BY <1>1, Invariance, PTL

(* The numbers of a day are distinct, without gap and in the order of the  *)
(* submissions, for any number of concurrent requests.                     *)
THEOREM NumbersAreInOrder == Spec => []NumbersInOrder
<1>1. IInv => NumbersInOrder
  BY DEF IInv
<1> QED
  BY <1>1, Invariance, PTL

(* The timeline of every order is its history.                             *)
THEOREM TimelinesFit == Spec => []TimelineFits
<1>1. IInv => TimelineFits
  BY DEF IInv
<1> QED
  BY <1>1, Invariance, PTL

(* An order is rated once, after its completion.                           *)
THEOREM OrdersRatedOnce == Spec => []RatedOnce
<1>1. IInv => RatedOnce
  BY DEF IInv
<1> QED
  BY <1>1, Invariance, PTL

-----------------------------------------------------------------------------
(* The refinement: what the requests have done, by key, is KeyedOnce. *)

Done == [k \in Keys |-> EffectsOf(k)]

LEMMA InitPromises == Init => Promise!Init
<1> SUFFICES ASSUME Init PROVE Promise!Init
  OBVIOUS
<1>1. \A k \in Keys : EffectsOf(k) = {}
  BY InitIInv DEF IInv, RecordTells, Init
<1> QED
  BY <1>1 DEF Init, Promise!Init

(* A commit is the one effect of its key, told or not.                     *)
LEMMA AnsweredPromises ==
  ASSUME IInv, NEW r \in Requests, NEW e \in Effects, tx[r].at # "idle", Answered(r, e),
         \A k \in Keys : EffectsOf(k)' = IF k = tx[r].key THEN EffectsOf(k) \cup {e}
                                         ELSE EffectsOf(k)
  PROVE  Promise!Next
<1> DEFINE key == tx[r].key
<1>1. key \in Keys /\ EffectsOf(key) = {}
  BY TxOf DEF IInv, Relies, OwnRecord, RecordTells
<1>2. Done' = [Done EXCEPT ![key] = {e}]
  BY <1>1 DEF Done
<1>3. told' \in {told, told \cup {<<key, e>>}}
  BY DEF Answered
<1>4. Promise!Do(key, e)
  BY <1>1, <1>2, <1>3 DEF Promise!Do, Done
<1> QED
  BY <1>1, <1>4 DEF Promise!Next

LEMMA NextPromises == IInv /\ [Next]_vars => [Promise!Next]_(Promise!vars)
<1> SUFFICES ASSUME IInv, [Next]_vars
             PROVE  Promise!Next \/ (Done' = Done /\ told' = told)
  BY DEF Promise!vars, Done
<1>1. ASSUME UNCHANGED <<orders, events, ratings>> PROVE Done' = Done
  BY <1>1 DEF Done, EffectsOf, Moves
<1>2. CASE \E r \in Requests :
              \/ \E k \in Keys, body \in Bodies : Begin(r, k, body)
              \/ Abort(r) \/ AllocateNo(r) \/ Lock(r)
  <2>1. UNCHANGED <<orders, events, ratings, told>>
    BY <1>2 DEF Begin, Abort, AllocateNo, Lock
  <2> QED
    BY <1>1, <2>1
<1>3. CASE \E r \in Requests : Create(r)
  <2> PICK r \in Requests : Create(r)
    BY <1>3
  <2>1. /\ [op |-> "created", no |-> tx[r].no] \in Effects
        /\ Answered(r, [op |-> "created", no |-> tx[r].no]) /\ tx[r].at # "idle"
    BY CreateWrites DEF Effects, Create
  <2> QED
    BY <2>1, CreateEffect, AnsweredPromises
<1>4. CASE \E r \in Requests : Transition(r)
  <2> PICK r \in Requests : Transition(r)
    BY <1>4
  <2> DEFINE e == [op |-> "moved", order |-> tx[r].body.order, ver |-> tx[r].body.ver + 1]
  <2>1. /\ tx[r].body.order \in 1 .. MaxWork /\ tx[r].at # "idle"
        /\ tx[r].body.ver + 1 \in 2 .. MaxWork + 1
    BY TransitionWrites
  <2>2. e \in Effects /\ Answered(r, e)
    <3>1. e \in Effects
      BY <2>1 DEF Effects
    <3>2. Answered(r, e)
      BY DEF Transition
    <3> QED
      BY <3>1, <3>2
  <2>3. \A k \in Keys : EffectsOf(k)' = IF k = tx[r].key THEN EffectsOf(k) \cup {e}
                                        ELSE EffectsOf(k)
    BY TransitionEffect
  <2> HIDE DEF e
  <2> QED
    BY <2>1, <2>2, <2>3, AnsweredPromises
<1>5. CASE \E r \in Requests : Rate(r)
  <2> PICK r \in Requests : Rate(r)
    BY <1>5
  <2> DEFINE e == [op |-> "rated", order |-> tx[r].body.order]
  <2>1. tx[r].body.order \in DOMAIN orders /\ tx[r].at # "idle"
    BY DEF Rate, IInv, Relies, OfOrder
  <2>2. e \in Effects /\ Answered(r, e)
    <3>1. tx[r].body.order \in 1 .. MaxWork
      BY <2>1, WorkOrdersAssumption DEF IInv, TypeOK
    <3> QED
      BY <3>1 DEF Effects, Rate
  <2>3. \A k \in Keys : EffectsOf(k)' = IF k = tx[r].key THEN EffectsOf(k) \cup {e}
                                        ELSE EffectsOf(k)
    BY RateEffect
  <2> HIDE DEF e
  <2> QED
    BY <2>1, <2>2, <2>3, AnsweredPromises
<1>6. CASE \E k \in Keys : Replay(k)
  <2> PICK k \in Keys : Replay(k)
    BY <1>6
  <2>1. /\ records[k] # None /\ told' = told \cup {<<k, records[k].effect>>}
        /\ UNCHANGED <<orders, events, ratings>>
    BY DEF Replay
  <2>2. records[k].effect \in EffectsOf(k) /\ Done' = Done
    BY <1>1, <2>1 DEF IInv, RecordTells
  <2>3. Promise!Tell(k)
    BY <2>1, <2>2 DEF Promise!Tell, Done
  <2> QED
    BY <2>3 DEF Promise!Next
<1>7. CASE UNCHANGED vars
  <2>1. UNCHANGED <<orders, events, ratings, told>>
    BY <1>7 DEF vars
  <2> QED
    BY <1>1, <2>1
<1> QED
  BY <1>2, <1>3, <1>4, <1>5, <1>6, <1>7 DEF Next

(* Every key has at most one effect, for ever, and every answer tells of   *)
(* it: the requests implement the promise of the idempotency key.          *)
THEOREM KeysKeepTheirPromise == Spec => EachKeyOnce
BY InitPromises, NextPromises, Invariance, PTL DEF Spec, EachKeyOnce, Promise!Spec
=============================================================================
