------------------------------ MODULE WorkOrders ------------------------------
(***************************************************************************)
(* Repair work orders: their public numbers, their life from submission to *)
(* completion with one event per step, their rating, and the idempotency   *)
(* record every request begins with.                                       *)
(*                                                                         *)
(* A request is one transaction.  What it has inserted is seen by others   *)
(* when it commits, but its locks are felt before: the unique key of its   *)
(* idempotency record, the advisory lock of the day's numbers, the row of  *)
(* the order.  Clients send a request again when they get no answer.       *)
(***************************************************************************)
EXTENDS Integers, Sequences, FiniteSets

CONSTANTS
    Keys,       \* idempotency keys
    Requests,   \* requests in flight
    MaxNo,      \* numbers of a day (code: 9999)
    MaxWork     \* bound: orders, transitions and ratings

ASSUME WorkOrdersAssumption == {MaxNo, MaxWork} \subseteq Nat

VARIABLES
    orders,   \* orders: no, st, ver, assigned, key (of the request)
    events,   \* events[o]: the timeline of order o: from, to, key
    ratings,  \* ratings: order, key
    records,  \* records[k]: the committed idempotency record of key k
    tx,       \* tx[r]: the transaction of request r
    told      \* the successful answers that reached a client

vars == <<orders, events, ratings, records, tx, told>>

Idle == [at |-> "idle"]
None == [op |-> "none"]
States == {"submitted", "accepted", "rejected", "cancelled", "processing", "completed"}

(* The transitions of the state machine.                                   *)
Legal == { <<"submitted", "accepted">>, <<"submitted", "rejected">>,
           <<"submitted", "cancelled">>, <<"accepted", "processing">>,
           <<"processing", "completed">> }

Init ==
    /\ orders = <<>> /\ events = <<>> /\ ratings = {}
    /\ records = [k \in Keys |-> None]
    /\ tx = [r \in Requests |-> Idle]
    /\ told = {}

Moves == UNION {{o} \X (1 .. Len(events[o]) - 1) : o \in DOMAIN orders}
MayWork == Len(orders) + Cardinality(ratings) + Cardinality(Moves) < MaxWork

(* A submission comes from the form or from the agent's work-order tool,   *)
(* which names a room or a place.  The tool shows an approval that must    *)
(* have been verified, and stays inside the transaction of its call; the   *)
(* room must be one of the user's with an account, the campus one in use.  *)
Submissions == [by : {"form", "room", "place"}, approved : BOOLEAN,
                rooms : SUBSET {"own", "account"}, campus : {"in use", "unknown"}]
FromForm(s) == s.by = "form"
RoomIsOwn(s) == s.rooms = {"own", "account"}
FromRoom(s) == s.by = "room" /\ s.approved /\ RoomIsOwn(s)
CampusResolved(s) == s.campus = "in use"
FromPlace(s) == s.by = "place" /\ s.approved /\ CampusResolved(s)
MaySubmit(s) == FromForm(s) \/ FromRoom(s) \/ FromPlace(s)

(* What a client may send about the orders as it sees them, and as one who *)
(* may: the owner, or for all but a cancellation staff of the dormitory.   *)
(* Wherever it comes from, a submission is the same request to the record. *)
Bodies ==
    {[op |-> "create"] : s \in {s \in Submissions : MaySubmit(s)}}
    \cup {[op |-> "move", order |-> m[1], target |-> m[2], ver |-> orders[m[1]].ver] :
             m \in {m \in (DOMAIN orders) \X States : <<orders[m[1]].st, m[2]>> \in Legal}}
    \cup {[op |-> "rate", order |-> o] : o \in DOMAIN orders}

-----------------------------------------------------------------------------
(* The idempotency record. *)

Holds(r, k) == tx[r].at # "idle" /\ tx[r].key = k

(* Mutant: no unique constraint makes the second insertion wait.           *)
BeginUnguarded(r, k, body) ==
    /\ tx[r].at = "idle" /\ records[k] = None
    /\ tx' = [tx EXCEPT ![r] = [at |-> "begun", key |-> k, body |-> body]]
    /\ UNCHANGED <<orders, events, ratings, records, told>>

(* The record is inserted; another one under the same key is waited for.   *)
Begin(r, k, body) ==
    /\ tx[r].at = "idle" /\ records[k] = None
    /\ \A q \in Requests : ~Holds(q, k)
    /\ tx' = [tx EXCEPT ![r] = [at |-> "begun", key |-> k, body |-> body]]
    /\ UNCHANGED <<orders, events, ratings, records, told>>

(* A completed record answers for its request, sent again; a different body *)
(* is refused and changes nothing.                                         *)
Replay(k) ==
    /\ records[k] # None
    /\ told' = told \cup {<<k, records[k].effect>>}
    /\ UNCHANGED <<orders, events, ratings, records, tx>>

(* The record is completed and the transaction commits; the answer may be  *)
(* lost on the way.                                                        *)
Answered(r, effect) ==
    /\ records' = [records EXCEPT ![tx[r].key] =
                      [op |-> "done", body |-> tx[r].body, effect |-> effect]]
    /\ told' \in {told, told \cup {<<tx[r].key, effect>>}}
    /\ tx' = [tx EXCEPT ![r] = Idle]

(* A refused request, an error or a process that stops: nothing remains,   *)
(* the record included.                                                    *)
Abort(r) ==
    /\ tx[r].at # "idle"
    /\ tx' = [tx EXCEPT ![r] = Idle]
    /\ UNCHANGED <<orders, events, ratings, records, told>>

-----------------------------------------------------------------------------
(* Submission. *)

Numbers == {orders[o].no : o \in DOMAIN orders}
Latest == IF orders = <<>> THEN 0 ELSE CHOOSE n \in Numbers : \A m \in Numbers : m <= n

(* Mutant: the number is read without the lock.                            *)
AllocateUnlocked(r) ==
    /\ tx[r].at = "begun" /\ tx[r].body.op = "create" /\ MayWork
    /\ Latest < MaxNo
    /\ tx' = [tx EXCEPT ![r] = [at |-> "numbered", key |-> tx[r].key, body |-> tx[r].body,
                                no |-> Latest + 1]]
    /\ UNCHANGED <<orders, events, ratings, records, told>>

(* The largest number in the table and one more, under a lock that is held *)
(* until the transaction ends.                                             *)
AllocateNo(r) ==
    /\ tx[r].at = "begun" /\ tx[r].body.op = "create" /\ MayWork
    /\ \A q \in Requests : tx[q].at # "numbered"
    /\ Latest < MaxNo
    /\ tx' = [tx EXCEPT ![r] = [at |-> "numbered", key |-> tx[r].key, body |-> tx[r].body,
                                no |-> Latest + 1]]
    /\ UNCHANGED <<orders, events, ratings, records, told>>

Create(r) ==
    /\ tx[r].at = "numbered"
    /\ orders' = Append(orders, [no |-> tx[r].no, st |-> "submitted", ver |-> 1,
                                 assigned |-> FALSE, key |-> tx[r].key])
    /\ events' = Append(events, <<[from |-> "none", to |-> "submitted", key |-> tx[r].key]>>)
    /\ Answered(r, [op |-> "created", no |-> tx[r].no])
    /\ UNCHANGED ratings

-----------------------------------------------------------------------------
(* Transitions and the rating. *)

RowFree(o) == \A q \in Requests : tx[q].at = "locked" => tx[q].body.order # o

MayMove(body) ==
    LET order == orders[body.order] IN
    /\ order.ver = body.ver
    /\ <<order.st, body.target>> \in Legal

MayRate(o) == orders[o].st = "completed" /\ \A x \in ratings : x.order # o

Allowed(body) == IF body.op = "move" THEN MayMove(body) ELSE MayRate(body.order)

(* Mutant: the order is read without FOR UPDATE.                           *)
LockNothing(r) ==
    /\ tx[r].at = "begun" /\ tx[r].body.op # "create" /\ MayWork
    /\ Allowed(tx[r].body)
    /\ tx' = [tx EXCEPT ![r].at = "locked"]
    /\ UNCHANGED <<orders, events, ratings, records, told>>

(* The row is locked, read and checked: version, state, rating.            *)
Lock(r) ==
    /\ tx[r].at = "begun" /\ tx[r].body.op # "create" /\ MayWork
    /\ RowFree(tx[r].body.order) /\ Allowed(tx[r].body)
    /\ tx' = [tx EXCEPT ![r].at = "locked"]
    /\ UNCHANGED <<orders, events, ratings, records, told>>

(* The status and the version the transaction has read are written back.   *)
Transition(r) ==
    LET body == tx[r].body IN
    /\ tx[r].at = "locked" /\ body.op = "move"
    /\ orders' = [orders EXCEPT
          ![body.order].st = body.target, ![body.order].ver = body.ver + 1,
          ![body.order].assigned = @ \/ body.target = "accepted"]
    /\ events' = [events EXCEPT ![body.order] =
          Append(@, [from |-> orders[body.order].st, to |-> body.target,
                     key |-> tx[r].key])]
    /\ Answered(r, [op |-> "moved", order |-> body.order, ver |-> body.ver + 1])
    /\ UNCHANGED ratings

Rate(r) ==
    /\ tx[r].at = "locked" /\ tx[r].body.op = "rate"
    /\ ratings' = ratings \cup {[order |-> tx[r].body.order, key |-> tx[r].key]}
    /\ Answered(r, [op |-> "rated", order |-> tx[r].body.order])
    /\ UNCHANGED <<orders, events>>

Next ==
    \/ \E r \in Requests :
          \/ \E k \in Keys, body \in Bodies : Begin(r, k, body)
          \/ Abort(r) \/ AllocateNo(r) \/ Create(r) \/ Lock(r) \/ Transition(r) \/ Rate(r)
    \/ \E k \in Keys : Replay(k)

Spec == Init /\ [][Next]_vars

-----------------------------------------------------------------------------
(* Properties. *)

Effects ==
    [op : {"created"}, no : 1 .. MaxNo]
    \cup [op : {"moved"}, order : 1 .. MaxWork, ver : 2 .. MaxWork + 1]
    \cup [op : {"rated"}, order : 1 .. MaxWork]

EffectsOf(k) ==
    {[op |-> "created", no |-> orders[o].no] : o \in {o \in DOMAIN orders : orders[o].key = k}}
    \cup {[op |-> "moved", order |-> m[1], ver |-> m[2] + 1] :
             m \in {m \in Moves : events[m[1]][m[2] + 1].key = k}}
    \cup {[op |-> "rated", order |-> x.order] : x \in {x \in ratings : x.key = k}}

Promise == INSTANCE KeyedOnce WITH done <- [k \in Keys |-> EffectsOf(k)]

(* Idempotency keys keep their promise: one effect per key for ever, and   *)
(* every answer, replayed or not, tells of it, whatever was retried,       *)
(* refused or lost (idempotency.py).                                       *)
EachKeyOnce == Promise!Spec

OrderRows == [no : 1 .. MaxNo, st : States, ver : 1 .. MaxWork + 1,
              assigned : BOOLEAN, key : Keys]
EventRows == [from : States \cup {"none"}, to : States, key : Keys]
Sent == [op : {"create"}] \cup [op : {"move"}, order : Nat, target : States, ver : Nat]
        \cup [op : {"rate"}, order : Nat]
Transactions ==
    {Idle} \cup [at : {"begun", "locked"}, key : Keys, body : Sent]
    \cup [at : {"numbered"}, key : Keys, body : Sent, no : 1 .. MaxNo]

TypeOK ==
    /\ orders \in Seq(OrderRows) /\ Len(orders) <= MaxWork
    /\ events \in Seq(Seq(EventRows)) /\ Len(events) = Len(orders)
    /\ ratings \subseteq [order : DOMAIN orders, key : Keys]
    /\ DOMAIN records = Keys
    /\ \A k \in Keys : records[k] # None => records[k].effect \in Effects
    /\ tx \in [Requests -> Transactions]
    /\ told \subseteq Keys \X Effects

(* The public numbers of a day are distinct and without gap, in the order  *)
(* of the submissions, although a number is only taken at the commit.      *)
NumbersInOrder == \A o \in DOMAIN orders : orders[o].no = o

(* The timeline of an order is its history: a chain of legal transitions   *)
(* from its submission to its present state, one event per version.        *)
TimelineFits ==
    \A o \in DOMAIN orders :
        /\ Len(events[o]) = orders[o].ver
        /\ events[o][orders[o].ver].to = orders[o].st
        /\ \A i \in 2 .. Len(events[o]) :
              /\ events[o][i].from = events[o][i - 1].to
              /\ <<events[o][i].from, events[o][i].to>> \in Legal

(* An order is rated once, and only one that was completed and stays so.   *)
RatedOnce ==
    /\ \A x \in ratings : orders[x.order].st = "completed"
    /\ \A x, y \in ratings : x.order = y.order => x = y
=============================================================================
