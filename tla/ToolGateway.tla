------------------------------ MODULE ToolGateway ------------------------------
(***************************************************************************)
(* The internal tool route (InternalToolService.invoke()) with the tool    *)
(* executor behind it, the approvals it asks for and the one tool that     *)
(* moves money, the electricity top-up.  All runs are of one user and all  *)
(* top-ups of one room, whose account the first call may have to create.   *)
(*                                                                         *)
(* A call is one transaction.  It holds the row of its run, so calls of    *)
(* one run follow each other; calls of two runs interleave: each reads the *)
(* account without a lock (Start), looks for a top-up with its key (Look)  *)
(* and commits.  Whatever fails on the way rolls everything back.  A call  *)
(* that is only answered (a replay, a conflict, a refusal) changes nothing *)
(* and is not modelled.  The runtime's own use of an approval is the       *)
(* subject of AgentRuntime.                                                *)
(***************************************************************************)
EXTENDS Integers, FiniteSets

CONSTANTS Runs,
          Keys,      \* idempotency keys of the callers
          Amounts,
          Simulated, \* the balance an account is created with
          MaxWork    \* bound on the calls begun
ASSUME AmountsAssumption ==
    /\ Amounts \subseteq Nat \ {0}
    /\ Simulated \in Nat
    /\ IsFiniteSet(Keys)

VARIABLES run,      \* run[r]: "running", "awaiting_approval" or "closed"
          call,     \* call[r][t][k]: the tool_calls row and its approval
          topup,    \* topup[k]: the top-up stored for key k
          balance,  \* of the account; None: no account yet
          tx,       \* tx[r]: the call of run r that is under way
          work
gatewayVars == <<run, call, topup, balance, tx, work>>

Tools == {"topup", "balance"}
Guarded(t) == t = "topup"
None == -1
NoCall == [st |-> "none", arg |-> 0, ap |-> "none"]
NoTopup == [run |-> "none", arg |-> 0]
NoTx == [t |-> "none", k |-> "none", a |-> 0, via |-> "none", seen |-> None,
         found |-> FALSE, looked |-> FALSE]

CallStatus == {"none", "awaiting_approval", "succeeded", "rejected", "expired"}
ApprovalStatus == {"none", "pending", "approved", "rejected", "expired",
                   "consumed"}

GatewayInit ==
    /\ run = [r \in Runs |-> "running"]
    /\ call = [r \in Runs |-> [t \in Tools |-> [k \in Keys |-> NoCall]]]
    /\ topup = [k \in Keys |-> NoTopup]
    /\ balance = None
    /\ tx = [r \in Runs |-> NoTx]
    /\ work = 0

-------------------------------------------------------------------------------
(* The run and its step are locked and must be open.                       *)
Open(r) == run[r] # "closed" /\ tx[r] = NoTx
Begins == work < MaxWork /\ work' = work + 1

(* A guarded call without an approval: stored with the approval it waits   *)
(* for, and the run waits too.                                             *)
Prepare(r, k, a) ==
    /\ Begins /\ Open(r)
    /\ call[r]["topup"][k] = NoCall
    /\ call' = [call EXCEPT ![r]["topup"][k] =
                    [st |-> "awaiting_approval", arg |-> a, ap |-> "pending"]]
    /\ run' = [run EXCEPT ![r] = "awaiting_approval"]
    /\ UNCHANGED <<topup, balance, tx>>

(* A stored call with this key that succeeded is only replayed, and one    *)
(* with other arguments is a conflict.                                     *)
Fresh(c, a) == c.st # "succeeded" /\ (c # NoCall => c.arg = a)

(* Mutant: an approval need not be approved any more, only to exist.       *)
ApprovesOnce(c, a) == c.ap \in {"approved", "consumed"} /\ c.arg = a
(* The approval presented is approved, and for these arguments.            *)
Approves(c, a) == c.ap = "approved" /\ c.arg = a

(* execute() up to the handler's first statement: the approval, which may  *)
(* be of a call with another key of this run, is found good (and consumed  *)
(* with the commit), and the account is read.                              *)
Start(r, t, k, a, via) ==
    /\ Begins /\ Open(r)
    /\ Fresh(call[r][t][k], a)
    /\ IF Guarded(t) THEN via \in Keys /\ Approves(call[r][t][via], a)
                     ELSE via = k
    /\ tx' = [tx EXCEPT ![r] = [t |-> t, k |-> k, a |-> a, via |-> via,
                                seen |-> balance, found |-> FALSE,
                                looked |-> ~Guarded(t)]]
    /\ UNCHANGED <<run, call, topup, balance>>

(* get_topup_for_update(): a stored top-up of other arguments is a         *)
(* conflict, which ends the call.                                          *)
Look(r) ==
    LET q == tx[r] IN
    /\ q # NoTx /\ ~q.looked
    /\ tx' = [tx EXCEPT ![r] =
                IF topup[q.k] # NoTopup /\ topup[q.k].arg # q.a THEN NoTx
                ELSE [q EXCEPT !.looked = TRUE, !.found = topup[q.k] # NoTopup]]
    /\ UNCHANGED <<run, call, topup, balance, work>>

(* The unique indexes: of the address when the account is created, of the  *)
(* key when a top-up is stored.                                            *)
Collides(q) ==
    \/ q.seen = None /\ balance # None
    \/ Guarded(q.t) /\ ~q.found /\ topup[q.k] # NoTopup

(* The row of the call: for a guarded tool the one the approval was asked  *)
(* for.                                                                    *)
Recorded(q) == [st |-> "succeeded", arg |-> q.a,
                ap |-> IF Guarded(q.t) THEN "consumed" ELSE "none"]
(* The balance is written as the sum computed from the row that was read.  *)
Funds(q) == IF q.seen = None THEN Simulated ELSE q.seen
Credits(q) == Guarded(q.t) /\ ~q.found

(* Mutant: the approval is consumed and the top-up forgotten.              *)
CommitCallOnly(r) ==
    /\ tx[r] # NoTx /\ tx[r].looked
    /\ ~Collides(tx[r])
    /\ call' = [call EXCEPT ![r][tx[r].t][tx[r].via] = Recorded(tx[r])]
    /\ tx' = [tx EXCEPT ![r] = NoTx]
    /\ UNCHANGED <<run, topup, balance, work>>

Commit(r) ==
    LET q == tx[r] IN
    /\ q # NoTx /\ q.looked
    /\ ~Collides(q)
    /\ call' = [call EXCEPT ![r][q.t][q.via] = Recorded(q)]
    /\ topup' = IF Credits(q)
                THEN [topup EXCEPT ![q.k] = [run |-> r, arg |-> q.a]] ELSE topup
    /\ balance' = IF Credits(q) THEN Funds(q) + q.a
                  ELSE IF q.seen = None THEN Simulated ELSE balance
    /\ tx' = [tx EXCEPT ![r] = NoTx]
    /\ UNCHANGED <<run, work>>

(* A collision, a timeout, a refusal of the content check, any error of    *)
(* the handler, a crash: nothing of the call remains.                      *)
Rollback(r) ==
    /\ tx[r] # NoTx
    /\ tx' = [tx EXCEPT ![r] = NoTx]
    /\ UNCHANGED <<run, call, topup, balance, work>>

(* The user decides, or the deadline passes: each waits for a call that    *)
(* holds the run, or (the poll) passes it over.  An approval of a closed   *)
(* run can still be approved and still expires; a refusal must find the    *)
(* run waiting.                                                            *)
Pending(r, k) == tx[r] = NoTx /\ call[r]["topup"][k].ap = "pending"
Answer(r, k, ap, st) ==
    call' = [call EXCEPT ![r]["topup"][k] = [@ EXCEPT !.ap = ap, !.st = st]]

Approve(r, k) ==
    /\ Pending(r, k)
    /\ Answer(r, k, "approved", "awaiting_approval")
    /\ UNCHANGED <<run, topup, balance, tx, work>>

Reject(r, k) ==
    /\ Pending(r, k) /\ run[r] = "awaiting_approval"
    /\ Answer(r, k, "rejected", "rejected")
    /\ run' = [run EXCEPT ![r] = "closed"]
    /\ UNCHANGED <<topup, balance, tx, work>>

Expire(r, k) ==
    /\ Pending(r, k)
    /\ Answer(r, k, "expired", "expired")
    /\ run' = [run EXCEPT ![r] = IF @ = "awaiting_approval" THEN "closed" ELSE @]
    /\ UNCHANGED <<topup, balance, tx, work>>

(* Mutant: the run is closed without waiting for its row.                  *)
CloseAtOnce(r) ==
    /\ run[r] # "closed"
    /\ run' = [run EXCEPT ![r] = "closed"]
    /\ UNCHANGED <<call, topup, balance, tx, work>>

(* The runtime goes on with the run, and ends it.                          *)
Resume(r) ==
    /\ Open(r) /\ run[r] = "awaiting_approval"
    /\ \E k \in Keys : call[r]["topup"][k].ap = "approved"
    /\ run' = [run EXCEPT ![r] = "running"]
    /\ UNCHANGED <<call, topup, balance, tx, work>>
Close(r) ==
    /\ Open(r)
    /\ run' = [run EXCEPT ![r] = "closed"]
    /\ UNCHANGED <<call, topup, balance, tx, work>>

GatewayNext ==
    \E r \in Runs :
        \/ \E k \in Keys, a \in Amounts : Prepare(r, k, a)
        \/ \E t \in Tools, k \in Keys, a \in Amounts, via \in Keys :
               Start(r, t, k, a, via)
        \/ Look(r) \/ Commit(r) \/ Rollback(r)
        \/ \E k \in Keys : Approve(r, k) \/ Reject(r, k) \/ Expire(r, k)
        \/ Resume(r) \/ Close(r)
GatewaySpec == GatewayInit /\ [][GatewayNext]_gatewayVars
-------------------------------------------------------------------------------
CallRows == [st : CallStatus, arg : Amounts \cup {0}, ap : ApprovalStatus]
TxRows == [t : Tools, k : Keys, a : Amounts, via : Keys, seen : Nat \cup {None},
           found : BOOLEAN, looked : BOOLEAN]
GatewayTypeOK ==
    /\ run \in [Runs -> {"running", "awaiting_approval", "closed"}]
    /\ call \in [Runs -> [Tools -> [Keys -> CallRows]]]
    /\ topup \in [Keys -> [run : Runs, arg : Amounts] \cup {NoTopup}]
    /\ balance \in Nat \cup {None}
    /\ tx \in [Runs -> TxRows \cup {NoTx}]
    /\ work \in Nat

(* Every top-up is paid for by an approval of its own: run by run and      *)
(* amount by amount there are no more top-ups than consumed approvals,     *)
(* whatever keys the callers send, however often they try, and also when   *)
(* two runs use one key (verify_and_consume() under the lock of the run).  *)
TopupsOf(r, a) == {k \in Keys : topup[k] = [run |-> r, arg |-> a]}
ConsumedOf(r, a) == {k \in Keys : /\ call[r]["topup"][k].ap = "consumed"
                                  /\ call[r]["topup"][k].arg = a}
PaidByApproval ==
    \A r \in Runs, a \in Amounts :
        Cardinality(TopupsOf(r, a)) <= Cardinality(ConsumedOf(r, a))

(* An approval is consumed exactly when its call succeeded, and then a     *)
(* top-up of the same amount is stored: no failure uses up an approval     *)
(* without its effect.                                                     *)
SuccessIsPaid ==
    \A r \in Runs, k \in Keys :
        LET c == call[r]["topup"][k] IN
        /\ c.ap = "consumed" <=> c.st = "succeeded"
        /\ c.st = "succeeded" => \E j \in Keys : /\ topup[j] # NoTopup
                                                 /\ topup[j].arg = c.arg

(* Once a run is closed none of its calls succeeds any more and no top-up  *)
(* of it is stored, also when a call was under way as it closed.           *)
ClosedRunIsQuiet ==
    [][\A r \in Runs :
          run[r] = "closed" =>
              \A k \in Keys :
                  /\ call'[r]["topup"][k].st = "succeeded" =>
                         call[r]["topup"][k].st = "succeeded"
                  /\ topup'[k] # topup[k] => topup'[k].run # r]_gatewayVars

===============================================================================
