---------------------------- MODULE AgentRuntime ----------------------------
(***************************************************************************)
(* The recoverable agent runtime of CampusPilot: agent runs, the outbox of *)
(* runtime commands, the worker processes that lease and execute them,     *)
(* short-lived checkpoints, approvals of write tools, and the event log    *)
(* each run is followed through.                                           *)
(*                                                                         *)
(* Every action is one database transaction of the code, except that the   *)
(* transaction that executes a command is split where other transactions   *)
(* can slip in: after it has locked its command row and read the           *)
(* checkpoint (Begin), and before its first UPDATE takes the row lock of   *)
(* the run (StartRun, ResumeRun, ...).  From that UPDATE to the commit     *)
(* nobody else can touch the run, so the rest is one step: the statuses    *)
(* "routing" and "running" are written and left inside it.                 *)
(***************************************************************************)
EXTENDS Integers, Sequences, FiniteSets

CONSTANTS
    Runs,         \* agent runs of one conversation
    Workers,      \* runtime worker processes (claimed_by ids)
    MaxSteps,     \* agent_runs.step_count may not pass it (6 in the code)
    MaxTasks,     \* specialist tasks of a plan (at most 3 in the code)
    MaxAttempts,  \* max_attempts of a command (3 by default)
    BatchSize,    \* commands one poll may claim (1 by default)
    MaxFaults     \* bound: crashes, stalls and aborts in a behaviour

ASSUME RuntimeAssumption ==
    /\ MaxSteps \in Nat \ {0}
    /\ MaxTasks \in Nat \ {0}
    /\ MaxAttempts \in Nat \ {0}
    /\ BatchSize \in Nat \ {0}
    /\ MaxFaults \in Nat

-----------------------------------------------------------------------------
(* Vocabulary *)

Steps == 1 .. MaxSteps

ActiveStatus == {"created", "routing", "running", "awaiting_input",
                 "awaiting_approval"}
TerminalStatus == {"succeeded", "partial", "failed", "cancelled"}

TerminalEvents == {"done", "error"}
EventKinds == TerminalEvents \cup
    {"route", "agent_step", "approval_required", "input_required"}

(* The status of an approval row, with its deadline: an "overdue" one is   *)
(* pending and a "lapsed" one approved with expires_at in the past.        *)
ApprovalStatus == {"none", "pending", "overdue", "approved", "lapsed",
                   "rejected", "expired", "consumed"}
CallStatus == {"none", "awaiting_approval", "succeeded", "failed",
               "rejected", "expired"}

(* A command is named by what uq_runtime_command_active_action makes       *)
(* unique: the run, the action and, for a resume, the approval.  step is   *)
(* the step whose tool call the approval belongs to, 0 for other actions.  *)
Slots == [run : Runs, act : {"start", "input", "cancel"}, step : {0}]
         \cup [run : Runs, act : {"resume"}, step : Steps]

Slot(r, a) == [run |-> r, act |-> a, step |-> 0]
ResumeSlot(r, n) == [run |-> r, act |-> "resume", step |-> n]

NoWorker == "no worker"

Commands == [st : {"none", "pending", "processing", "succeeded", "failed"},
             att : 0 .. MaxAttempts,
             by : Workers \cup {NoWorker},
             stale : BOOLEAN]
(* A row nobody has claimed; what is never read again is dropped.          *)
Row(st, att) == [st |-> st, att |-> att, by |-> NoWorker, stale |-> FALSE]

(* ver counts the transactions that saved the row (0: there is no row),    *)
(* next/len the position in the plan, ask the step whose tool call waits   *)
(* for an approval (0: none), failed is had_failures, old: expires_at has  *)
(* passed.                                                                 *)
Checkpoints == [ver : Nat, next : 0 .. MaxTasks, len : 0 .. MaxTasks,
                ask : 0 .. MaxSteps, failed : BOOLEAN, old : BOOLEAN]
NoCheckpoint == [ver |-> 0, next |-> 0, len |-> 0, ask |-> 0,
                 failed |-> FALSE, old |-> FALSE]

VARIABLES
    run,      \* run[r]: status of the run, "absent" before it is created
    steps,    \* steps[r]: agent_runs.step_count
    ckpt,     \* ckpt[r]: the checkpoint row
    appr,     \* appr[r][n]: approval asked for the tool call of step n
    call,     \* call[r][n]: status of the approval-guarded tool call (its
              \* step row moves with it, statement by statement)
    effects,  \* effects[r][n]: committed executions of that tool call
    events,   \* events[r]: kinds of the run's events in sequence order
    cmd,      \* cmd[c]: latest command row of slot c
    todo,     \* todo[w]: commands claimed by w in its last poll, unprocessed
    busy,     \* busy[w]: w's transaction holds the row of Head(todo[w])
    snap,     \* snap[w]: the checkpoint that transaction has read
    faults    \* number of crashes, stalls and aborts so far

dbVars == <<run, steps, ckpt, appr, call, effects, events>>
workerVars == <<todo, busy, snap>>
vars == <<dbVars, cmd, workerVars, faults>>

IsActive(c) == cmd[c].st \in {"pending", "processing"}
Closed(r) == run[r] \in TerminalStatus
Locked(c) == \E w \in Workers : busy[w] /\ Head(todo[w]) = c

Init ==
    /\ run = [r \in Runs |-> "absent"]
    /\ steps = [r \in Runs |-> 0]
    /\ ckpt = [r \in Runs |-> NoCheckpoint]
    /\ appr = [r \in Runs |-> [n \in Steps |-> "none"]]
    /\ call = [r \in Runs |-> [n \in Steps |-> "none"]]
    /\ effects = [r \in Runs |-> [n \in Steps |-> 0]]
    /\ events = [r \in Runs |-> <<>>]
    /\ cmd = [c \in Slots |-> Row("none", 0)]
    /\ todo = [w \in Workers |-> <<>>]
    /\ busy = [w \in Workers |-> FALSE]
    /\ snap = [w \in Workers |-> NoCheckpoint]
    /\ faults = 0

-----------------------------------------------------------------------------
(* Shared pieces *)

TerminalEvent(status) == IF status = "failed" THEN "error" ELSE "done"

CloseUnchecked(r, status, log) ==
    /\ run[r] # "absent"
    /\ run' = [run EXCEPT ![r] = status]
    /\ ckpt' = [ckpt EXCEPT ![r] = NoCheckpoint]
    /\ events' = [events EXCEPT ![r] = @ \o Append(log, TerminalEvent(status))]

(* Close run r: finalize's compare-and-set on the active statuses, then    *)
(* the checkpoint is deleted and one terminal event appended after `log`.  *)
Close(r, status, log) ==
    /\ run[r] \in ActiveStatus
    /\ run' = [run EXCEPT ![r] = status]
    /\ ckpt' = [ckpt EXCEPT ![r] = NoCheckpoint]
    /\ events' = [events EXCEPT ![r] = @ \o Append(log, TerminalEvent(status))]

(* Add a command to the outbox; the unique index refuses a second active   *)
(* one, which rolls the caller back.                                       *)
Dispatch(c) ==
    /\ ~IsActive(c)
    /\ cmd' = [cmd EXCEPT ![c] = Row("pending", 0)]

-----------------------------------------------------------------------------
(* Requests of the user *)

(* A message that no waiting run of the conversation takes opens a run.    *)
Create(r) ==
    /\ run[r] = "absent"
    /\ \A q \in Runs : run[q] # "awaiting_input"
    /\ run' = [run EXCEPT ![r] = "created"]
    /\ Dispatch(Slot(r, "start"))
    /\ UNCHANGED <<steps, ckpt, appr, call, effects, events,
                   workerVars, faults>>

(* A message to a conversation with a waiting run is input to that run.    *)
SendInput(r) ==
    /\ run[r] = "awaiting_input"
    /\ Dispatch(Slot(r, "input"))
    /\ UNCHANGED <<dbVars, workerVars, faults>>

Cancel(r) ==
    /\ Close(r, "cancelled", <<>>)
    /\ Dispatch(Slot(r, "cancel"))
    /\ UNCHANGED <<steps, appr, call, effects, workerVars, faults>>

(* Approving looks at the approval only, not at the run.                   *)
Approve(r, n) ==
    /\ appr[r][n] = "pending"
    /\ appr' = [appr EXCEPT ![r][n] = "approved"]
    /\ Dispatch(ResumeSlot(r, n))
    /\ UNCHANGED <<run, steps, ckpt, call, effects, events,
                   workerVars, faults>>

Reject(r, n) ==
    /\ appr[r][n] = "pending"
    /\ call[r][n] = "awaiting_approval"
    /\ appr' = [appr EXCEPT ![r][n] = "rejected"]
    /\ call' = [call EXCEPT ![r][n] = "rejected"]
    /\ Close(r, "partial", <<>>)
    /\ UNCHANGED <<steps, effects, cmd, workerVars, faults>>

-----------------------------------------------------------------------------
(* The worker's poll: one transaction that expires the overdue approvals,  *)
(* deletes the expired checkpoints and claims a batch of commands.         *)

(* Mutant: a lapsed lease is never taken over.                             *)
ClaimableIfPending(c) == cmd[c].st = "pending" /\ cmd[c].att < MaxAttempts

Claimable(c) ==
    \/ cmd[c].st = "pending" /\ cmd[c].att < MaxAttempts
    \/ cmd[c].st = "processing" /\ cmd[c].stale /\ ~Locked(c)

Claimed(c, w) ==
    [st |-> "processing", by |-> w, stale |-> FALSE,
     att |-> IF cmd[c].att < MaxAttempts THEN cmd[c].att + 1 ELSE cmd[c].att]

(* What a poll may claim.  A pending command may be left out: its          *)
(* available_at may lie ahead.                                             *)
Batches ==
    {b \in UNION {[1 .. k -> {c \in Slots : Claimable(c)}] :
                      k \in 0 .. BatchSize} :
        \A i, j \in DOMAIN b : b[i] = b[j] => i = j}

(* Mutant: expiry closes a run that somebody has closed before.            *)
ClosedAgainByExpiry(r) ==
    \E n \in Steps : appr[r][n] = "overdue" /\ call[r][n] = "awaiting_approval"

(* Expiry closes the run too, unless somebody closed it before.            *)
ClosedByExpiry(r) ==
    /\ run[r] \in ActiveStatus
    /\ \E n \in Steps : appr[r][n] = "overdue" /\ call[r][n] = "awaiting_approval"

ExpireDue ==
    /\ appr' = [r \in Runs |-> [n \in Steps |->
                   IF appr[r][n] = "overdue" THEN "expired" ELSE appr[r][n]]]
    /\ call' = [r \in Runs |-> [n \in Steps |->
                   IF appr[r][n] = "overdue" /\ call[r][n] = "awaiting_approval"
                   THEN "expired" ELSE call[r][n]]]
    /\ run' = [r \in Runs |-> IF ClosedByExpiry(r) THEN "partial" ELSE run[r]]
    /\ events' = [r \in Runs |-> IF ClosedByExpiry(r)
                                 THEN Append(events[r], "done") ELSE events[r]]
    /\ ckpt' = [r \in Runs |-> IF ClosedByExpiry(r) \/ ckpt[r].old
                               THEN NoCheckpoint ELSE ckpt[r]]

Poll(w) ==
    /\ todo[w] = <<>>
    /\ ExpireDue
    /\ \E batch \in Batches :
          /\ todo' = [todo EXCEPT ![w] = batch]
          /\ cmd' = [c \in Slots |-> IF \E i \in DOMAIN batch : batch[i] = c
                                     THEN Claimed(c, w) ELSE cmd[c]]
    /\ UNCHANGED <<steps, effects, busy, snap, faults>>

-----------------------------------------------------------------------------
(* Executing a command *)

Holds(w, c) == cmd[c].st = "processing" /\ cmd[c].by = w

(* get_processing locks the command if the lease is still the worker's,    *)
(* and the runtime reads the checkpoint.                                   *)
Begin(w) ==
    /\ todo[w] # <<>> /\ ~busy[w]
    /\ Holds(w, Head(todo[w]))
    /\ busy' = [busy EXCEPT ![w] = TRUE]
    /\ snap' = [snap EXCEPT ![w] = ckpt[Head(todo[w]).run]]
    /\ UNCHANGED <<dbVars, cmd, todo, faults>>

(* The lease has gone to another worker: the command is left to it.        *)
Skip(w) ==
    /\ todo[w] # <<>> /\ ~busy[w]
    /\ ~Holds(w, Head(todo[w]))
    /\ todo' = [todo EXCEPT ![w] = Tail(@)]
    /\ UNCHANGED <<dbVars, cmd, busy, snap, faults>>

Release(w) ==
    /\ todo' = [todo EXCEPT ![w] = Tail(@)]
    /\ busy' = [busy EXCEPT ![w] = FALSE]
    /\ snap' = [snap EXCEPT ![w] = NoCheckpoint]

(* The processor returned: complete the command and commit.                *)
Succeed(w) ==
    /\ cmd' = [cmd EXCEPT ![Head(todo[w])] = Row("succeeded", 0)]
    /\ Release(w)

Processing(w, action) == busy[w] /\ Head(todo[w]).act = action

(* The compare-and-set of the checkpoint: an insert when nothing was read, *)
(* an update of the version that was read otherwise.                       *)
Unmoved(w, r) == ckpt[r].ver = snap[w].ver
Usable(s) == s.ver > 0 /\ ~s.old

(* What save writes over s, with a deadline of its own.                    *)
Saved(s, next, ask, failed) ==
    [ver |-> s.ver + 1, next |-> next, len |-> s.len, ask |-> ask,
     failed |-> failed, old |-> FALSE]

AgentSteps(k) == [i \in 1 .. k |-> "agent_step"]

(* The loop over the remaining tasks of checkpoint s: `done` tasks succeed *)
(* or fail, each with a step of its own, then the plan is finished, or the *)
(* next task stops to ask for input or for an approval.  `log` are the     *)
(* events written before the loop.                                         *)
FinishPlan(r, s, done, failed, log) ==
    /\ s.next + done = s.len
    /\ steps[r] + done <= MaxSteps
    /\ steps' = [steps EXCEPT ![r] = @ + done]
    /\ Close(r, IF failed THEN "partial" ELSE "succeeded",
             log \o AgentSteps(done))

StopAt(r, s, done, failed, log, status, event, ask) ==
    /\ s.next + done < s.len
    /\ steps[r] + done < MaxSteps
    /\ steps' = [steps EXCEPT ![r] = @ + done + 1]
    /\ run' = [run EXCEPT ![r] = status]
    /\ ckpt' = [ckpt EXCEPT ![r] = Saved(s, s.next + done, ask, failed)]
    /\ events' = [events EXCEPT ![r] =
           @ \o log \o AgentSteps(done) \o <<event>>]

(* apprAfter and callAfter are the rows of run r once the approved call,   *)
(* if any, has been executed.                                              *)
Advance(r, s, log, apprAfter, callAfter) ==
    \E done \in 0 .. MaxTasks, failed \in BOOLEAN :
        /\ s.failed => failed
        /\ failed /\ ~s.failed => done > 0
        /\ \/ /\ FinishPlan(r, s, done, failed, log)
              /\ appr' = [appr EXCEPT ![r] = apprAfter]
              /\ call' = [call EXCEPT ![r] = callAfter]
           \/ /\ StopAt(r, s, done, failed, log, "awaiting_input",
                        "input_required", 0)
              /\ appr' = [appr EXCEPT ![r] = apprAfter]
              /\ call' = [call EXCEPT ![r] = callAfter]
           \/ LET n == steps[r] + done + 1 IN
              /\ StopAt(r, s, done, failed, log, "awaiting_approval",
                        "approval_required", n)
              /\ appr' = [appr EXCEPT ![r] =
                             [apprAfter EXCEPT ![n] = "pending"]]
              /\ call' = [call EXCEPT ![r] =
                             [callAfter EXCEPT ![n] = "awaiting_approval"]]

(* The planner cannot plan without a clarification: the run ends there.    *)
Clarify(r) ==
    /\ Close(r, "partial", <<"route">>)
    /\ UNCHANGED <<steps, appr, call>>

StartRun(w) ==
    LET r == Head(todo[w]).run IN
    /\ Processing(w, "start")
    /\ snap[w].ver = 0 /\ Unmoved(w, r)
    /\ run[r] = "created"
    /\ \/ Clarify(r)
       \/ \E len \in 1 .. MaxTasks :
             Advance(r, [NoCheckpoint EXCEPT !.len = len], <<"route">>,
                     appr[r], call[r])
    /\ Succeed(w)
    /\ UNCHANGED <<effects, faults>>

ContinueInput(w) ==
    LET r == Head(todo[w]).run IN
    /\ Processing(w, "input")
    /\ Usable(snap[w]) /\ Unmoved(w, r)
    /\ snap[w].next < snap[w].len
    /\ run[r] = "awaiting_input"
    /\ Advance(r, snap[w], <<>>, appr[r], call[r])
    /\ Succeed(w)
    /\ UNCHANGED <<effects, faults>>

(* What a resume demands before it touches the tool: a checkpoint with a   *)
(* pending request and a run that waits for an approval.                   *)
CanResume(w) ==
    LET r == Head(todo[w]).run IN
    /\ Processing(w, "resume")
    /\ Usable(snap[w]) /\ Unmoved(w, r)
    /\ snap[w].ask # 0
    /\ run[r] = "awaiting_approval"
    /\ call[r][snap[w].ask] = "awaiting_approval"

(* Mutants: the deadline is not looked at; the approval stays usable.      *)
ApprovedOnce(r, n) == appr[r][n] \in {"approved", "lapsed"}
Unconsumed(r, n) == appr[r]

(* consume: an approved row before its deadline, and what becomes of it.   *)
Approved(r, n) == appr[r][n] = "approved"
Consumed(r, n) == [appr[r] EXCEPT ![n] = "consumed"]

(* The approval is consumed, the tool runs, and the plan goes on with the  *)
(* next task, all in one transaction.                                      *)
ResumeRun(w) ==
    LET c == Head(todo[w])
        s == snap[w]
    IN
    /\ CanResume(w)
    /\ Approved(c.run, c.step)
    /\ effects' = [effects EXCEPT ![c.run][c.step] = @ + 1]
    /\ Advance(c.run, [s EXCEPT !.next = @ + 1, !.ask = 0], <<>>,
               Consumed(c.run, c.step),
               [call[c.run] EXCEPT ![s.ask] = "succeeded"])
    /\ Succeed(w)
    /\ UNCHANGED faults

(* The tool refuses: its arguments before the approval is consumed         *)
(* (validation, preflight), the handler after it, or, its masked text      *)
(* being no output any more, the check of the output after the effect.     *)
(* The run goes back to its user.                                          *)
RefuseArguments(w) ==
    LET c == Head(todo[w])
        s == snap[w]
    IN
    /\ CanResume(w)
    /\ \/ UNCHANGED <<appr, effects>>
       \/ /\ Approved(c.run, c.step)
          /\ appr' = [appr EXCEPT ![c.run] = Consumed(c.run, c.step)]
          /\ \/ effects' = effects
             \/ effects' = [effects EXCEPT ![c.run][c.step] = @ + 1]
    /\ call' = [call EXCEPT ![c.run][s.ask] = "failed"]
    /\ run' = [run EXCEPT ![c.run] = "awaiting_input"]
    /\ ckpt' = [ckpt EXCEPT ![c.run] = Saved(s, s.next, 0, s.failed)]
    /\ events' = [events EXCEPT ![c.run] = Append(@, "input_required")]
    /\ Succeed(w)
    /\ UNCHANGED <<steps, faults>>

(* A cancel command normally finds its run closed by the request that      *)
(* dispatched it (the conflict is swallowed); it would close an open one.  *)
CancelRun(w) ==
    LET r == Head(todo[w]).run IN
    /\ Processing(w, "cancel")
    /\ ~snap[w].old
    /\ IF run[r] \in ActiveStatus
       THEN /\ snap[w].ver > 0 => Unmoved(w, r)
            /\ Close(r, "cancelled", <<>>)
       ELSE UNCHANGED <<run, ckpt, events>>
    /\ Succeed(w)
    /\ UNCHANGED <<steps, appr, call, effects, faults>>

(* Mutant: the run of a failed command is left as it is. *)
ForgetRun(r) == UNCHANGED <<run, ckpt, events>>

(* mark_failed: the run fails with its command, unless it is closed.       *)
GiveUp(r) ==
    IF run[r] \in ActiveStatus
    THEN Close(r, "failed", <<>>)
    ELSE UNCHANGED <<run, ckpt, events>>

(* Any exception rolls the savepoint back; the command is retried later,   *)
(* or, with its attempts used up, fails and takes its run with it.         *)
Fail(w) ==
    LET c == Head(todo[w]) IN
    /\ busy[w]
    /\ IF cmd[c].att < MaxAttempts
       THEN /\ cmd' = [cmd EXCEPT ![c] = Row("pending", cmd[c].att)]
            /\ UNCHANGED <<run, ckpt, events>>
       ELSE /\ cmd' = [cmd EXCEPT ![c] = Row("failed", 0)]
            /\ GiveUp(c.run)
    /\ Release(w)
    /\ UNCHANGED <<steps, appr, call, effects, faults>>

(* The whole transaction is lost (connection, deadlock victim): the worker *)
(* lives on and the command waits for its lease to lapse.                  *)
Abort(w) ==
    /\ faults < MaxFaults
    /\ busy[w]
    /\ Release(w)
    /\ faults' = faults + 1
    /\ UNCHANGED <<dbVars, cmd>>

(* The process dies between or in transactions and is started again.       *)
Crash(w) ==
    /\ faults < MaxFaults
    /\ todo[w] # <<>>
    /\ todo' = [todo EXCEPT ![w] = <<>>]
    /\ busy' = [busy EXCEPT ![w] = FALSE]
    /\ snap' = [snap EXCEPT ![w] = NoCheckpoint]
    /\ faults' = faults + 1
    /\ UNCHANGED <<dbVars, cmd>>

-----------------------------------------------------------------------------
(* The clock *)

ApprovalLapses(r, n) ==
    /\ \/ /\ appr[r][n] = "pending"
          /\ appr' = [appr EXCEPT ![r][n] = "overdue"]
       \/ /\ appr[r][n] = "approved"
          /\ appr' = [appr EXCEPT ![r][n] = "lapsed"]
    /\ UNCHANGED <<run, steps, ckpt, call, effects, events, cmd, workerVars,
                   faults>>

CheckpointLapses(r) ==
    /\ ckpt[r].ver > 0 /\ ~ckpt[r].old
    /\ ckpt' = [ckpt EXCEPT ![r].old = TRUE]
    /\ UNCHANGED <<run, steps, appr, call, effects, events, cmd,
                   workerVars, faults>>

(* c still waits in its owner's batch. *)
Queued(c) == \E w \in Workers :
    /\ cmd[c].by = w /\ ~busy[w]
    /\ \E i \in DOMAIN todo[w] : todo[w][i] = c

(* A lease lapses while its owner executes the command for long, or after  *)
(* its owner has lost it.                                                  *)
LeaseLapses(c) ==
    /\ cmd[c].st = "processing" /\ ~cmd[c].stale
    /\ ~Queued(c)
    /\ cmd' = [cmd EXCEPT ![c].stale = TRUE]
    /\ UNCHANGED <<dbVars, workerVars, faults>>

(* A worker that stalls between claim and execution for longer than the    *)
(* lease counts as a fault.                                                *)
WorkerStalls(c) ==
    /\ faults < MaxFaults
    /\ cmd[c].st = "processing" /\ ~cmd[c].stale
    /\ Queued(c)
    /\ cmd' = [cmd EXCEPT ![c].stale = TRUE]
    /\ faults' = faults + 1
    /\ UNCHANGED <<dbVars, workerVars>>

-----------------------------------------------------------------------------

Request == \E r \in Runs :
    \/ Create(r)
    \/ SendInput(r)
    \/ Cancel(r)
    \/ \E n \in Steps : Approve(r, n) \/ Reject(r, n)

Execute(w) ==
    \/ StartRun(w)
    \/ ContinueInput(w)
    \/ ResumeRun(w)
    \/ RefuseArguments(w)
    \/ CancelRun(w)
    \/ Fail(w)

Clock ==
    \/ \E r \in Runs : CheckpointLapses(r)
    \/ \E r \in Runs, n \in Steps : ApprovalLapses(r, n)
    \/ \E c \in Slots : LeaseLapses(c)

Next ==
    \/ Request
    \/ \E w \in Workers : Poll(w) \/ Begin(w) \/ Skip(w) \/ Execute(w)
    \/ \E w \in Workers : Abort(w) \/ Crash(w)
    \/ \E c \in Slots : WorkerStalls(c)
    \/ Clock

(* Workers poll for ever and finish what they begin, and time passes.      *)
(* Users owe nothing, and faults are bounded, not fair.                    *)
Fairness ==
    /\ \A w \in Workers :
          /\ WF_vars(Poll(w))
          /\ WF_vars(Begin(w) \/ Skip(w))
          /\ WF_vars(Execute(w))
    /\ \A r \in Runs, n \in Steps : WF_vars(ApprovalLapses(r, n))
    /\ \A c \in Slots : WF_vars(LeaseLapses(c))

Spec == Init /\ [][Next]_vars
LiveSpec == Spec /\ Fairness

-----------------------------------------------------------------------------
(* Invariants *)

(* The rows and the workers' memory have the shapes the code gives them.   *)
TypeOK ==
    /\ run \in [Runs -> {"absent"} \cup ActiveStatus \cup TerminalStatus]
    /\ steps \in [Runs -> 0 .. MaxSteps]
    /\ ckpt \in [Runs -> Checkpoints]
    /\ appr \in [Runs -> [Steps -> ApprovalStatus]]
    /\ call \in [Runs -> [Steps -> CallStatus]]
    /\ effects \in [Runs -> [Steps -> Nat]]
    /\ events \in [Runs -> Seq(EventKinds)]
    /\ cmd \in [Slots -> Commands]
    /\ todo \in [Workers -> Seq(Slots)]
    /\ busy \in [Workers -> BOOLEAN]
    /\ snap \in [Workers -> Checkpoints]
    /\ faults \in 0 .. MaxFaults

(* RuntimeTerminalCoordinator: "append one terminal SSE fact".  Whoever    *)
(* closes a run (the worker that finishes it, gives it up or finds its     *)
(* approval overdue, or the user who cancels or rejects), a run is closed  *)
(* exactly when the last of its events is terminal, an "error" exactly     *)
(* when it failed, and no terminal event comes earlier.                    *)
ClosedByOneEvent == \A r \in Runs :
    LET e == events[r] IN
    /\ \A i \in 1 .. Len(e) : e[i] \in TerminalEvents => i = Len(e)
    /\ Closed(r) => e # <<>> /\ e[Len(e)] = TerminalEvent(run[r])
    /\ ~Closed(r) => \A i \in 1 .. Len(e) : e[i] \notin TerminalEvents

(* Recovery state does not outlive its run: no closed run has a checkpoint *)
(* row, whatever a worker was doing with it when the run was closed.       *)
NoCheckpointOfClosedRun == \A r \in Runs : Closed(r) => ckpt[r].ver = 0

(* However often a resume command is claimed, retried or reclaimed, a      *)
(* guarded tool call is executed at most once and never without having     *)
(* consumed its approval; one that succeeded has been executed, one that   *)
(* waits, or was rejected or expired, has not.  A failed one may have      *)
(* been: its output is checked after the effect.                           *)
EffectConsumesApproval == \A r \in Runs, n \in Steps :
    /\ call[r][n] = "succeeded" => effects[r][n] = 1
    /\ effects[r][n] # 0 => /\ effects[r][n] = 1
                            /\ appr[r][n] = "consumed"
                            /\ call[r][n] \in {"succeeded", "failed"}

(* A command that is still to be executed fits the state its run is in,    *)
(* unless the run was closed meanwhile: no stale start, input or resume    *)
(* can drive a run that has moved on.                                      *)
CommandFitsRun == \A c \in Slots :
    IsActive(c) =>
        \/ Closed(c.run)
        \/ c.act = "start" /\ run[c.run] = "created"
        \/ c.act = "input" /\ run[c.run] = "awaiting_input"
        \/ /\ c.act = "resume"
           /\ run[c.run] = "awaiting_approval"
           /\ c.step = steps[c.run]
           /\ appr[c.run][c.step] \in {"approved", "lapsed"}

(* No run is left behind: a created run has its start command in the       *)
(* outbox, and a run that waits for an approval has it pending or has a    *)
(* resume command to act on it.                                            *)
NoRunLeftBehind == \A r \in Runs :
    /\ run[r] = "created" => IsActive(Slot(r, "start"))
    /\ run[r] = "awaiting_approval" =>
          \/ appr[r][steps[r]] \in {"pending", "overdue"}
          \/ /\ appr[r][steps[r]] \in {"approved", "lapsed"}
             /\ IsActive(ResumeSlot(r, steps[r]))

(* A pending approval of a live run is the one the run is waiting for, so  *)
(* deciding it or letting it expire acts on the right step.                *)
PendingApprovalIsCurrent == \A r \in Runs, n \in Steps :
    appr[r][n] \in {"pending", "overdue"} /\ ~Closed(r) =>
        run[r] = "awaiting_approval" /\ n = steps[r]

(* One transaction at a time executes a command, and it holds the lease,   *)
(* though leases lapse and other workers take them over.                   *)
OneExecutor == \A w \in Workers : busy[w] =>
    /\ Holds(w, Head(todo[w]))
    /\ \A v \in Workers \ {w} : busy[v] => Head(todo[v]) # Head(todo[w])

-----------------------------------------------------------------------------
(* Action properties *)

(* "A terminal state cannot go back to running": a closed run stays as it  *)
(* is, its event log and its effects included.                             *)
ClosedIsFinal == [][\A r \in Runs : Closed(r) =>
    /\ run'[r] = run[r]
    /\ events'[r] = events[r]
    /\ effects'[r] = effects[r]]_vars

(* A guarded tool runs only for a run that is waiting for exactly this     *)
(* approval, which is approved and not past its deadline: never after a    *)
(* cancel, a rejection or an expiry.                                       *)
EffectOnlyWhenApproved == [][\A r \in Runs, n \in Steps :
    effects'[r][n] # effects[r][n] =>
        /\ run[r] = "awaiting_approval"
        /\ n = steps[r]
        /\ appr[r][n] = "approved"]_vars

-----------------------------------------------------------------------------
(* Liveness, under Fairness *)

(* Every command is eventually executed or given up.                       *)
EveryCommandEnds == \A c \in Slots : IsActive(c) ~> ~IsActive(c)

(* A created run is eventually taken up, and a run does not wait for an    *)
(* approval for ever, whatever its user does.                              *)
EveryRunMoves == \A r \in Runs :
    /\ run[r] = "created" ~> run[r] # "created"
    /\ run[r] = "awaiting_approval" ~> run[r] # "awaiting_approval"

=============================================================================
