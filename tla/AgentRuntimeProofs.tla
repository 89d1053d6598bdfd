-------------------------- MODULE AgentRuntimeProofs --------------------------
(***************************************************************************)
(* Machine-checked proofs about AgentRuntime and its contract, for every   *)
(* number of runs, workers, steps, tasks, attempts and faults.             *)
(***************************************************************************)
EXTENDS AgentRuntimeContract, SequenceTheorems, FiniteSetTheorems, TLAPS

(* A transaction that executes a command holds the lease of the command at *)
(* the head of its worker's batch.                                         *)
BusyHolds == \A w \in Workers :
    busy[w] => todo[w] # <<>> /\ Holds(w, Head(todo[w]))

Shape == TypeOK /\ BusyHolds

-----------------------------------------------------------------------------
(* Facts about the pieces actions are built from *)

LEMMA SlotFacts ==
    /\ \A c \in Slots : c.run \in Runs /\ c.step \in 0 .. MaxSteps
                        /\ c.act \in {"start", "input", "cancel", "resume"}
    /\ \A c \in Slots : c.act = "resume" => c.step \in Steps
    /\ \A r \in Runs : \A a \in {"start", "input", "cancel"} :
          Slot(r, a) \in Slots
    /\ \A r \in Runs, n \in Steps : ResumeSlot(r, n) \in Slots
  BY RuntimeAssumption DEF Slots, Slot, ResumeSlot, Steps

(* What a worker takes from its batch is a command, what it leaves a batch. *)
LEMMA HeadFacts ==
  ASSUME TypeOK, NEW w \in Workers, todo[w] # <<>>
  PROVE  Head(todo[w]) \in Slots /\ Tail(todo[w]) \in Seq(Slots)
  BY DEF TypeOK

(* Closing a run keeps the shapes of its row, checkpoint and log. *)
LEMMA CloseShape ==
  ASSUME TypeOK, NEW r \in Runs, NEW status \in TerminalStatus,
         NEW log \in Seq(EventKinds), Close(r, status, log)
  PROVE  /\ run' \in [Runs -> {"absent"} \cup ActiveStatus \cup TerminalStatus]
         /\ ckpt' \in [Runs -> Checkpoints]
         /\ events' \in [Runs -> Seq(EventKinds)]
<1>1. NoCheckpoint \in Checkpoints
  BY RuntimeAssumption DEF NoCheckpoint, Checkpoints
<1>2. TerminalEvent(status) \in EventKinds
  BY DEF TerminalEvent, EventKinds, TerminalEvents
<1>3. events[r] \o Append(log, TerminalEvent(status)) \in Seq(EventKinds)
  BY <1>2 DEF TypeOK
<1> QED
  BY <1>1, <1>3 DEF Close, TypeOK

(* Giving back a worker keeps the shapes of the workers' memory. *)
LEMMA ReleaseShape ==
  ASSUME TypeOK, NEW w \in Workers, todo[w] # <<>>, Release(w)
  PROVE  /\ todo' \in [Workers -> Seq(Slots)]
         /\ busy' \in [Workers -> BOOLEAN]
         /\ snap' \in [Workers -> Checkpoints]
<1>1. NoCheckpoint \in Checkpoints
  BY RuntimeAssumption DEF NoCheckpoint, Checkpoints
<1> QED
  BY <1>1, HeadFacts DEF Release, TypeOK

(* Only the worker itself touches its batch; the others keep their leases  *)
(* if it changes no command but one they do not execute.                   *)
LEMMA OthersKeepLeases ==
  ASSUME Shape, NEW w \in Workers, busy[w],
         Release(w),
         \A c \in Slots : c # Head(todo[w]) => cmd'[c] = cmd[c]
  PROVE  BusyHolds'
<1> SUFFICES ASSUME NEW v \in Workers, busy'[v]
             PROVE  (todo[v] # <<>> /\ Holds(v, Head(todo[v])))'
  BY DEF BusyHolds
<1>1. v # w
  BY DEF Release, Shape, TypeOK
<1>2. busy[v] /\ todo'[v] = todo[v]
  BY <1>1 DEF Release, Shape, TypeOK
<1>3. todo[v] # <<>> /\ Holds(v, Head(todo[v])) /\ Head(todo[v]) \in Slots
  BY <1>2, HeadFacts DEF Shape, BusyHolds
<1>4. Head(todo[v]) # Head(todo[w])
  BY <1>1, <1>3 DEF Shape, BusyHolds, Holds
<1> QED
  BY <1>2, <1>3, <1>4 DEF Holds

(* The command rows actions write. *)
LEMMA RowShape ==
  \A st \in {"none", "pending", "succeeded", "failed"} :
  \A att \in 0 .. MaxAttempts : Row(st, att) \in Commands
  BY DEF Row, Commands

(* Completing a command keeps the shapes and the leases of the others. *)
LEMMA SucceedShape ==
  ASSUME Shape, NEW w \in Workers, busy[w], Succeed(w)
  PROVE  /\ cmd' \in [Slots -> Commands]
         /\ todo' \in [Workers -> Seq(Slots)]
         /\ busy' \in [Workers -> BOOLEAN]
         /\ snap' \in [Workers -> Checkpoints]
         /\ BusyHolds'
<1>1. todo[w] # <<>> /\ Head(todo[w]) \in Slots
  BY HeadFacts DEF Shape, BusyHolds
<1>2. Row("succeeded", 0) \in Commands
  BY RowShape, RuntimeAssumption
<1>3. cmd' \in [Slots -> Commands]
  BY <1>1, <1>2 DEF Succeed, Shape, TypeOK
<1>4. BusyHolds'
  BY <1>1, OthersKeepLeases DEF Succeed, Shape, TypeOK
<1> QED
  BY <1>1, <1>3, <1>4, ReleaseShape DEF Succeed, Shape

(* The rows of a run that stops to wait: status, event and ask as given.   *)
LEMMA StopShape ==
  ASSUME TypeOK, NEW r \in Runs, NEW s, NEW done \in Nat, NEW failed \in BOOLEAN,
         NEW log \in Seq(EventKinds),
         NEW status \in {"awaiting_input", "awaiting_approval"},
         NEW event \in EventKinds, NEW ask \in 0 .. MaxSteps,
         s.next \in Nat, s.len \in 0 .. MaxTasks, s.ver \in Nat,
         StopAt(r, s, done, failed, log, status, event, ask)
  PROVE  /\ run' \in [Runs -> {"absent"} \cup ActiveStatus \cup TerminalStatus]
         /\ steps' \in [Runs -> 0 .. MaxSteps]
         /\ ckpt' \in [Runs -> Checkpoints]
         /\ events' \in [Runs -> Seq(EventKinds)]
<1> USE RuntimeAssumption
<1>1. run' \in [Runs -> {"absent"} \cup ActiveStatus \cup TerminalStatus]
  BY DEF StopAt, TypeOK, ActiveStatus
<1>2. steps' \in [Runs -> 0 .. MaxSteps]
  <2>1. steps[r] \in 0 .. MaxSteps
    BY DEF TypeOK
  <2>2. steps[r] + done + 1 \in 0 .. MaxSteps
    BY <2>1 DEF StopAt
  <2> QED
    BY <2>2 DEF StopAt, TypeOK
<1>3. ckpt' \in [Runs -> Checkpoints]
  <2>1. s.next + done \in 0 .. MaxTasks
    BY DEF StopAt
  <2>2. Saved(s, s.next + done, ask, failed) \in Checkpoints
    BY <2>1 DEF Saved, Checkpoints
  <2> QED
    BY <2>2 DEF StopAt, TypeOK
<1>4. events' \in [Runs -> Seq(EventKinds)]
  <2>1. AgentSteps(done) \in Seq(EventKinds)
    BY DEF AgentSteps, EventKinds
  <2>2. events[r] \in Seq(EventKinds) /\ <<event>> \in Seq(EventKinds)
    BY DEF TypeOK
  <2>3. events[r] \o log \o AgentSteps(done) \o <<event>> \in Seq(EventKinds)
    BY <2>1, <2>2
  <2> QED
    BY <2>3 DEF StopAt, TypeOK
<1> QED
  BY <1>1, <1>2, <1>3, <1>4

(* The rows of a run after its plan has been advanced. *)
LEMMA AdvanceShape ==
  ASSUME TypeOK, NEW r \in Runs, NEW s,
         s.next \in Nat, s.len \in 0 .. MaxTasks, s.ver \in Nat,
         NEW log \in Seq(EventKinds),
         NEW apprAfter \in [Steps -> ApprovalStatus],
         NEW callAfter \in [Steps -> CallStatus],
         Advance(r, s, log, apprAfter, callAfter)
  PROVE  /\ run' \in [Runs -> {"absent"} \cup ActiveStatus \cup TerminalStatus]
         /\ steps' \in [Runs -> 0 .. MaxSteps]
         /\ ckpt' \in [Runs -> Checkpoints]
         /\ appr' \in [Runs -> [Steps -> ApprovalStatus]]
         /\ call' \in [Runs -> [Steps -> CallStatus]]
         /\ events' \in [Runs -> Seq(EventKinds)]
<1> USE RuntimeAssumption
<1> DEFINE
      Keep == /\ appr' = [appr EXCEPT ![r] = apprAfter]
              /\ call' = [call EXCEPT ![r] = callAfter]
      Finish(done, failed) == FinishPlan(r, s, done, failed, log) /\ Keep
      Ask(done, failed) ==
          StopAt(r, s, done, failed, log, "awaiting_input",
                 "input_required", 0) /\ Keep
      Seek(done, failed) ==
          /\ StopAt(r, s, done, failed, log, "awaiting_approval",
                    "approval_required", steps[r] + done + 1)
          /\ appr' = [appr EXCEPT ![r] =
                 [apprAfter EXCEPT ![steps[r] + done + 1] = "pending"]]
          /\ call' = [call EXCEPT ![r] =
                 [callAfter EXCEPT ![steps[r] + done + 1] =
                      "awaiting_approval"]]
<1>1. PICK done \in 0 .. MaxTasks, failed \in BOOLEAN :
        Finish(done, failed) \/ Ask(done, failed) \/ Seek(done, failed)
  BY Zenon DEF Advance
<1>2. steps[r] \in 0 .. MaxSteps /\ done \in Nat
  BY DEF TypeOK
<1>3. Keep => /\ appr' \in [Runs -> [Steps -> ApprovalStatus]]
              /\ call' \in [Runs -> [Steps -> CallStatus]]
  BY DEF TypeOK
<1>4. CASE Finish(done, failed)
  <2>1. steps[r] + done \in 0 .. MaxSteps
    BY <1>2, <1>4 DEF FinishPlan
  <2>2. steps' \in [Runs -> 0 .. MaxSteps]
    BY <2>1, <1>4 DEF FinishPlan, TypeOK
  <2>3. log \o AgentSteps(done) \in Seq(EventKinds)
    BY DEF AgentSteps, EventKinds
  <2>4. PICK status \in TerminalStatus :
           Close(r, status, log \o AgentSteps(done))
    BY <1>4 DEF FinishPlan, TerminalStatus
  <2> QED
    BY <1>3, <1>4, <2>2, <2>3, <2>4, CloseShape
<1>5. CASE Ask(done, failed)
  <2> HIDE DEF Keep
  <2>1. "input_required" \in EventKinds /\ 0 \in 0 .. MaxSteps
    BY DEF EventKinds
  <2>2. /\ StopAt(r, s, done, failed, log, "awaiting_input", "input_required", 0)
        /\ Keep
    BY <1>5
  <2>3. /\ appr' \in [Runs -> [Steps -> ApprovalStatus]]
        /\ call' \in [Runs -> [Steps -> CallStatus]]
    BY <1>3, <2>2
  <2> QED
    BY <1>2, <2>1, <2>2, <2>3, StopShape, SMTT(30)
<1>6. CASE Seek(done, failed)
  <2>1. "approval_required" \in EventKinds
    BY DEF EventKinds
  <2>2. steps[r] + done + 1 \in 0 .. MaxSteps
    BY <1>2, <1>6 DEF StopAt
  <2>3. appr' \in [Runs -> [Steps -> ApprovalStatus]]
    BY <1>6 DEF TypeOK, ApprovalStatus
  <2>4. call' \in [Runs -> [Steps -> CallStatus]]
    BY <1>6 DEF TypeOK, CallStatus
  <2>5. StopAt(r, s, done, failed, log, "awaiting_approval",
               "approval_required", steps[r] + done + 1)
    BY <1>6
  <2> QED
    BY <1>2, <2>1, <2>2, <2>3, <2>4, <2>5, StopShape, SMTT(30)
<1> QED
  BY <1>1, <1>4, <1>5, <1>6

(* Adding a command to the outbox touches nobody's lease. *)
LEMMA DispatchShape ==
  ASSUME Shape, NEW c \in Slots, Dispatch(c), UNCHANGED workerVars
  PROVE  cmd' \in [Slots -> Commands] /\ BusyHolds'
<1>1. cmd' \in [Slots -> Commands]
  BY RowShape, RuntimeAssumption DEF Dispatch, Shape, TypeOK
<1>2. BusyHolds'
  <2> SUFFICES ASSUME NEW w \in Workers, busy[w]
               PROVE  (todo[w] # <<>> /\ Holds(w, Head(todo[w])))'
    BY DEF BusyHolds, workerVars
  <2>1. todo[w] # <<>> /\ Holds(w, Head(todo[w])) /\ Head(todo[w]) \in Slots
    BY HeadFacts DEF Shape, BusyHolds
  <2>2. Head(todo[w]) # c
    BY <2>1 DEF Holds, Dispatch, IsActive
  <2> QED
    BY <2>1, <2>2 DEF Holds, Dispatch, workerVars, Shape, TypeOK
<1> QED
  BY <1>1, <1>2

(* A lapsing lease is still a lease. *)
LEMMA LapseShape ==
  ASSUME Shape, NEW c \in Slots, cmd' = [cmd EXCEPT ![c].stale = TRUE],
         UNCHANGED workerVars
  PROVE  cmd' \in [Slots -> Commands] /\ BusyHolds'
<1>1. cmd[c] \in Commands
  BY DEF Shape, TypeOK
<1>2. [cmd[c] EXCEPT !.stale = TRUE] \in Commands
  BY <1>1 DEF Commands
<1>3. cmd' \in [Slots -> Commands]
  BY <1>2 DEF Shape, TypeOK
<1>4. \A d \in Slots : cmd'[d].st = cmd[d].st /\ cmd'[d].by = cmd[d].by
  BY <1>1 DEF Shape, TypeOK, Commands
<1>5. BusyHolds'
  BY <1>4, HeadFacts DEF Shape, BusyHolds, Holds, workerVars
<1> QED
  BY <1>3, <1>5

(* What a poll claims is a batch of commands nobody executes. *)
LEMMA BatchFacts ==
  ASSUME NEW batch \in Batches
  PROVE  /\ batch \in Seq(Slots)
         /\ \A i \in DOMAIN batch : Claimable(batch[i])
<1>1. PICK k \in 0 .. BatchSize :
          batch \in [1 .. k -> {c \in Slots : Claimable(c)}]
  BY DEF Batches
<1>2. k \in Nat
  BY RuntimeAssumption
<1> QED
  BY <1>1, <1>2

LEMMA PollShape ==
  ASSUME Shape, NEW w \in Workers, Poll(w)
  PROVE  Shape'
<1> USE RuntimeAssumption
<1>1. PICK batch \in Batches :
        /\ todo' = [todo EXCEPT ![w] = batch]
        /\ cmd' = [c \in Slots |-> IF \E i \in DOMAIN batch : batch[i] = c
                                   THEN Claimed(c, w) ELSE cmd[c]]
  BY DEF Poll
<1>2. batch \in Seq(Slots) /\ \A i \in DOMAIN batch : Claimable(batch[i])
  BY BatchFacts
<1>3. cmd' \in [Slots -> Commands]
  <2>1. \A c \in Slots : cmd[c] \in Commands
    BY DEF Shape, TypeOK
  <2>2. \A c \in Slots : Claimed(c, w) \in Commands
    BY <2>1 DEF Claimed, Commands
  <2> QED
    BY <1>1, <2>1, <2>2
<1>4. todo' \in [Workers -> Seq(Slots)]
  BY <1>1, <1>2 DEF Shape, TypeOK
<1>5. NoCheckpoint \in Checkpoints
  BY DEF NoCheckpoint, Checkpoints
<1>6. /\ appr' \in [Runs -> [Steps -> ApprovalStatus]]
      /\ call' \in [Runs -> [Steps -> CallStatus]]
      /\ run' \in [Runs -> {"absent"} \cup ActiveStatus \cup TerminalStatus]
      /\ ckpt' \in [Runs -> Checkpoints]
  BY <1>5 DEF Poll, ExpireDue, Shape, TypeOK, ApprovalStatus, CallStatus,
              TerminalStatus
<1>7. events' \in [Runs -> Seq(EventKinds)]
  <2>1. "done" \in EventKinds
    BY DEF EventKinds, TerminalEvents
  <2>2. \A r \in Runs : /\ events[r] \in Seq(EventKinds)
                        /\ Append(events[r], "done") \in Seq(EventKinds)
    BY <2>1 DEF Shape, TypeOK
  <2> QED
    BY <2>2 DEF Poll, ExpireDue
<1>8. TypeOK'
  BY <1>3, <1>4, <1>6, <1>7 DEF Poll, Shape, TypeOK
<1>9. BusyHolds'
  <2> SUFFICES ASSUME NEW v \in Workers, busy[v]
               PROVE  (todo[v] # <<>> /\ Holds(v, Head(todo[v])))'
    BY DEF BusyHolds, Poll
  <2>1. todo[v] # <<>> /\ Holds(v, Head(todo[v])) /\ Head(todo[v]) \in Slots
    BY HeadFacts DEF Shape, BusyHolds
  <2>2. todo'[v] = todo[v]
    BY <1>1, <2>1 DEF Poll, Shape, TypeOK
  <2>3. ~Claimable(Head(todo[v]))
    BY <2>1 DEF Claimable, Holds, Locked
  <2>4. cmd'[Head(todo[v])] = cmd[Head(todo[v])]
    BY <1>1, <1>2, <2>1, <2>3
  <2> QED
    BY <2>1, <2>2, <2>4 DEF Holds
<1> QED
  BY <1>8, <1>9 DEF Shape

-----------------------------------------------------------------------------
(* Shape is an inductive invariant *)

LEMMA ShapeInit == Init => Shape
<1> SUFFICES ASSUME Init PROVE Shape
  OBVIOUS
<1> USE RuntimeAssumption
<1>1. NoCheckpoint \in Checkpoints
  BY DEF NoCheckpoint, Checkpoints
<1>2. Row("none", 0) \in Commands
  BY RowShape
<1>3. TypeOK
  BY <1>1, <1>2 DEF Init, TypeOK, ApprovalStatus, CallStatus
<1>4. BusyHolds
  BY DEF Init, BusyHolds
<1> QED
  BY <1>3, <1>4 DEF Shape

LEMMA RequestShape ==
  ASSUME Shape, Request
  PROVE  Shape'
<1> USE RuntimeAssumption
<1>1. PICK r \in Runs :
        \/ Create(r)
        \/ SendInput(r)
        \/ Cancel(r)
        \/ \E n \in Steps : Approve(r, n) \/ Reject(r, n)
  BY DEF Request
<1>2. <<>> \in Seq(EventKinds)
  OBVIOUS
<1>3. CASE Create(r)
  <2>1. Dispatch(Slot(r, "start")) /\ UNCHANGED workerVars
    BY <1>3 DEF Create
  <2>2. cmd' \in [Slots -> Commands] /\ BusyHolds'
    BY <2>1, SlotFacts, DispatchShape
  <2> QED
    BY <1>3, <2>2 DEF Create, Shape, TypeOK, ActiveStatus, workerVars
<1>4. CASE SendInput(r)
  <2>1. Dispatch(Slot(r, "input")) /\ UNCHANGED workerVars
    BY <1>4 DEF SendInput
  <2>2. cmd' \in [Slots -> Commands] /\ BusyHolds'
    BY <2>1, SlotFacts, DispatchShape
  <2> QED
    BY <1>4, <2>2 DEF SendInput, Shape, TypeOK, dbVars, workerVars
<1>5. CASE Cancel(r)
  <2>1. Dispatch(Slot(r, "cancel")) /\ UNCHANGED workerVars
    BY <1>5 DEF Cancel
  <2>2. Close(r, "cancelled", <<>>)
    BY <1>5 DEF Cancel
  <2> QED
    BY <1>2, <1>5, <2>1, <2>2, SlotFacts, DispatchShape, CloseShape
       DEF Cancel, Shape, TypeOK, TerminalStatus, workerVars
<1>6. ASSUME NEW n \in Steps, Approve(r, n) PROVE Shape'
  BY <1>6, SlotFacts, DispatchShape
     DEF Approve, Shape, TypeOK, ApprovalStatus, workerVars
<1>7. ASSUME NEW n \in Steps, Reject(r, n) PROVE Shape'
  <2>1. Close(r, "partial", <<>>)
    BY <1>7 DEF Reject
  <2>2. TypeOK'
    BY <1>2, <1>7, <2>1, CloseShape
       DEF Reject, Shape, TypeOK, ApprovalStatus, CallStatus, TerminalStatus,
           workerVars
  <2>3. BusyHolds'
    BY <1>7 DEF Reject, Shape, BusyHolds, Holds, workerVars
  <2> QED
    BY <2>2, <2>3 DEF Shape
<1> QED
  BY <1>1, <1>3, <1>4, <1>5, <1>6, <1>7

(* What a worker knows of the command it executes. *)
LEMMA BusyFacts ==
  ASSUME Shape, NEW w \in Workers, busy[w]
  PROVE  /\ todo[w] # <<>>
         /\ Head(todo[w]) \in Slots
         /\ Head(todo[w]).run \in Runs
         /\ Head(todo[w]).step \in 0 .. MaxSteps
         /\ snap[w] \in Checkpoints
         /\ cmd[Head(todo[w])] \in Commands
         /\ cmd[Head(todo[w])].st = "processing"
         /\ cmd[Head(todo[w])].by = w
  BY HeadFacts, SlotFacts DEF Shape, BusyHolds, Holds, TypeOK

LEMMA ExecuteShape ==
  ASSUME Shape, NEW w \in Workers, busy[w], Execute(w)
  PROVE  Shape'
<1> USE RuntimeAssumption
<1> DEFINE c == Head(todo[w])
           s == snap[w]
<1>1. /\ c \in Slots /\ c.run \in Runs /\ s \in Checkpoints
      /\ c.act = "resume" => c.step \in Steps
      /\ appr[c.run] \in [Steps -> ApprovalStatus]
      /\ call[c.run] \in [Steps -> CallStatus]
  BY BusyFacts, SlotFacts DEF Shape, TypeOK
<1>2. <<>> \in Seq(EventKinds) /\ <<"route">> \in Seq(EventKinds)
  BY DEF EventKinds
<1>3. s.ver \in Nat /\ s.next \in Nat /\ s.len \in 0 .. MaxTasks
      /\ s.ask \in 0 .. MaxSteps
  BY <1>1 DEF Checkpoints
<1> HIDE DEF c, s
<1>4. CASE StartRun(w)
  <2>1. Succeed(w) /\ UNCHANGED <<effects, faults>>
    BY <1>4 DEF StartRun
  <2>2. CASE Clarify(c.run)
    <3>1. Close(c.run, "partial", <<"route">>)
      BY <2>2 DEF Clarify
    <3> QED
      BY <1>1, <1>2, <2>1, <2>2, <3>1, SucceedShape, CloseShape
         DEF Clarify, Shape, TypeOK, TerminalStatus
  <2>3. ASSUME NEW len \in 1 .. MaxTasks,
               Advance(c.run, [NoCheckpoint EXCEPT !.len = len], <<"route">>,
                       appr[c.run], call[c.run])
        PROVE  Shape'
    <3>1. LET p == [NoCheckpoint EXCEPT !.len = len]
          IN  p.next \in Nat /\ p.len \in 0 .. MaxTasks /\ p.ver \in Nat
      BY DEF NoCheckpoint
    <3> QED
      BY <1>1, <1>2, <2>1, <2>3, <3>1, SucceedShape, AdvanceShape
         DEF Shape, TypeOK
  <2> QED
    BY <1>4, <2>2, <2>3 DEF StartRun, c
<1>5. CASE ContinueInput(w)
  <2>1. /\ Advance(c.run, s, <<>>, appr[c.run], call[c.run])
        /\ Succeed(w) /\ UNCHANGED <<effects, faults>>
    BY <1>5 DEF ContinueInput, c, s
  <2> QED
    BY <1>1, <1>2, <1>3, <2>1, SucceedShape, AdvanceShape DEF Shape, TypeOK
<1>6. CASE ResumeRun(w)
  <2> DEFINE q == [s EXCEPT !.next = @ + 1, !.ask = 0]
             a == Consumed(c.run, c.step)
             k == [call[c.run] EXCEPT ![s.ask] = "succeeded"]
  <2>1. /\ Advance(c.run, q, <<>>, a, k)
        /\ Succeed(w) /\ UNCHANGED faults
        /\ effects' = [effects EXCEPT ![c.run][c.step] = @ + 1]
        /\ c.act = "resume"
    BY <1>6 DEF ResumeRun, CanResume, Processing, c, s
  <2>2. q.next \in Nat /\ q.len \in 0 .. MaxTasks /\ q.ver \in Nat
    BY <1>1, <1>3 DEF Checkpoints
  <2>3. a \in [Steps -> ApprovalStatus] /\ k \in [Steps -> CallStatus]
    <3>1. a \in [Steps -> ApprovalStatus]
      BY <1>1 DEF Consumed, ApprovalStatus
    <3>2. k \in [Steps -> CallStatus]
      BY <1>1 DEF CallStatus
    <3> QED
      BY <3>1, <3>2
  <2>4. effects' \in [Runs -> [Steps -> Nat]]
    <3>1. effects \in [Runs -> [Steps -> Nat]] /\ c.run \in Runs /\ c.step \in Steps
      BY <1>1, <2>1 DEF Shape, TypeOK
    <3>2. [effects[c.run] EXCEPT ![c.step] = @ + 1] \in [Steps -> Nat]
      BY <3>1
    <3> QED
      BY <2>1, <3>1, <3>2
  <2> HIDE DEF q, a, k
  <2> QED
    BY <1>1, <1>2, <2>1, <2>2, <2>3, <2>4, SucceedShape, AdvanceShape
       DEF Shape, TypeOK
<1>7. CASE RefuseArguments(w)
  <2> DEFINE q == Saved(s, s.next, 0, s.failed)
  <2>1. /\ Succeed(w) /\ UNCHANGED <<steps, faults>>
        /\ appr' = appr \/ appr' = [appr EXCEPT ![c.run] =
                                        Consumed(c.run, c.step)]
        /\ \/ effects' = effects
           \/ effects' = [effects EXCEPT ![c.run][c.step] = @ + 1]
        /\ call' = [call EXCEPT ![c.run][s.ask] = "failed"]
        /\ run' = [run EXCEPT ![c.run] = "awaiting_input"]
        /\ ckpt' = [ckpt EXCEPT ![c.run] = q]
        /\ events' = [events EXCEPT ![c.run] = Append(@, "input_required")]
        /\ c.act = "resume"
    BY <1>7 DEF RefuseArguments, CanResume, Processing, c, s
  <2>2. q \in Checkpoints
    BY <1>1, <1>3 DEF Saved, Checkpoints
  <2> HIDE DEF q
  <2>7. effects' \in [Runs -> [Steps -> Nat]]
    <3>1. effects \in [Runs -> [Steps -> Nat]] /\ c.run \in Runs /\ c.step \in Steps
      BY <1>1, <2>1 DEF Shape, TypeOK
    <3>2. [effects[c.run] EXCEPT ![c.step] = @ + 1] \in [Steps -> Nat]
      BY <3>1
    <3> QED
      BY <2>1, <3>1, <3>2
  <2>3. ckpt' \in [Runs -> Checkpoints]
    BY <1>1, <2>1, <2>2 DEF Shape, TypeOK
  <2>4. Consumed(c.run, c.step) \in [Steps -> ApprovalStatus]
    BY <1>1, <2>1 DEF Consumed, ApprovalStatus
  <2>5. /\ appr' \in [Runs -> [Steps -> ApprovalStatus]]
        /\ call' \in [Runs -> [Steps -> CallStatus]]
    <3>1. /\ appr \in [Runs -> [Steps -> ApprovalStatus]]
          /\ call \in [Runs -> [Steps -> CallStatus]] /\ c.run \in Runs
      BY <1>1 DEF Shape, TypeOK
    <3>2. [call[c.run] EXCEPT ![s.ask] = "failed"] \in [Steps -> CallStatus]
      BY <3>1 DEF CallStatus
    <3> QED
      BY <2>1, <2>4, <3>1, <3>2
  <2>6. /\ events' \in [Runs -> Seq(EventKinds)]
        /\ run' \in [Runs -> {"absent"} \cup ActiveStatus \cup TerminalStatus]
    <3>1. events' \in [Runs -> Seq(EventKinds)]
      <4>1. events[c.run] \in Seq(EventKinds) /\ "input_required" \in EventKinds
        BY <1>1 DEF Shape, TypeOK, EventKinds
      <4>2. Append(events[c.run], "input_required") \in Seq(EventKinds)
        BY <4>1
      <4> QED
        BY <1>1, <2>1, <4>2 DEF Shape, TypeOK
    <3>2. run' \in [Runs -> {"absent"} \cup ActiveStatus \cup TerminalStatus]
      BY <1>1, <2>1 DEF Shape, TypeOK, ActiveStatus
    <3> QED
      BY <3>1, <3>2
  <2> QED
    BY <1>1, <2>1, <2>3, <2>5, <2>6, <2>7, SucceedShape DEF Shape, TypeOK
<1>8. CASE CancelRun(w)
  <2>1. /\ Succeed(w) /\ UNCHANGED <<steps, appr, call, effects, faults>>
        /\ Close(c.run, "cancelled", <<>>) \/ UNCHANGED <<run, ckpt, events>>
    BY <1>8 DEF CancelRun, c
  <2>2. /\ run' \in [Runs -> {"absent"} \cup ActiveStatus \cup TerminalStatus]
        /\ ckpt' \in [Runs -> Checkpoints]
        /\ events' \in [Runs -> Seq(EventKinds)]
    BY <1>1, <1>2, <2>1, CloseShape DEF Shape, TypeOK, TerminalStatus
  <2> QED
    BY <2>1, <2>2, SucceedShape DEF Shape, TypeOK
<1>9. CASE Fail(w)
  <2>1. /\ \E row \in Commands : cmd' = [cmd EXCEPT ![c] = row]
        /\ Close(c.run, "failed", <<>>) \/ UNCHANGED <<run, ckpt, events>>
        /\ Release(w) /\ UNCHANGED <<steps, appr, call, effects, faults>>
    <3>1. cmd[c].att \in 0 .. MaxAttempts
      BY BusyFacts DEF c, Commands
    <3>2. Row("pending", cmd[c].att) \in Commands /\ Row("failed", 0) \in Commands
      BY <3>1, RowShape
    <3> QED
      BY <1>9, <3>2 DEF Fail, GiveUp, c
  <2>2. /\ run' \in [Runs -> {"absent"} \cup ActiveStatus \cup TerminalStatus]
        /\ ckpt' \in [Runs -> Checkpoints]
        /\ events' \in [Runs -> Seq(EventKinds)]
    BY <1>1, <1>2, <2>1, CloseShape DEF Shape, TypeOK, TerminalStatus
  <2>3. cmd' \in [Slots -> Commands]
    BY <1>1, <2>1 DEF Shape, TypeOK
  <2>4. \A d \in Slots : d # c => cmd'[d] = cmd[d]
    BY <2>1 DEF Shape, TypeOK
  <2>5. BusyHolds'
    BY <2>1, <2>4, OthersKeepLeases DEF c
  <2> QED
    BY <2>1, <2>2, <2>3, <2>5, BusyFacts, ReleaseShape DEF Shape, TypeOK
<1> QED
  BY <1>4, <1>5, <1>6, <1>7, <1>8, <1>9 DEF Execute

(* Beginning, skipping and losing a command. *)
LEMMA WorkerShape ==
  ASSUME Shape, NEW w \in Workers, Begin(w) \/ Skip(w) \/ Abort(w) \/ Crash(w)
  PROVE  Shape'
<1> USE RuntimeAssumption
<1>1. NoCheckpoint \in Checkpoints
  BY DEF NoCheckpoint, Checkpoints
<1>2. CASE Begin(w)
  <2>1. TypeOK'
    BY <1>2, HeadFacts, SlotFacts DEF Begin, Shape, TypeOK, dbVars
  <2>2. BusyHolds'
    BY <1>2 DEF Begin, Shape, TypeOK, BusyHolds, Holds
  <2> QED
    BY <2>1, <2>2 DEF Shape
<1>3. CASE Skip(w)
  <2>1. TypeOK'
    BY <1>3, HeadFacts DEF Skip, Shape, TypeOK, dbVars
  <2>2. BusyHolds'
    BY <1>3 DEF Skip, Shape, TypeOK, BusyHolds, Holds
  <2> QED
    BY <2>1, <2>2 DEF Shape
<1>4. CASE Abort(w)
  <2>1. Release(w) /\ busy[w] /\ todo[w] # <<>> /\ UNCHANGED <<dbVars, cmd>>
        /\ faults' \in 0 .. MaxFaults
    BY <1>4 DEF Abort, Shape, BusyHolds, TypeOK
  <2>2. BusyHolds'
    BY <2>1, OthersKeepLeases
  <2> QED
    BY <2>1, <2>2, ReleaseShape DEF Shape, TypeOK, dbVars
<1>5. CASE Crash(w)
  <2>1. TypeOK'
    BY <1>1, <1>5 DEF Crash, Shape, TypeOK, dbVars
  <2>2. BusyHolds'
    BY <1>5 DEF Crash, Shape, TypeOK, BusyHolds, Holds
  <2> QED
    BY <2>1, <2>2 DEF Shape
<1> QED
  BY <1>2, <1>3, <1>4, <1>5

LEMMA ClockShape ==
  ASSUME Shape, Clock \/ \E c \in Slots : WorkerStalls(c)
  PROVE  Shape'
<1> USE RuntimeAssumption
<1>1. ASSUME NEW r \in Runs, CheckpointLapses(r) PROVE Shape'
  <2>1. ckpt[r] \in Checkpoints
    BY DEF Shape, TypeOK
  <2>2. [ckpt[r] EXCEPT !.old = TRUE] \in Checkpoints
    BY <2>1 DEF Checkpoints
  <2>3. ckpt' \in [Runs -> Checkpoints]
    BY <1>1, <2>2 DEF CheckpointLapses, Shape, TypeOK
  <2> QED
    BY <1>1, <2>3 DEF CheckpointLapses, Shape, TypeOK, BusyHolds, Holds,
                      workerVars
<1>2. ASSUME NEW r \in Runs, NEW n \in Steps, ApprovalLapses(r, n) PROVE Shape'
  <2>1. PICK status \in ApprovalStatus :
           appr' = [appr EXCEPT ![r][n] = status]
    BY <1>2 DEF ApprovalLapses, ApprovalStatus
  <2>2. appr' \in [Runs -> [Steps -> ApprovalStatus]]
    BY <2>1 DEF Shape, TypeOK
  <2> QED
    BY <1>2, <2>2 DEF ApprovalLapses, Shape, TypeOK, BusyHolds, Holds,
                      workerVars
<1>3. ASSUME NEW c \in Slots, LeaseLapses(c) PROVE Shape'
  BY <1>3, LapseShape DEF LeaseLapses, Shape, TypeOK, dbVars, workerVars
<1>4. ASSUME NEW c \in Slots, WorkerStalls(c) PROVE Shape'
  <2>1. faults' \in 0 .. MaxFaults
    BY <1>4 DEF WorkerStalls, Shape, TypeOK
  <2>2. cmd' = [cmd EXCEPT ![c].stale = TRUE] /\ UNCHANGED workerVars
    BY <1>4 DEF WorkerStalls
  <2>3. cmd' \in [Slots -> Commands] /\ BusyHolds'
    BY <2>2, LapseShape
  <2> QED
    BY <1>4, <2>1, <2>3 DEF WorkerStalls, Shape, TypeOK, dbVars, workerVars
<1> QED
  BY <1>1, <1>2, <1>3, <1>4 DEF Clock

(* Only a worker that is executing a command can execute it. *)
LEMMA ExecuteBusy ==
  \A w \in Workers : Execute(w) => busy[w]
  BY DEF Execute, StartRun, ContinueInput, ResumeRun, RefuseArguments,
         CancelRun, Fail, CanResume, Processing

LEMMA ShapeStep == Shape /\ [Next]_vars => Shape'
<1> SUFFICES ASSUME Shape, [Next]_vars PROVE Shape'
  OBVIOUS
<1>1. CASE UNCHANGED vars
  BY <1>1 DEF vars, dbVars, workerVars, Shape, TypeOK, BusyHolds, Holds
<1>2. CASE Next
  BY <1>2, RequestShape, PollShape, ExecuteBusy, ExecuteShape, WorkerShape,
     ClockShape DEF Next
<1> QED
  BY <1>1, <1>2

(* Every row and every worker keeps its shape: no handler writes a status, *)
(* a step number, a checkpoint position or an attempt count its column     *)
(* does not admit, whatever the interleaving.                              *)
THEOREM TypeCorrect == Spec => []TypeOK
<1>1. Spec => []Shape
  BY ShapeInit, ShapeStep, PTL DEF Spec
<1> QED
  BY <1>1, PTL DEF Shape

-----------------------------------------------------------------------------
(* The inductive invariant behind the safety properties *)

(* A step that has not been appended has neither a call nor an approval. *)
FreshSteps == \A r \in Runs, n \in Steps :
    n > steps[r] => appr[r][n] = "none" /\ call[r][n] = "none"

(* A run that waits for an approval has exactly one waiting call, that of  *)
(* its latest step; any other open run has none.                           *)
WaitingCall == \A r \in Runs :
    /\ run[r] = "awaiting_approval" => steps[r] \in Steps
    /\ ~Closed(r) => \A n \in Steps :
          call[r][n] = "awaiting_approval" <=>
              run[r] = "awaiting_approval" /\ n = steps[r]

IInv == /\ Shape
        /\ FreshSteps
        /\ WaitingCall
        /\ CommandFitsRun
        /\ NoRunLeftBehind
        /\ PendingApprovalIsCurrent
        /\ EffectConsumesApproval

(* The invariant is about each run by itself, its commands included. *)
Fresh(r) == \A n \in Steps :
    n > steps[r] => appr[r][n] = "none" /\ call[r][n] = "none"
Waits(r) ==
    /\ run[r] = "awaiting_approval" => steps[r] \in Steps
    /\ ~Closed(r) => \A n \in Steps :
          call[r][n] = "awaiting_approval" <=>
              run[r] = "awaiting_approval" /\ n = steps[r]
Fits(r, c) ==
    \/ Closed(r)
    \/ c.act = "start" /\ run[r] = "created"
    \/ c.act = "input" /\ run[r] = "awaiting_input"
    \/ /\ c.act = "resume"
       /\ run[r] = "awaiting_approval"
       /\ c.step = steps[r]
       /\ appr[r][c.step] \in {"approved", "lapsed"}
Driven(r) ==
    /\ run[r] = "created" => IsActive(Slot(r, "start"))
    /\ run[r] = "awaiting_approval" =>
          \/ appr[r][steps[r]] \in {"pending", "overdue"}
          \/ /\ appr[r][steps[r]] \in {"approved", "lapsed"}
             /\ IsActive(ResumeSlot(r, steps[r]))
Current(r) == \A n \in Steps :
    appr[r][n] \in {"pending", "overdue"} /\ ~Closed(r) =>
        run[r] = "awaiting_approval" /\ n = steps[r]
PaidFor(e, k, a) ==
    /\ k = "succeeded" => e = 1
    /\ e # 0 => e = 1 /\ a = "consumed" /\ k \in {"succeeded", "failed"}
Paid(r) == \A n \in Steps : PaidFor(effects[r][n], call[r][n], appr[r][n])

RunInv(r) ==
    /\ Fresh(r)
    /\ Waits(r)
    /\ \A c \in Slots : c.run = r /\ IsActive(c) => Fits(r, c)
    /\ Driven(r)
    /\ Current(r)
    /\ Paid(r)

LEMMA InvByRun == IInv <=> Shape /\ \A r \in Runs : RunInv(r)
<1>1. FreshSteps <=> \A r \in Runs : Fresh(r)
  BY DEF FreshSteps, Fresh
<1>2. WaitingCall <=> \A r \in Runs : Waits(r)
  BY DEF WaitingCall, Waits
<1>3. CommandFitsRun <=>
        \A r \in Runs : \A c \in Slots : c.run = r /\ IsActive(c) => Fits(r, c)
  BY SlotFacts DEF CommandFitsRun, Fits
<1>4. NoRunLeftBehind <=> \A r \in Runs : Driven(r)
  BY DEF NoRunLeftBehind, Driven
<1>5. PendingApprovalIsCurrent <=> \A r \in Runs : Current(r)
  BY DEF PendingApprovalIsCurrent, Current
<1>6. EffectConsumesApproval <=> \A r \in Runs : Paid(r)
  BY DEF EffectConsumesApproval, Paid, PaidFor
<1> QED
  BY <1>1, <1>2, <1>3, <1>4, <1>5, <1>6 DEF IInv, RunInv

(* A step that leaves a run and its outbox alone preserves its invariant. *)
Untouched(r) ==
    /\ run'[r] = run[r]
    /\ steps'[r] = steps[r]
    /\ appr'[r] = appr[r]
    /\ call'[r] = call[r]
    /\ effects'[r] = effects[r]
    /\ \A c \in Slots : c.run = r => ((IsActive(c))' <=> IsActive(c))

LEMMA Frame ==
  ASSUME NEW r \in Runs, RunInv(r), Untouched(r)
  PROVE  RunInv(r)'
<1>1. Fresh(r)' /\ Waits(r)' /\ Current(r)' /\ Paid(r)'
  BY DEF RunInv, Untouched, Fresh, Waits, Current, Paid, Closed
<1>2. (\A c \in Slots : c.run = r /\ IsActive(c) => Fits(r, c))'
  BY DEF RunInv, Untouched, Fits, Closed
<1>3. Driven(r)'
  <2>1. /\ Slot(r, "start") \in Slots /\ Slot(r, "start").run = r
        /\ \A n \in Steps : /\ ResumeSlot(r, n) \in Slots
                            /\ ResumeSlot(r, n).run = r
    BY SlotFacts DEF Slot, ResumeSlot
  <2>2. run[r] = "awaiting_approval" => steps[r] \in Steps
    BY DEF RunInv, Waits
  <2> QED
    BY <2>1, <2>2 DEF RunInv, Untouched, Driven, Slot, ResumeSlot
<1> QED
  BY <1>1, <1>2, <1>3 DEF RunInv

(* Once closed, a run owes only what its steps and effects record. *)
LEMMA ClosedInv ==
  ASSUME NEW r \in Runs, run'[r] \in TerminalStatus, Fresh(r)', Paid(r)'
  PROVE  RunInv(r)'
<1>1. Closed(r)' /\ run'[r] # "created" /\ run'[r] # "awaiting_approval"
  BY DEF Closed, TerminalStatus
<1> QED
  BY <1>1 DEF RunInv, Waits, Fits, Driven, Current, Closed

(* The status of an open run names the one command that may drive it. *)
LEMMA OneCommand ==
  ASSUME NEW r \in Runs, RunInv(r), ~Closed(r),
         NEW c \in Slots, NEW d \in Slots, c.run = r, d.run = r,
         IsActive(c), IsActive(d)
  PROVE  c = d
<1>1. Fits(r, c) /\ Fits(r, d)
  BY DEF RunInv
<1>2. c.act = d.act /\ c.step = d.step
  BY <1>1 DEF Fits, Slots, Closed
<1> QED
  BY <1>2 DEF Slots

-----------------------------------------------------------------------------
(* Requests preserve the invariant *)

LEMMA CreateInv ==
  ASSUME IInv, NEW r \in Runs, Create(r), NEW q \in Runs
  PROVE  RunInv(q)'
<1> USE RuntimeAssumption
<1>1. Shape /\ RunInv(q) /\ RunInv(r)
  BY InvByRun
<1>2. Slot(r, "start") \in Slots
  BY SlotFacts
<1>3. CASE q # r
  <2>1. Untouched(q)
    BY <1>1, <1>2, <1>3
       DEF Create, Dispatch, Untouched, IsActive, Shape, TypeOK, Slot
  <2> QED
    BY <1>1, <2>1, Frame
<1>4. CASE q = r
  <2>1. \A c \in Slots : c.run = r => ~IsActive(c)
    BY <1>1 DEF RunInv, Fits, Create, Closed, TerminalStatus
  <2>2. run'[r] = "created"
    BY <1>1 DEF Create, Shape, TypeOK
  <2>3. \A c \in Slots : c.run = r /\ (IsActive(c))' => c = Slot(r, "start")
    BY <1>1, <1>2, <2>1 DEF Create, Dispatch, IsActive, Shape, TypeOK
  <2>4. (IsActive(Slot(r, "start")))'
    BY <1>1, <1>2 DEF Create, Dispatch, IsActive, Row, Shape, TypeOK, Slot
  <2>5. /\ UNCHANGED <<steps, appr, call, effects>>
        /\ ~Closed(r) /\ run[r] # "awaiting_approval"
    BY DEF Create, Closed, TerminalStatus
  <2>6. Fresh(r)' /\ Paid(r)' /\ Current(r)'
    BY <1>1, <2>5 DEF RunInv, Fresh, Paid, Current
  <2>7. Waits(r)' /\ Driven(r)'
    BY <1>1, <2>2, <2>4, <2>5 DEF RunInv, Waits, Driven, Slot
  <2>8. \A c \in Slots : c.run = r /\ (IsActive(c))' => (Fits(r, c))'
    BY <2>2, <2>3 DEF Fits, Slot
  <2> QED
    BY <1>4, <2>6, <2>7, <2>8 DEF RunInv
<1> QED
  BY <1>3, <1>4

LEMMA SendInputInv ==
  ASSUME IInv, NEW r \in Runs, SendInput(r), NEW q \in Runs
  PROVE  RunInv(q)'
<1>1. Shape /\ RunInv(q)
  BY InvByRun
<1>2. Slot(r, "input") \in Slots
  BY SlotFacts
<1>3. CASE q # r
  <2>1. Untouched(q)
    BY <1>1, <1>2, <1>3
       DEF SendInput, Dispatch, Untouched, IsActive, Shape, TypeOK, Slot, dbVars
  <2> QED
    BY <1>1, <2>1, Frame
<1>4. CASE q = r
  <2>1. \A c \in Slots : c.run = r /\ (IsActive(c))' =>
           c = Slot(r, "input") \/ IsActive(c)
    BY <1>1, <1>2 DEF SendInput, Dispatch, IsActive, Shape, TypeOK
  <2>2. UNCHANGED <<run, steps, appr, call, effects>>
        /\ run[r] = "awaiting_input"
    BY DEF SendInput, dbVars
  <2>3. \A c \in Slots : c.run = r /\ (IsActive(c))' => (Fits(r, c))'
    BY <1>1, <1>4, <2>1, <2>2 DEF RunInv, Fits, Slot, Closed
  <2>4. /\ Fresh(r)' /\ Waits(r)' /\ Current(r)' /\ Paid(r)' /\ Driven(r)'
    BY <1>1, <1>4, <2>2
       DEF RunInv, Fresh, Waits, Current, Paid, Driven, Closed
  <2> QED
    BY <1>4, <2>3, <2>4 DEF RunInv
<1> QED
  BY <1>3, <1>4

LEMMA CancelInv ==
  ASSUME IInv, NEW r \in Runs, Cancel(r), NEW q \in Runs
  PROVE  RunInv(q)'
<1>1. Shape /\ RunInv(q)
  BY InvByRun
<1>2. Slot(r, "cancel") \in Slots
  BY SlotFacts
<1>3. CASE q # r
  <2>1. Untouched(q)
    BY <1>1, <1>2, <1>3
       DEF Cancel, Close, Dispatch, Untouched, IsActive, Shape, TypeOK, Slot
  <2> QED
    BY <1>1, <2>1, Frame
<1>4. CASE q = r
  <2>1. run'[r] \in TerminalStatus
    BY <1>1 DEF Cancel, Close, Shape, TypeOK, TerminalStatus
  <2>2. Fresh(r)' /\ Paid(r)'
    BY <1>1, <1>4 DEF Cancel, RunInv, Fresh, Paid
  <2> QED
    BY <1>4, <2>1, <2>2, ClosedInv
<1> QED
  BY <1>3, <1>4

LEMMA ApproveInv ==
  ASSUME IInv, NEW r \in Runs, NEW n \in Steps, Approve(r, n), NEW q \in Runs
  PROVE  RunInv(q)'
<1> DEFINE c == ResumeSlot(r, n)
<1>1. Shape /\ RunInv(q)
  BY InvByRun
<1>2. c \in Slots /\ c.run = r /\ c.act = "resume" /\ c.step = n
  BY SlotFacts DEF ResumeSlot
<1>3. /\ UNCHANGED <<run, steps, call, effects>>
      /\ appr[r][n] = "pending"
      /\ appr' = [appr EXCEPT ![r][n] = "approved"]
      /\ Dispatch(c)
  BY DEF Approve
<1> HIDE DEF c
<1>4. CASE q # r
  <2>1. Untouched(q)
    BY <1>1, <1>2, <1>3, <1>4
       DEF Dispatch, Untouched, IsActive, Shape, TypeOK
  <2> QED
    BY <1>1, <2>1, Frame
<1>5. CASE q = r
  <2>1. /\ appr'[r][n] = "approved"
        /\ \A m \in Steps : m # n => appr'[r][m] = appr[r][m]
    BY <1>3 DEF Shape, TypeOK, IInv
  <2>2. \A d \in Slots : d.run = r /\ (IsActive(d))' => d = c \/ IsActive(d)
    BY <1>1, <1>2, <1>3 DEF Dispatch, IsActive, Shape, TypeOK
  <2>3. (IsActive(c))'
    BY <1>1, <1>2, <1>3 DEF Dispatch, IsActive, Row, Shape, TypeOK
  <2>4. ~Closed(r) => run[r] = "awaiting_approval" /\ n = steps[r]
    BY <1>1, <1>3, <1>5 DEF RunInv, Current
  <2>5. ~Closed(r) => \A d \in Slots : d.run = r => ~IsActive(d)
    BY <1>1, <1>3, <1>5, <2>4 DEF RunInv, Fits
  <2>6. Fresh(r)' /\ Paid(r)'
    BY <1>1, <1>3, <1>5, <2>1 DEF RunInv, Fresh, Paid, PaidFor
  <2>7. CASE Closed(r)
    BY <1>3, <1>5, <2>6, <2>7, ClosedInv DEF Closed
  <2>8. CASE ~Closed(r)
    <3>1. Waits(r)'
      BY <1>1, <1>3, <1>5 DEF RunInv, Waits, Closed
    <3>2. Current(r)'
      BY <1>1, <1>3, <1>5, <2>1, <2>4, <2>8 DEF RunInv, Current, Closed
    <3>3. \A d \in Slots : d.run = r /\ (IsActive(d))' => (Fits(r, d))'
      BY <1>2, <1>3, <2>1, <2>2, <2>4, <2>5, <2>8 DEF Fits
    <3>4. Driven(r)'
      BY <1>1, <1>3, <2>1, <2>3, <2>4, <2>8 DEF Driven, c
    <3> QED
      BY <1>5, <2>6, <3>1, <3>2, <3>3, <3>4 DEF RunInv
  <2> QED
    BY <2>7, <2>8
<1> QED
  BY <1>4, <1>5

LEMMA RejectInv ==
  ASSUME IInv, NEW r \in Runs, NEW n \in Steps, Reject(r, n), NEW q \in Runs
  PROVE  RunInv(q)'
<1>1. Shape /\ RunInv(q)
  BY InvByRun
<1>2. CASE q # r
  <2>1. Untouched(q)
    BY <1>1, <1>2
       DEF Reject, Close, Untouched, IsActive, Shape, TypeOK
  <2> QED
    BY <1>1, <2>1, Frame
<1>3. CASE q = r
  <2>1. run'[r] \in TerminalStatus
    BY <1>1 DEF Reject, Close, Shape, TypeOK, TerminalStatus
  <2>2. /\ UNCHANGED <<steps, effects>>
        /\ appr[r][n] = "pending" /\ call[r][n] = "awaiting_approval"
        /\ appr'[r][n] = "rejected" /\ call'[r][n] = "rejected"
        /\ \A m \in Steps : m # n => /\ appr'[r][m] = appr[r][m]
                                     /\ call'[r][m] = call[r][m]
    BY <1>1 DEF Reject, Shape, TypeOK
  <2>3. Fresh(r)' /\ Paid(r)'
    BY <1>1, <1>3, <2>2 DEF RunInv, Fresh, Paid, PaidFor
  <2> QED
    BY <1>3, <2>1, <2>3, ClosedInv
<1> QED
  BY <1>2, <1>3

-----------------------------------------------------------------------------
(* A poll preserves the invariant: what it expires it closes *)

LEMMA PollInv ==
  ASSUME IInv, NEW w \in Workers, Poll(w), NEW r \in Runs
  PROVE  RunInv(r)'
<1>1. Shape /\ RunInv(r)
  BY InvByRun
<1>2. PICK batch \in Batches :
        cmd' = [c \in Slots |-> IF \E i \in DOMAIN batch : batch[i] = c
                                THEN Claimed(c, w) ELSE cmd[c]]
  BY DEF Poll
<1>3. \A c \in Slots : (IsActive(c))' <=> IsActive(c)
  BY <1>2, BatchFacts DEF IsActive, Claimed, Claimable
<1>4. /\ UNCHANGED <<steps, effects>>
      /\ run'[r] = IF ClosedByExpiry(r) THEN "partial" ELSE run[r]
      /\ \A n \in Steps :
           /\ appr'[r][n] = IF appr[r][n] = "overdue" THEN "expired"
                            ELSE appr[r][n]
           /\ call'[r][n] = IF appr[r][n] = "overdue"
                               /\ call[r][n] = "awaiting_approval"
                            THEN "expired" ELSE call[r][n]
  BY DEF Poll, ExpireDue
<1>5. Fresh(r)' /\ Paid(r)'
  BY <1>1, <1>4 DEF RunInv, Fresh, Paid, PaidFor
<1>6. CASE run'[r] \in TerminalStatus
  BY <1>5, <1>6, ClosedInv
<1>7. CASE run'[r] \notin TerminalStatus
  <2>1. ~ClosedByExpiry(r) /\ run'[r] = run[r] /\ ~Closed(r)
    BY <1>4, <1>7 DEF TerminalStatus, Closed
  <2>2. \A n \in Steps : appr[r][n] # "overdue"
    BY <1>1, <2>1 DEF RunInv, Current, Waits, ClosedByExpiry, ActiveStatus
  <2>3. \A n \in Steps : appr'[r][n] = appr[r][n] /\ call'[r][n] = call[r][n]
    BY <1>4, <2>2
  <2>4. appr'[r] = appr[r] /\ call'[r] = call[r]
    BY <1>1, <2>3, PollShape DEF Shape, TypeOK
  <2>5. Untouched(r)
    BY <1>3, <1>4, <2>1, <2>4 DEF Untouched
  <2> QED
    BY <1>1, <2>5, Frame
<1> QED
  BY <1>6, <1>7

-----------------------------------------------------------------------------
(* Executing a command preserves the invariant *)

(* After the only command of an open run, none is left. *)
LEMMA SucceedLast ==
  ASSUME Shape, NEW w \in Workers, busy[w], Succeed(w),
         RunInv(Head(todo[w]).run)
  PROVE  /\ ~Closed(Head(todo[w]).run) =>
              \A d \in Slots : d.run = Head(todo[w]).run => ~(IsActive(d))'
         /\ \A d \in Slots : d # Head(todo[w]) => cmd'[d] = cmd[d]
         /\ \A d \in Slots : (IsActive(d))' => IsActive(d)
<1> DEFINE c == Head(todo[w])
<1>1. /\ c \in Slots /\ c.run \in Runs /\ IsActive(c)
  BY BusyFacts DEF IsActive
<1>2. \A d \in Slots : d # c => cmd'[d] = cmd[d]
  BY DEF Succeed, Shape, TypeOK
<1>3. cmd'[c].st = "succeeded"
  BY <1>1 DEF Succeed, Shape, TypeOK, Row
<1>4. \A d \in Slots : (IsActive(d))' => d # c /\ IsActive(d)
  BY <1>2, <1>3 DEF IsActive
<1>5. ~Closed(c.run) => \A d \in Slots : d.run = c.run => ~(IsActive(d))'
  BY <1>1, <1>4, OneCommand
<1> QED
  BY <1>2, <1>4, <1>5

(* Advancing the plan of a run none of whose calls waits. *)
LEMMA AdvanceInv ==
  ASSUME Shape, NEW r \in Runs, NEW s, s.next \in Nat, s.len \in Nat,
         NEW log,
         NEW apprAfter \in [Steps -> ApprovalStatus],
         NEW callAfter \in [Steps -> CallStatus],
         Advance(r, s, log, apprAfter, callAfter),
         \A n \in Steps : n > steps[r] => apprAfter[n] = "none"
                                          /\ callAfter[n] = "none",
         \A n \in Steps : /\ apprAfter[n] \notin {"pending", "overdue"}
                          /\ callAfter[n] # "awaiting_approval",
         \A n \in Steps :
            PaidFor(effects'[r][n], callAfter[n], apprAfter[n]),
         \A c \in Slots : c.run = r => ~(IsActive(c))'
  PROVE  RunInv(r)'
<1> USE RuntimeAssumption
<1> DEFINE
      Keep == /\ appr' = [appr EXCEPT ![r] = apprAfter]
              /\ call' = [call EXCEPT ![r] = callAfter]
      Finish(done, failed) == FinishPlan(r, s, done, failed, log) /\ Keep
      Ask(done, failed) ==
          StopAt(r, s, done, failed, log, "awaiting_input",
                 "input_required", 0) /\ Keep
      Seek(done, failed) ==
          /\ StopAt(r, s, done, failed, log, "awaiting_approval",
                    "approval_required", steps[r] + done + 1)
          /\ appr' = [appr EXCEPT ![r] =
                 [apprAfter EXCEPT ![steps[r] + done + 1] = "pending"]]
          /\ call' = [call EXCEPT ![r] =
                 [callAfter EXCEPT ![steps[r] + done + 1] =
                      "awaiting_approval"]]
<1>1. PICK done \in 0 .. MaxTasks, failed \in BOOLEAN :
        Finish(done, failed) \/ Ask(done, failed) \/ Seek(done, failed)
  BY Zenon DEF Advance
<1>2. steps[r] \in 0 .. MaxSteps /\ done \in Nat
  BY DEF Shape, TypeOK
<1>3. Keep => appr'[r] = apprAfter /\ call'[r] = callAfter
  BY DEF Shape, TypeOK
<1>4. \A c \in Slots : c.run = r /\ (IsActive(c))' => (Fits(r, c))'
  OBVIOUS
<1>5. CASE Finish(done, failed)
  <2>1. steps'[r] = steps[r] + done /\ run'[r] \in TerminalStatus
    BY <1>5 DEF FinishPlan, Close, Shape, TypeOK, TerminalStatus
  <2>2. Fresh(r)'
    BY <1>2, <1>3, <1>5, <2>1 DEF Fresh, Steps
  <2>3. Paid(r)'
    BY <1>3, <1>5 DEF Paid
  <2> QED
    BY <2>1, <2>2, <2>3, ClosedInv
<1>6. CASE Ask(done, failed)
  <2>1. steps'[r] = steps[r] + done + 1 /\ run'[r] = "awaiting_input"
    BY <1>6 DEF StopAt, Shape, TypeOK
  <2>2. Fresh(r)'
    BY <1>2, <1>3, <1>6, <2>1 DEF Fresh, Steps
  <2>3. Paid(r)'
    BY <1>3, <1>6 DEF Paid
  <2>4. Waits(r)' /\ Driven(r)' /\ Current(r)'
    BY <1>3, <1>6, <2>1 DEF Waits, Driven, Current
  <2> QED
    BY <1>4, <2>2, <2>3, <2>4 DEF RunInv
<1>7. CASE Seek(done, failed)
  <2> DEFINE n == steps[r] + done + 1
  <2>1. /\ steps'[r] = n /\ run'[r] = "awaiting_approval"
        /\ n \in Steps /\ n > steps[r]
    <3>1. StopAt(r, s, done, failed, log, "awaiting_approval", "approval_required", n)
      BY <1>7
    <3>2. n \in 1 .. MaxSteps /\ n > steps[r]
      BY <1>2, <3>1 DEF StopAt
    <3>3. steps'[r] = n /\ run'[r] = "awaiting_approval"
      BY <3>1 DEF StopAt, Shape, TypeOK
    <3> QED
      BY <3>2, <3>3 DEF Steps
  <2>2. /\ appr'[r] = [apprAfter EXCEPT ![n] = "pending"]
        /\ call'[r] = [callAfter EXCEPT ![n] = "awaiting_approval"]
    BY <1>7 DEF Shape, TypeOK
  <2> HIDE DEF n
  <2>3. /\ appr'[r][n] = "pending" /\ call'[r][n] = "awaiting_approval"
        /\ \A m \in Steps : m # n => /\ appr'[r][m] = apprAfter[m]
                                     /\ call'[r][m] = callAfter[m]
    BY <2>1, <2>2
  <2>4. Fresh(r)'
    BY <1>2, <2>1, <2>3 DEF Fresh, Steps
  <2>5. Paid(r)'
    <3> SUFFICES ASSUME NEW m \in Steps
                 PROVE  PaidFor(effects'[r][m], call'[r][m], appr'[r][m])
      BY DEF Paid
    <3>1. PaidFor(effects'[r][m], callAfter[m], apprAfter[m])
      OBVIOUS
    <3>2. m = n => callAfter[m] = "none"
      BY <2>1
    <3> QED
      BY <2>1, <2>3, <3>1, <3>2 DEF PaidFor
  <2>6. Waits(r)' /\ Driven(r)' /\ Current(r)'
    BY <2>1, <2>3 DEF Waits, Driven, Current
  <2> QED
    BY <1>4, <2>4, <2>5, <2>6 DEF RunInv
<1> QED
  BY <1>1, <1>5, <1>6, <1>7

(* Advancing a run leaves the others alone. *)
LEMMA AdvanceOthers ==
  ASSUME Shape, NEW r \in Runs, NEW s, NEW log, NEW apprAfter, NEW callAfter,
         Advance(r, s, log, apprAfter, callAfter),
         NEW q \in Runs, q # r
  PROVE  /\ run'[q] = run[q]
         /\ steps'[q] = steps[q]
         /\ appr'[q] = appr[q]
         /\ call'[q] = call[q]
<1>1. PICK done \in 0 .. MaxTasks, failed \in BOOLEAN :
        /\ \/ FinishPlan(r, s, done, failed, log)
           \/ \E status, event, ask :
                StopAt(r, s, done, failed, log, status, event, ask)
        /\ \E a : appr' = [appr EXCEPT ![r] = a]
        /\ \E k : call' = [call EXCEPT ![r] = k]
  BY Zenon DEF Advance
<1> QED
  BY <1>1 DEF FinishPlan, StopAt, Close, Shape, TypeOK

(* A command acts on its own run only. *)
LEMMA ExecuteOthers ==
  ASSUME Shape, NEW w \in Workers, busy[w], Execute(w),
         NEW q \in Runs, q # Head(todo[w]).run
  PROVE  Untouched(q)
<1> DEFINE c == Head(todo[w])
<1>1. c \in Slots /\ c.run \in Runs
  BY BusyFacts
<1> HIDE DEF c
<1>2. \A d \in Slots : d.run = q => cmd'[d] = cmd[d]
  BY <1>1 DEF c, Execute, StartRun, ContinueInput, ResumeRun, RefuseArguments,
              CancelRun, Fail, Succeed, Shape, TypeOK
<1>3. \A d \in Slots : d.run = q => ((IsActive(d))' <=> IsActive(d))
  BY <1>2 DEF IsActive
<1>4. effects'[q] = effects[q]
  BY <1>1 DEF c, Execute, StartRun, ContinueInput, ResumeRun, RefuseArguments,
              CancelRun, Fail, Shape, TypeOK
<1>5. /\ run'[q] = run[q]
      /\ steps'[q] = steps[q]
      /\ appr'[q] = appr[q]
      /\ call'[q] = call[q]
  <2>1. CASE \E s, log, a, k : Advance(c.run, s, log, a, k)
    BY <1>1, <2>1, AdvanceOthers DEF c
  <2>2. CASE Clarify(c.run) \/ RefuseArguments(w) \/ CancelRun(w) \/ Fail(w)
    BY <1>1, <2>2 DEF c, Clarify, RefuseArguments, CancelRun, Fail, GiveUp,
                      Close, Shape, TypeOK
  <2> QED
    BY <2>1, <2>2 DEF c, Execute, StartRun, ContinueInput, ResumeRun
<1> QED
  BY <1>3, <1>4, <1>5 DEF Untouched

LEMMA ExecuteInv ==
  ASSUME IInv, NEW w \in Workers, busy[w], Execute(w),
         NEW c \in Slots, c = Head(todo[w]), NEW r \in Runs, r = c.run
  PROVE  RunInv(r)'
<1> USE RuntimeAssumption
<1> PICK s : s = snap[w]
  OBVIOUS
<1>1. /\ Shape /\ c \in Slots /\ r \in Runs /\ RunInv(r)
      /\ c.act = "resume" => c.step \in Steps
      /\ IsActive(c) /\ s \in Checkpoints
      /\ appr[r] \in [Steps -> ApprovalStatus]
      /\ call[r] \in [Steps -> CallStatus]
      /\ effects[r] \in [Steps -> Nat]
  BY InvByRun, BusyFacts, SlotFacts DEF IsActive, Shape, TypeOK
<1>2. s.next \in Nat /\ s.len \in Nat /\ s.ask \in 0 .. MaxSteps
  BY <1>1 DEF Checkpoints
<1>3. Fits(r, c)
  BY <1>1 DEF RunInv
<1>4. Succeed(w) => /\ ~Closed(r) => \A d \in Slots :
                           d.run = r => ~(IsActive(d))'
                    /\ \A d \in Slots : (IsActive(d))' => IsActive(d)
                    /\ \A d \in Slots : d # c => cmd'[d] = cmd[d]
  BY <1>1, SucceedLast
<1>5. CASE StartRun(w)
  <2>1. /\ run[r] = "created" /\ ~Closed(r) /\ Succeed(w)
        /\ UNCHANGED effects
        /\ \/ Clarify(r)
           \/ \E len \in 1 .. MaxTasks :
                Advance(r, [NoCheckpoint EXCEPT !.len = len], <<"route">>,
                        appr[r], call[r])
    BY <1>5 DEF StartRun, Closed, TerminalStatus
  <2>2. CASE Clarify(r)
    <3>1. run'[r] \in TerminalStatus
      BY <1>1, <2>2 DEF Clarify, Close, Shape, TypeOK, TerminalStatus
    <3>2. Fresh(r)' /\ Paid(r)'
      BY <1>1, <2>1, <2>2 DEF Clarify, RunInv, Fresh, Paid
    <3> QED
      BY <1>1, <3>1, <3>2, ClosedInv
  <2>3. CASE \E len \in 1 .. MaxTasks :
                Advance(r, [NoCheckpoint EXCEPT !.len = len], <<"route">>,
                        appr[r], call[r])
    <3>1. PICK p : /\ Advance(r, p, <<"route">>, appr[r], call[r])
                   /\ p.next \in Nat /\ p.len \in Nat
      BY <2>3 DEF NoCheckpoint
    <3>2. \A n \in Steps : /\ appr[r][n] \notin {"pending", "overdue"}
                           /\ call[r][n] # "awaiting_approval"
      BY <1>1, <2>1 DEF RunInv, Current, Waits
    <3>3. \A n \in Steps : n > steps[r] =>
             appr[r][n] = "none" /\ call[r][n] = "none"
      BY <1>1 DEF RunInv, Fresh
    <3>4. \A n \in Steps :
             PaidFor(effects'[r][n], call[r][n], appr[r][n])
      BY <1>1, <2>1 DEF RunInv, Paid
    <3>5. \A d \in Slots : d.run = r => ~(IsActive(d))'
      BY <1>4, <2>1
    <3> QED
      BY <1>1, <3>1, <3>2, <3>3, <3>4, <3>5, AdvanceInv, SMTT(30)
  <2> QED
    BY <2>1, <2>2, <2>3
<1>6. CASE ContinueInput(w)
  <2>1. /\ run[r] = "awaiting_input" /\ ~Closed(r) /\ Succeed(w)
        /\ UNCHANGED effects
        /\ Advance(r, s, <<>>, appr[r], call[r])
    BY <1>6 DEF ContinueInput, Closed, TerminalStatus
  <2>2. \A n \in Steps : /\ appr[r][n] \notin {"pending", "overdue"}
                         /\ call[r][n] # "awaiting_approval"
    BY <1>1, <2>1 DEF RunInv, Current, Waits
  <2>3. \A n \in Steps : n > steps[r] =>
           appr[r][n] = "none" /\ call[r][n] = "none"
    BY <1>1 DEF RunInv, Fresh
  <2>4. \A n \in Steps :
           PaidFor(effects'[r][n], call[r][n], appr[r][n])
    BY <1>1, <2>1 DEF RunInv, Paid
  <2>5. \A d \in Slots : d.run = r => ~(IsActive(d))'
    BY <1>4, <2>1
  <2> QED
    <3>1. PICK log : Advance(r, s, log, appr[r], call[r])
      BY <2>1
    <3> QED
      BY <1>1, <1>2, <2>2, <2>3, <2>4, <2>5, <3>1, AdvanceInv
<1>7. CanResume(w) =>
        /\ run[r] = "awaiting_approval" /\ ~Closed(r)
        /\ c.act = "resume" /\ c.step = s.ask /\ s.ask = steps[r]
        /\ s.ask \in Steps
        /\ appr[r][s.ask] \in {"approved", "lapsed"}
        /\ call[r][s.ask] = "awaiting_approval"
  <2> SUFFICES ASSUME CanResume(w)
               PROVE  /\ run[r] = "awaiting_approval" /\ ~Closed(r)
                      /\ c.act = "resume" /\ c.step = s.ask
                      /\ s.ask = steps[r]
                      /\ s.ask \in Steps
                      /\ appr[r][s.ask] \in {"approved", "lapsed"}
                      /\ call[r][s.ask] = "awaiting_approval"
    OBVIOUS
  <2>1. /\ run[r] = "awaiting_approval" /\ c.act = "resume" /\ s.ask # 0
        /\ call[r][s.ask] = "awaiting_approval"
    BY DEF CanResume, Processing
  <2>2. ~Closed(r)
    BY <2>1 DEF Closed, TerminalStatus
  <2>3. s.ask \in Steps
    BY <1>2, <2>1 DEF Steps
  <2>4. s.ask = steps[r]
    BY <1>1, <2>1, <2>2, <2>3 DEF RunInv, Waits
  <2>5. c.step = steps[r] /\ appr[r][c.step] \in {"approved", "lapsed"}
    BY <1>3, <2>1, <2>2 DEF Fits
  <2> QED
    BY <2>1, <2>2, <2>3, <2>4, <2>5
<1>8. CASE ResumeRun(w)
  <2> DEFINE p == [s EXCEPT !.next = @ + 1, !.ask = 0]
             a == Consumed(r, s.ask)
             k == [call[r] EXCEPT ![s.ask] = "succeeded"]
  <2>1. /\ CanResume(w) /\ Succeed(w)
        /\ effects' = [effects EXCEPT ![r][s.ask] = @ + 1]
        /\ Advance(r, p, <<>>, a, k)
    BY <1>7, <1>8 DEF ResumeRun
  <2>2. p.next \in Nat /\ p.len \in Nat
    BY <1>1, <1>2 DEF Checkpoints
  <2>3. /\ a \in [Steps -> ApprovalStatus] /\ a[s.ask] = "consumed"
        /\ \A n \in Steps : n # s.ask => a[n] = appr[r][n]
    BY <1>1, <1>7, <2>1 DEF Consumed, ApprovalStatus
  <2>4. /\ k \in [Steps -> CallStatus] /\ k[s.ask] = "succeeded"
        /\ \A n \in Steps : n # s.ask => k[n] = call[r][n]
    BY <1>1, <1>7, <2>1 DEF CallStatus
  <2> HIDE DEF p, a, k
  <2>0. /\ s.ask \in Steps /\ s.ask = steps[r] /\ run[r] = "awaiting_approval"
        /\ ~Closed(r) /\ call[r][s.ask] = "awaiting_approval"
        /\ Fresh(r) /\ Waits(r) /\ Current(r) /\ Paid(r)
    BY <1>1, <1>7, <2>1 DEF RunInv
  <2>5. /\ effects'[r][s.ask] = effects[r][s.ask] + 1
        /\ \A n \in Steps : n # s.ask => effects'[r][n] = effects[r][n]
    <3>1. effects'[r] = [effects[r] EXCEPT ![s.ask] = @ + 1]
      BY <1>1, <2>1 DEF Shape, TypeOK
    <3>2. s.ask \in Steps
      BY <1>7, <2>1
    <3> QED
      BY <1>1, <3>1, <3>2
  <2>6. \A n \in Steps : n > steps[r] => a[n] = "none" /\ k[n] = "none"
    <3> SUFFICES ASSUME NEW n \in Steps, n > steps[r]
                 PROVE  a[n] = "none" /\ k[n] = "none"
      OBVIOUS
    <3>1. n # s.ask
      BY <1>7, <2>1 DEF Steps
    <3> QED
      BY <1>1, <2>3, <2>4, <3>1 DEF RunInv, Fresh
  <2>7. \A n \in Steps : /\ a[n] \notin {"pending", "overdue"}
                         /\ k[n] # "awaiting_approval"
    BY <2>0, <2>3, <2>4 DEF Current, Waits
  <2>8. effects[r][s.ask] = 0
    BY <1>1, <2>0 DEF Paid, PaidFor
  <2>9. \A n \in Steps :
           PaidFor(effects'[r][n], k[n], a[n])
    <3> SUFFICES ASSUME NEW n \in Steps
                 PROVE  PaidFor(effects'[r][n], k[n], a[n])
      OBVIOUS
    <3>1. CASE n = s.ask
      BY <2>3, <2>4, <2>5, <2>8, <3>1 DEF PaidFor
    <3>2. CASE n # s.ask
      <4>1. effects'[r][n] = effects[r][n] /\ k[n] = call[r][n] /\ a[n] = appr[r][n]
        BY <2>3, <2>4, <2>5, <3>2
      <4> QED
        BY <2>0, <4>1 DEF Paid
    <3> QED
      BY <3>1, <3>2
  <2>10. \A d \in Slots : d.run = r => ~(IsActive(d))'
    BY <1>4, <1>7, <2>1
  <2>11. PICK log : Advance(r, p, log, a, k)
    BY <2>1
  <2> QED
    BY <1>1, <2>2, <2>3, <2>4, <2>6, <2>7, <2>9, <2>10, <2>11, AdvanceInv
<1>9. CASE RefuseArguments(w)
  <2>1. /\ CanResume(w) /\ Succeed(w) /\ UNCHANGED steps
        /\ call' = [call EXCEPT ![r][s.ask] = "failed"]
        /\ run' = [run EXCEPT ![r] = "awaiting_input"]
        /\ appr' = appr \/ appr' = [appr EXCEPT ![r] = Consumed(r, s.ask)]
        /\ \/ effects' = effects
           \/ /\ appr' = [appr EXCEPT ![r] = Consumed(r, s.ask)]
              /\ effects' = [effects EXCEPT ![r][s.ask] = @ + 1]
    BY <1>7, <1>9 DEF RefuseArguments
  <2>0. /\ s.ask \in Steps /\ s.ask = steps[r] /\ run[r] = "awaiting_approval"
        /\ ~Closed(r) /\ call[r][s.ask] = "awaiting_approval"
        /\ Fresh(r) /\ Waits(r) /\ Current(r) /\ Paid(r)
    BY <1>1, <1>7, <2>1 DEF RunInv
  <2>2. run'[r] = "awaiting_input"
    BY <1>1, <2>1 DEF Shape, TypeOK
  <2>3. /\ call'[r][s.ask] = "failed"
        /\ \A n \in Steps : n # s.ask => call'[r][n] = call[r][n]
    BY <1>1, <1>7, <2>1 DEF Shape, TypeOK
  <2>4. /\ appr'[r][s.ask] \in {"approved", "lapsed", "consumed"}
        /\ \A n \in Steps : n # s.ask => appr'[r][n] = appr[r][n]
    <3>1. /\ appr \in [Runs -> [Steps -> ApprovalStatus]] /\ r \in Runs
          /\ s.ask \in Steps
      BY <1>1, <1>7, <2>1 DEF Shape, TypeOK
    <3>2. CASE appr' = appr
      BY <1>7, <2>1, <3>2
    <3>3. CASE appr' = [appr EXCEPT ![r] = Consumed(r, s.ask)]
      <4>1. appr'[r] = [appr[r] EXCEPT ![s.ask] = "consumed"]
        BY <3>1, <3>3 DEF Consumed
      <4>2. appr[r] \in [Steps -> ApprovalStatus]
        BY <3>1
      <4> QED
        BY <3>1, <4>1, <4>2
    <3> QED
      BY <2>1, <3>2, <3>3
  <2>a. steps'[r] = steps[r] /\ steps[r] \in Nat
    BY <1>1, <2>1 DEF Shape, TypeOK
  <2>b. effects[r][s.ask] = 0
    BY <1>1, <2>0 DEF Paid, PaidFor
  <2>c. /\ \/ effects'[r][s.ask] = 0
           \/ effects'[r][s.ask] = 1 /\ appr'[r][s.ask] = "consumed"
        /\ \A n \in Steps : n # s.ask => effects'[r][n] = effects[r][n]
    <3>1. /\ effects \in [Runs -> [Steps -> Nat]]
          /\ appr \in [Runs -> [Steps -> ApprovalStatus]]
      BY <1>1 DEF Shape, TypeOK
    <3>2. CASE effects' = effects
      BY <2>b, <3>2
    <3>3. CASE /\ appr' = [appr EXCEPT ![r] = Consumed(r, s.ask)]
               /\ effects' = [effects EXCEPT ![r][s.ask] = @ + 1]
      <4>1. effects'[r] = [effects[r] EXCEPT ![s.ask] = @ + 1]
        BY <3>1, <3>3
      <4>2. effects[r] \in [Steps -> Nat]
        BY <3>1
      <4>3. appr'[r] = [appr[r] EXCEPT ![s.ask] = "consumed"]
        BY <3>1, <3>3 DEF Consumed
      <4>4. appr[r] \in [Steps -> ApprovalStatus]
        BY <3>1
      <4>5. appr'[r][s.ask] = "consumed"
        BY <2>0, <4>3, <4>4
      <4> QED
        BY <2>0, <2>b, <4>1, <4>2, <4>5
    <3> QED
      BY <2>1, <3>2, <3>3
  <2>5. Fresh(r)'
    BY <2>0, <2>a, <2>3, <2>4 DEF Fresh, Steps
  <2>6. Paid(r)'
    <3> SUFFICES ASSUME NEW n \in Steps
                 PROVE  PaidFor(effects'[r][n], call'[r][n], appr'[r][n])
      BY DEF Paid
    <3>1. CASE n = s.ask
      BY <2>3, <2>c, <3>1 DEF PaidFor
    <3>2. CASE n # s.ask
      <4>1. /\ effects'[r][n] = effects[r][n] /\ call'[r][n] = call[r][n]
            /\ appr'[r][n] = appr[r][n]
        BY <2>3, <2>4, <2>c, <3>2
      <4> QED
        BY <2>0, <4>1 DEF Paid
    <3> QED
      BY <3>1, <3>2
  <2>7. Waits(r)'
    BY <2>0, <2>a, <2>2, <2>3 DEF Waits
  <2>8. Current(r)'
    BY <2>0, <2>4 DEF Current
  <2>9. Driven(r)'
    BY <2>2 DEF Driven
  <2>10. \A d \in Slots : d.run = r => ~(IsActive(d))'
    BY <1>4, <1>7, <2>1
  <2> QED
    BY <2>5, <2>6, <2>7, <2>8, <2>9, <2>10 DEF RunInv
<1>10. CASE CancelRun(w)
  <2>1. Closed(r) /\ Succeed(w)
    BY <1>3, <1>10 DEF CancelRun, Processing, Fits
  <2>2. UNCHANGED <<run, steps, appr, call, effects>>
    BY <1>10, <2>1
       DEF CancelRun, Closed, ActiveStatus, TerminalStatus
  <2>3. Fresh(r)' /\ Paid(r)'
    BY <1>1, <2>2 DEF RunInv, Fresh, Paid
  <2> QED
    BY <1>1, <2>1, <2>2, <2>3, ClosedInv DEF Closed
<1>11. CASE Fail(w)
  <2>1. /\ UNCHANGED <<steps, appr, call, effects>>
        /\ \/ /\ UNCHANGED run
              /\ cmd' = [cmd EXCEPT ![c] = Row("pending", cmd[c].att)]
           \/ Close(r, "failed", <<>>)
           \/ /\ UNCHANGED run
              /\ run[r] \notin ActiveStatus
    BY <1>11 DEF Fail, GiveUp
  <2>2. Fresh(r)' /\ Paid(r)'
    BY <1>1, <2>1 DEF RunInv, Fresh, Paid
  <2>3. CASE run'[r] \in TerminalStatus
    BY <1>1, <2>2, <2>3, ClosedInv
  <2>4. CASE run'[r] \notin TerminalStatus
    <3>1. ~Closed(r) => run[r] \in ActiveStatus
      BY <1>3 DEF Fits, ActiveStatus
    <3>2. /\ UNCHANGED run
          /\ cmd' = [cmd EXCEPT ![c] = Row("pending", cmd[c].att)]
      BY <1>1, <2>1, <2>4, <3>1
         DEF Close, Shape, TypeOK, TerminalStatus, Closed
    <3>3. \A d \in Slots : (IsActive(d))' <=> IsActive(d)
      BY <1>1, <3>2 DEF IsActive, Row, Shape, TypeOK
    <3>4. Untouched(r)
      BY <2>1, <3>2, <3>3 DEF Untouched
    <3> QED
      BY <1>1, <3>4, Frame
  <2> QED
    BY <2>3, <2>4
<1> QED
  BY <1>5, <1>6, <1>8, <1>9, <1>10, <1>11 DEF Execute

-----------------------------------------------------------------------------
(* Workers and the clock preserve the invariant *)

LEMMA WorkerInv ==
  ASSUME IInv, NEW w \in Workers, Begin(w) \/ Skip(w) \/ Abort(w) \/ Crash(w),
         NEW r \in Runs
  PROVE  RunInv(r)'
<1>1. RunInv(r) /\ UNCHANGED <<run, steps, appr, call, effects, cmd>>
  BY InvByRun DEF Begin, Skip, Abort, Crash, dbVars
<1>2. Untouched(r)
  BY <1>1 DEF Untouched, IsActive
<1> QED
  BY <1>1, <1>2, Frame

LEMMA LapseInv ==
  ASSUME IInv, NEW c \in Slots, LeaseLapses(c) \/ WorkerStalls(c),
         NEW r \in Runs
  PROVE  RunInv(r)'
<1>1. RunInv(r) /\ UNCHANGED <<run, steps, appr, call, effects>>
      /\ cmd' = [cmd EXCEPT ![c].stale = TRUE] /\ cmd[c] \in Commands /\ Shape
  BY InvByRun DEF LeaseLapses, WorkerStalls, dbVars, Shape, TypeOK
<1>2. \A d \in Slots : cmd'[d].st = cmd[d].st
  BY <1>1 DEF Shape, TypeOK, Commands
<1>3. Untouched(r)
  BY <1>1, <1>2 DEF Untouched, IsActive
<1> QED
  BY <1>1, <1>3, Frame

LEMMA CheckpointLapsesInv ==
  ASSUME IInv, NEW q \in Runs, CheckpointLapses(q), NEW r \in Runs
  PROVE  RunInv(r)'
<1>1. RunInv(r) /\ UNCHANGED <<run, steps, appr, call, effects, cmd>>
  BY InvByRun DEF CheckpointLapses
<1>2. Untouched(r)
  BY <1>1 DEF Untouched, IsActive
<1> QED
  BY <1>1, <1>2, Frame

LEMMA ApprovalLapsesInv ==
  ASSUME IInv, NEW q \in Runs, NEW m \in Steps, ApprovalLapses(q, m),
         NEW r \in Runs
  PROVE  RunInv(r)'
<1>1. RunInv(r) /\ Shape /\ UNCHANGED <<run, steps, call, effects, cmd>>
  BY InvByRun DEF ApprovalLapses
<1>2. \A c \in Slots : (IsActive(c))' <=> IsActive(c)
  BY <1>1 DEF IsActive
<1>3. CASE q # r
  <2>1. appr'[r] = appr[r]
    BY <1>1, <1>3 DEF ApprovalLapses, Shape, TypeOK
  <2>2. Untouched(r)
    BY <1>1, <1>2, <2>1 DEF Untouched
  <2> QED
    BY <1>1, <2>2, Frame
<1>4. CASE q = r
  <2>1. /\ \/ appr[r][m] = "pending" /\ appr'[r][m] = "overdue"
           \/ appr[r][m] = "approved" /\ appr'[r][m] = "lapsed"
        /\ \A n \in Steps : n # m => appr'[r][n] = appr[r][n]
    BY <1>1, <1>4 DEF ApprovalLapses, Shape, TypeOK
  <2>2. Fresh(r)' /\ Waits(r)' /\ Paid(r)'
    BY <1>1, <2>1 DEF RunInv, Fresh, Waits, Paid, PaidFor, Closed
  <2>3. Current(r)'
    BY <1>1, <2>1 DEF RunInv, Current, Closed
  <2>4. \A c \in Slots : c.run = r /\ (IsActive(c))' => (Fits(r, c))'
    <3> SUFFICES ASSUME NEW c \in Slots, c.run = r, (IsActive(c))'
                 PROVE  (Fits(r, c))'
      OBVIOUS
    <3>1. Fits(r, c)
      BY <1>1, <1>2 DEF RunInv
    <3>2. c.act = "resume" => c.step \in Steps
      BY SlotFacts
    <3> QED
      BY <1>1, <2>1, <3>1, <3>2 DEF Fits, Closed
  <2>5. Driven(r)'
    <3>1. run[r] = "awaiting_approval" => steps[r] \in Steps
      BY <1>1 DEF RunInv, Waits
    <3>2. \A n \in Steps : (IsActive(ResumeSlot(r, n)))' <=>
                              IsActive(ResumeSlot(r, n))
      BY <1>2, SlotFacts
    <3>3. (IsActive(Slot(r, "start")))' <=> IsActive(Slot(r, "start"))
      BY <1>2, SlotFacts
    <3> QED
      BY <1>1, <2>1, <3>1, <3>2, <3>3 DEF RunInv, Driven
  <2> QED
    BY <2>2, <2>3, <2>4, <2>5 DEF RunInv
<1> QED
  BY <1>3, <1>4

-----------------------------------------------------------------------------
(* The theorems *)

LEMMA InvInit == Init => IInv
<1> SUFFICES ASSUME Init PROVE IInv
  OBVIOUS
<1>1. \A c \in Slots : ~IsActive(c)
  BY DEF Init, IsActive, Row
<1>2. \A r \in Runs : RunInv(r)
  BY <1>1 DEF Init, RunInv, Fresh, Waits, Driven, Current, Paid, PaidFor
<1> QED
  BY <1>2, ShapeInit, InvByRun

LEMMA InvStep == IInv /\ [Next]_vars => IInv'
<1> SUFFICES ASSUME IInv, [Next]_vars PROVE IInv'
  OBVIOUS
<1>1. Shape'
  BY ShapeStep DEF IInv
<1>2. (\A r \in Runs : RunInv(r))'
  <2> SUFFICES ASSUME NEW r \in Runs PROVE RunInv(r)'
    OBVIOUS
  <2>1. CASE UNCHANGED vars
    <3>1. RunInv(r) /\ Untouched(r)
      BY <2>1, InvByRun DEF vars, dbVars, Untouched, IsActive
    <3> QED
      BY <3>1, Frame
  <2>2. CASE Request
    BY <2>2, CreateInv, SendInputInv, CancelInv, ApproveInv, RejectInv
       DEF Request
  <2>3. ASSUME NEW w \in Workers, Execute(w) PROVE RunInv(r)'
    <3>1. busy[w] /\ Shape /\ RunInv(r)
      BY <2>3, ExecuteBusy, InvByRun
    <3>2. Head(todo[w]) \in Slots /\ Head(todo[w]).run \in Runs
      BY <3>1, BusyFacts
    <3>3. CASE r = Head(todo[w]).run
      BY <2>3, <3>1, <3>2, <3>3, ExecuteInv
    <3>4. CASE r # Head(todo[w]).run
      BY <2>3, <3>1, <3>2, <3>4, ExecuteOthers, Frame
    <3> QED
      BY <3>3, <3>4
  <2>4. CASE Clock \/ \E c \in Slots : WorkerStalls(c)
    BY <2>4, LapseInv, CheckpointLapsesInv, ApprovalLapsesInv DEF Clock
  <2>5. CASE \E w \in Workers : Poll(w) \/ Begin(w) \/ Skip(w) \/ Abort(w)
                                \/ Crash(w)
    BY <2>5, PollInv, WorkerInv
  <2> QED
    BY <2>1, <2>2, <2>3, <2>4, <2>5 DEF Next
<1> QED
  BY <1>1, <1>2, InvByRun, PTL

THEOREM Invariance == Spec => []IInv
  BY InvInit, InvStep, PTL DEF Spec

(* A guarded tool call is executed at most once and never without having   *)
(* consumed its approval, for any number of workers, leases and retries.   *)
THEOREM EffectsArePaidFor == Spec => []EffectConsumesApproval
  BY Invariance, PTL DEF IInv

(* No command left in the outbox can drive a run that has moved on. *)
THEOREM CommandsFit == Spec => []CommandFitsRun
  BY Invariance, PTL DEF IInv

(* A created run has its start command, and a run that waits for an        *)
(* approval has something that will end the wait.                          *)
THEOREM NobodyLeftBehind == Spec => []NoRunLeftBehind
  BY Invariance, PTL DEF IInv

(* Deciding a pending approval, or letting it expire, acts on the step its *)
(* run is waiting at.                                                      *)
THEOREM ApprovalsAreCurrent == Spec => []PendingApprovalIsCurrent
  BY Invariance, PTL DEF IInv

(* Row locks and leases let one transaction at a time execute a command. *)
THEOREM ExecutorsExclude == Spec => []OneExecutor
<1>1. Shape => OneExecutor
  BY HeadFacts DEF Shape, BusyHolds, OneExecutor, Holds
<1> QED
  BY <1>1, Invariance, PTL DEF IInv

(* Only a resume whose approval stands executes the tool, whether it then  *)
(* accepts the output or refuses it.                                       *)
Executes(w) ==
    LET c == Head(todo[w]) IN
    /\ CanResume(w)
    /\ Approved(c.run, c.step)
    /\ effects' = [effects EXCEPT ![c.run][c.step] = @ + 1]
    /\ ResumeRun(w) \/ RefuseArguments(w)

LEMMA EffectSteps ==
  ASSUME [Next]_vars, effects' # effects
  PROVE  \E w \in Workers : Executes(w)
<1>1. PICK w \in Workers : ResumeRun(w) \/ RefuseArguments(w)
  BY DEF Next, Request, Clock, Execute, Create, SendInput, Cancel,
         Approve, Reject, Poll, Begin, Skip, StartRun, ContinueInput,
         CancelRun, Fail, Abort, Crash,
         ApprovalLapses, CheckpointLapses, LeaseLapses, WorkerStalls,
         vars, dbVars
<1>2. CASE ResumeRun(w)
  BY <1>1, <1>2 DEF Executes, ResumeRun
<1>3. CASE RefuseArguments(w)
  BY <1>1, <1>3 DEF Executes, RefuseArguments
<1> QED
  BY <1>1, <1>2, <1>3

(* A guarded tool never runs after a cancel, a rejection or an expiry, nor *)
(* for an approval of an earlier step.                                     *)
THEOREM EffectsAreApproved == Spec => EffectOnlyWhenApproved
<1> DEFINE Guarded == \A r \in Runs, n \in Steps :
        effects'[r][n] # effects[r][n] =>
            /\ run[r] = "awaiting_approval"
            /\ n = steps[r]
            /\ appr[r][n] = "approved"
<1>1. ASSUME IInv, [Next]_vars PROVE Guarded
  <2> SUFFICES ASSUME NEW r \in Runs, NEW n \in Steps,
                      effects'[r][n] # effects[r][n]
               PROVE  /\ run[r] = "awaiting_approval"
                      /\ n = steps[r]
                      /\ appr[r][n] = "approved"
    OBVIOUS
  <2>1. PICK w \in Workers : Executes(w)
    BY <1>1, EffectSteps
  <2> DEFINE c == Head(todo[w])
  <2>2. busy[w] /\ Shape
    BY <1>1, <2>1 DEF IInv, Executes, CanResume, Processing
  <2>3. c \in Slots /\ c.run \in Runs /\ IsActive(c)
    BY <2>2, BusyFacts DEF IsActive
  <2>4. /\ run[c.run] = "awaiting_approval" /\ c.act = "resume"
        /\ appr[c.run][c.step] = "approved"
        /\ effects' = [effects EXCEPT ![c.run][c.step] = @ + 1]
    BY <2>1 DEF Executes, CanResume, Processing, Approved
  <2>5. c.step = steps[c.run]
    BY <1>1, <2>3, <2>4 DEF IInv, CommandFitsRun, Closed, TerminalStatus
  <2>6. effects[r] \in [Steps -> Nat] /\ effects \in [Runs -> [Steps -> Nat]]
    BY <2>2 DEF Shape, TypeOK
  <2> HIDE DEF c
  <2>7. r = c.run
    BY <2>4, <2>6
  <2>8. n = c.step
    BY <2>4, <2>6, <2>7
  <2> QED
    BY <2>4, <2>5, <2>7, <2>8
<1>2. IInv /\ [Next]_vars => [Guarded]_vars
  BY <1>1
<1>3. Spec => [][Guarded]_vars
  BY <1>2, Invariance, PTL DEF Spec
<1> QED
  BY <1>3 DEF EffectOnlyWhenApproved

-----------------------------------------------------------------------------
(* Closed runs *)

(* What an open run writes, and what it adds to its log.                   *)
OpenLog == Seq(EventKinds \ TerminalEvents)

Extended(r) ==
    \/ run'[r] \notin TerminalStatus /\ events'[r] = events[r]
    \/ /\ run'[r] \notin TerminalStatus
       /\ \E l \in OpenLog : events'[r] = events[r] \o l
    \/ /\ run'[r] \in TerminalStatus
       /\ \E l \in OpenLog :
             events'[r] = events[r] \o Append(l, TerminalEvent(run'[r]))

LEMMA Concatenated ==
  ASSUME NEW e \in Seq(EventKinds), NEW l \in Seq(EventKinds),
         NEW m \in Seq(EventKinds)
  PROVE  (e \o l) \o m = e \o (l \o m)
  OBVIOUS

LEMMA OpenLogs ==
    /\ <<>> \in OpenLog /\ <<"route">> \in OpenLog
    /\ <<"input_required">> \in OpenLog
    /\ <<"approval_required">> \in OpenLog
    /\ \A k \in Nat : AgentSteps(k) \in OpenLog
    /\ \A l, m \in OpenLog : l \o m \in OpenLog
  BY DEF OpenLog, EventKinds, TerminalEvents, AgentSteps

(* What a loop over the plan does to the row of its run and the others'.   *)
LEMMA AdvanceEffect ==
  ASSUME NEW r \in Runs, NEW s, NEW log \in OpenLog, NEW a, NEW k, TypeOK,
         Advance(r, s, log, a, k)
  PROVE  /\ \A q \in Runs \ {r} : /\ run'[q] = run[q]
                                  /\ ckpt'[q] = ckpt[q]
                                  /\ events'[q] = events[q]
         /\ \/ run'[r] \in TerminalStatus /\ ckpt'[r] = NoCheckpoint
            \/ run'[r] \in {"awaiting_input", "awaiting_approval"}
         /\ Extended(r)
<1>1. PICK done \in 0 .. MaxTasks, failed \in BOOLEAN :
        \/ FinishPlan(r, s, done, failed, log)
        \/ StopAt(r, s, done, failed, log, "awaiting_input",
                  "input_required", 0)
        \/ StopAt(r, s, done, failed, log, "awaiting_approval",
                  "approval_required", steps[r] + done + 1)
  BY DEF Advance
<1>2. /\ run \in [Runs -> {"absent"} \cup ActiveStatus \cup TerminalStatus]
      /\ ckpt \in [Runs -> Checkpoints] /\ events \in [Runs -> Seq(EventKinds)]
  BY DEF TypeOK
<1>3. CASE FinishPlan(r, s, done, failed, log)
  <2>1. PICK st \in TerminalStatus : Close(r, st, log \o AgentSteps(done))
    BY <1>3 DEF FinishPlan, TerminalStatus
  <2>2. log \o AgentSteps(done) \in OpenLog
    BY RuntimeAssumption, OpenLogs
  <2>3. PICK l \in OpenLog : Close(r, st, l)
    BY <2>1, <2>2
  <2>4. /\ run'[r] = st
        /\ events'[r] = events[r] \o Append(l, TerminalEvent(st))
    BY <1>2, <2>3 DEF Close
  <2> QED
    BY <1>2, <2>3, <2>4 DEF Close, Extended
<1>4. CASE \E st, event, n :
             /\ st \in {"awaiting_input", "awaiting_approval"}
             /\ event \in {"input_required", "approval_required"}
             /\ StopAt(r, s, done, failed, log, st, event, n)
  <2>1. PICK st, event, n :
          /\ st \in {"awaiting_input", "awaiting_approval"}
          /\ event \in {"input_required", "approval_required"}
          /\ StopAt(r, s, done, failed, log, st, event, n)
    BY <1>4
  <2>2. log \in OpenLog /\ AgentSteps(done) \in OpenLog /\ <<event>> \in OpenLog
    BY <2>1, RuntimeAssumption, OpenLogs
  <2>3. PICK l2, l3, k1 :
          /\ l2 \in OpenLog /\ l3 \in OpenLog
          /\ run' = [run EXCEPT ![r] = st]
          /\ events' = [events EXCEPT ![r] = @ \o log \o l2 \o l3]
          /\ ckpt' = [ckpt EXCEPT ![r] = k1]
    BY <2>1, <2>2 DEF StopAt
  <2>4. events'[r] = events[r] \o log \o l2 \o l3
    BY <1>2, <2>3
  <2>5. events'[r] = events[r] \o (log \o l2 \o l3)
    <3>1. /\ events[r] \in Seq(EventKinds) /\ log \in Seq(EventKinds)
          /\ l2 \in Seq(EventKinds) /\ l3 \in Seq(EventKinds)
      BY <1>2, <2>3 DEF OpenLog
    <3>2. log \o l2 \in Seq(EventKinds)
      BY <3>1
    <3>3. (events[r] \o log) \o l2 = events[r] \o (log \o l2)
      BY <3>1, Concatenated
    <3>4. (events[r] \o (log \o l2)) \o l3 = events[r] \o ((log \o l2) \o l3)
      <4> PICK m : m = log \o l2
        OBVIOUS
      <4>1. (events[r] \o m) \o l3 = events[r] \o (m \o l3)
        BY <3>1, <3>2, Concatenated, ZenonT(30)
      <4> QED
        BY <4>1
    <3> QED
      BY <2>4, <3>3, <3>4
  <2>6. log \o l2 \o l3 \in OpenLog
    BY <2>3, OpenLogs
  <2>7. run'[r] = st /\ st \notin TerminalStatus
    BY <1>2, <2>1, <2>3 DEF TerminalStatus
  <2> QED
    BY <1>2, <2>1, <2>3, <2>5, <2>6, <2>7 DEF Extended
<1> QED
  BY <1>1, <1>3, <1>4

(* A step leaves a run as it is, or finds it open and leaves no checkpoint *)
(* if it closes it.  A checkpoint appears only with an open run.           *)
Rests(r) ==
    /\ run'[r] = run[r]
    /\ events'[r] = events[r]
    /\ effects'[r] = effects[r]
    /\ ckpt[r].ver = 0 => ckpt'[r].ver = 0

Moves(r) ==
    /\ ~Closed(r)
    /\ run'[r] \in TerminalStatus => ckpt'[r].ver = 0
    /\ Extended(r)

LEMMA CloseEffect ==
  ASSUME TypeOK, NEW q \in Runs, NEW st \in TerminalStatus,
         NEW log \in OpenLog,
         Close(q, st, log), NEW r \in Runs, r # q => effects'[r] = effects[r]
  PROVE  Rests(r) \/ Moves(r)
<1>1. /\ run \in [Runs -> {"absent"} \cup ActiveStatus \cup TerminalStatus]
      /\ ckpt \in [Runs -> Checkpoints] /\ events \in [Runs -> Seq(EventKinds)]
  BY DEF TypeOK
<1>2. CASE r = q
  <2>1. ckpt'[r] = NoCheckpoint
    BY <1>1, <1>2 DEF Close
  <2>2. ~Closed(r)
    BY <1>2 DEF Close, Closed, ActiveStatus, TerminalStatus
  <2>3. /\ run'[r] = st
        /\ events'[r] = events[r] \o Append(log, TerminalEvent(st))
    BY <1>1, <1>2 DEF Close
  <2>4. Extended(r)
    BY <2>3 DEF Extended
  <2> QED
    BY <2>1, <2>2, <2>4 DEF Moves, NoCheckpoint
<1>3. CASE r # q
  BY <1>1, <1>3 DEF Close, Rests
<1> QED
  BY <1>2, <1>3

LEMMA AdvanceRow ==
  ASSUME TypeOK, NEW q \in Runs, ~Closed(q), NEW s, NEW log \in OpenLog,
         NEW a, NEW k,
         Advance(q, s, log, a, k),
         NEW r \in Runs, r # q => effects'[r] = effects[r]
  PROVE  Rests(r) \/ Moves(r)
<1>1. CASE r = q
  <2>1. /\ \/ run'[r] \in TerminalStatus /\ ckpt'[r] = NoCheckpoint
           \/ run'[r] \in {"awaiting_input", "awaiting_approval"}
        /\ Extended(r)
    BY <1>1, AdvanceEffect
  <2> QED
    BY <1>1, <2>1 DEF Moves, NoCheckpoint, TerminalStatus
<1>2. CASE r # q
  <2>1. run'[r] = run[r] /\ ckpt'[r] = ckpt[r] /\ events'[r] = events[r]
    BY <1>2, AdvanceEffect
  <2> QED
    BY <1>2, <2>1 DEF Rests
<1> QED
  BY <1>1, <1>2

LEMMA RequestRow ==
  ASSUME IInv, Request, NEW r \in Runs
  PROVE  Rests(r) \/ Moves(r)
<1>1. /\ TypeOK
      /\ run \in [Runs -> {"absent"} \cup ActiveStatus \cup TerminalStatus]
  BY DEF IInv, Shape, TypeOK
<1>2. PICK q \in Runs :
        \/ Create(q)
        \/ SendInput(q)
        \/ Cancel(q)
        \/ \E n \in Steps : Approve(q, n)
        \/ \E n \in Steps : Reject(q, n)
  BY DEF Request
<1>3. CASE Create(q)
  <2>1. run[q] = "absent" /\ run' = [run EXCEPT ![q] = "created"]
        /\ UNCHANGED <<ckpt, events, effects>>
    BY <1>3 DEF Create
  <2> QED
    BY <1>1, <2>1 DEF Rests, Moves, Closed, TerminalStatus, Extended
<1>4. CASE SendInput(q)
  BY <1>4 DEF SendInput, Rests, dbVars
<1>5. CASE Cancel(q)
  <2>1. PICK log \in OpenLog : Close(q, "cancelled", log)
    BY <1>5, OpenLogs DEF Cancel
  <2>2. effects' = effects
    BY <1>5 DEF Cancel
  <2> QED
    BY <1>1, <2>1, <2>2, CloseEffect DEF TerminalStatus
<1>6. CASE \E n \in Steps : Approve(q, n)
  BY <1>6 DEF Approve, Rests
<1>7. CASE \E n \in Steps : Reject(q, n)
  <2>1. PICK log \in OpenLog : Close(q, "partial", log)
    BY <1>7, OpenLogs DEF Reject
  <2>2. effects' = effects
    BY <1>7 DEF Reject
  <2> QED
    BY <1>1, <2>1, <2>2, CloseEffect DEF TerminalStatus
<1> QED
  BY <1>2, <1>3, <1>4, <1>5, <1>6, <1>7

LEMMA PollRow ==
  ASSUME IInv, NEW w \in Workers, Poll(w), NEW r \in Runs
  PROVE  Rests(r) \/ Moves(r)
<1>1. ExpireDue /\ effects' = effects
  BY DEF Poll
<1>2. CASE ClosedByExpiry(r)
  <2>1. ~Closed(r)
    BY <1>2 DEF ClosedByExpiry, Closed, ActiveStatus, TerminalStatus
  <2>2. ckpt'[r] = NoCheckpoint
    BY <1>1, <1>2 DEF ExpireDue
  <2>3. /\ run'[r] = "partial" /\ events'[r] = Append(events[r], "done")
    BY <1>1, <1>2 DEF ExpireDue
  <2>4. PICK l \in OpenLog : l = <<>>
    BY OpenLogs
  <2>5. events'[r] = events[r] \o Append(l, "done")
    BY <2>3, <2>4 DEF IInv, Shape, TypeOK
  <2>6. run'[r] \in TerminalStatus /\ TerminalEvent(run'[r]) = "done"
    BY <2>3 DEF TerminalStatus, TerminalEvent
  <2>7. Extended(r)
    BY <2>5, <2>6 DEF Extended
  <2> QED
    BY <2>1, <2>2, <2>7 DEF Moves, NoCheckpoint
<1>3. CASE ~ClosedByExpiry(r)
  <2>1. run'[r] = run[r] /\ events'[r] = events[r]
    BY <1>1, <1>3 DEF ExpireDue
  <2>2. ckpt'[r] = NoCheckpoint \/ ckpt'[r] = ckpt[r]
    BY <1>1, <1>3 DEF ExpireDue
  <2> QED
    BY <1>1, <2>1, <2>2 DEF Rests, NoCheckpoint
<1> QED
  BY <1>2, <1>3

LEMMA ExecuteRow ==
  ASSUME IInv, NEW w \in Workers, Execute(w), NEW r \in Runs
  PROVE  Rests(r) \/ Moves(r)
<1> DEFINE c == Head(todo[w])
<1>1. /\ Shape /\ TypeOK /\ c \in Slots /\ c.run \in Runs
      /\ effects \in [Runs -> [Steps -> Nat]] /\ ckpt \in [Runs -> Checkpoints]
      /\ run \in [Runs -> {"absent"} \cup ActiveStatus \cup TerminalStatus]
      /\ events \in [Runs -> Seq(EventKinds)]
  BY ExecuteBusy, BusyFacts DEF IInv, Shape, TypeOK
<1> PICK q \in Runs : q = c.run
  BY <1>1
<1> HIDE DEF c
<1>2. CASE StartRun(w)
  <2>1. /\ run[q] = "created" /\ effects' = effects
        /\ \/ Clarify(q)
           \/ \E len \in 1 .. MaxTasks :
                Advance(q, [NoCheckpoint EXCEPT !.len = len], <<"route">>,
                        appr[q], call[q])
    BY <1>2 DEF StartRun, c
  <2>2. ~Closed(q)
    BY <2>1 DEF Closed, TerminalStatus
  <2>3. CASE Clarify(q)
    <3>1. PICK log \in OpenLog : Close(q, "partial", log)
      BY <2>3, OpenLogs DEF Clarify
    <3> QED
      BY <1>1, <2>1, <3>1, CloseEffect DEF TerminalStatus
  <2>4. CASE \E len \in 1 .. MaxTasks :
                Advance(q, [NoCheckpoint EXCEPT !.len = len], <<"route">>,
                        appr[q], call[q])
    <3>0. PICK log \in OpenLog : log = <<"route">>
      BY OpenLogs
    <3>1. PICK s, a, k : Advance(q, s, log, a, k)
      BY <2>4, <3>0
    <3> QED
      BY <1>1, <2>1, <2>2, <3>1, AdvanceRow
  <2> QED
    BY <2>1, <2>3, <2>4
<1>3. CASE ContinueInput(w)
  <2>1. /\ run[q] = "awaiting_input" /\ effects' = effects
        /\ Advance(q, snap[w], <<>>, appr[q], call[q])
    BY <1>3 DEF ContinueInput, c
  <2>0. PICK log \in OpenLog : log = <<>>
    BY OpenLogs
  <2>2. PICK s, a, k : Advance(q, s, log, a, k)
    BY <2>0, <2>1
  <2>3. ~Closed(q)
    BY <2>1 DEF Closed, TerminalStatus
  <2> QED
    BY <1>1, <2>1, <2>2, <2>3, AdvanceRow
<1>4. CASE ResumeRun(w)
  <2>1. /\ run[q] = "awaiting_approval"
        /\ effects' = [effects EXCEPT ![q][c.step] = @ + 1]
        /\ Advance(q, [snap[w] EXCEPT !.next = @ + 1, !.ask = 0], <<>>,
                   Consumed(q, c.step),
                   [call[q] EXCEPT ![snap[w].ask] = "succeeded"])
    BY <1>4 DEF ResumeRun, CanResume, c
  <2>0. PICK log \in OpenLog : log = <<>>
    BY OpenLogs
  <2>2. PICK s, a, k : Advance(q, s, log, a, k)
    BY <2>0, <2>1
  <2>3. ~Closed(q)
    BY <2>1 DEF Closed, TerminalStatus
  <2>4. r # q => effects'[r] = effects[r]
    BY <1>1, <2>1
  <2> QED
    BY <1>1, <2>2, <2>3, <2>4, AdvanceRow
<1>5. CASE RefuseArguments(w)
  <2>0. \/ effects' = effects
        \/ effects' = [effects EXCEPT ![q][c.step] = @ + 1]
    BY <1>5 DEF RefuseArguments, c
  <2>1. /\ run[q] = "awaiting_approval" /\ (r # q => effects'[r] = effects[r])
        /\ run' = [run EXCEPT ![q] = "awaiting_input"]
    BY <1>1, <1>5, <2>0 DEF RefuseArguments, CanResume, c
  <2>2. PICK k : /\ ckpt' = [ckpt EXCEPT ![q] = k]
                 /\ events' = [events EXCEPT ![q] =
                                  Append(@, "input_required")]
    BY <1>5 DEF RefuseArguments, c
  <2>3. r # q => run'[r] = run[r] /\ ckpt'[r] = ckpt[r]
                 /\ events'[r] = events[r]
    BY <1>1, <2>1, <2>2
  <2>4. r = q => ~Closed(r) /\ run'[r] = "awaiting_input"
    BY <1>1, <2>1 DEF Closed, TerminalStatus
  <2>5. PICK l \in OpenLog : l = <<"input_required">>
    BY OpenLogs
  <2>6. events'[q] = events[q] \o l
    <3>1. events[q] \in Seq(EventKinds) /\ "input_required" \in EventKinds
      BY <1>1 DEF EventKinds
    <3>2. events'[q] = Append(events[q], "input_required")
      BY <1>1, <2>2
    <3> QED
      BY <2>5, <3>1, <3>2, AppendIsConcat
  <2>7. r = q => Extended(r)
    BY <2>4, <2>6 DEF Extended, TerminalStatus
  <2> QED
    BY <2>1, <2>3, <2>4, <2>7 DEF Rests, Moves, TerminalStatus
<1>6. ASSUME effects' = effects,
             \/ \E st \in TerminalStatus, log \in OpenLog :
                   Close(q, st, log)
             \/ UNCHANGED <<run, ckpt, events>>
      PROVE  Rests(r) \/ Moves(r)
  BY <1>1, <1>6, CloseEffect DEF Rests
<1>7. CASE CancelRun(w)
  <2>1. /\ effects' = effects
        /\ \/ \E log \in OpenLog : Close(q, "cancelled", log)
           \/ UNCHANGED <<run, ckpt, events>>
    BY <1>7, OpenLogs DEF CancelRun, c
  <2> QED
    BY <1>6, <2>1 DEF TerminalStatus
<1>8. CASE Fail(w)
  <2>1. /\ effects' = effects
        /\ \/ \E log \in OpenLog : Close(q, "failed", log)
           \/ UNCHANGED <<run, ckpt, events>>
    BY <1>8, OpenLogs DEF Fail, GiveUp, c
  <2> QED
    BY <1>6, <2>1 DEF TerminalStatus
<1> QED
  BY <1>2, <1>3, <1>4, <1>5, <1>7, <1>8 DEF Execute

LEMMA StepRow ==
  ASSUME IInv, [Next]_vars, NEW r \in Runs
  PROVE  Rests(r) \/ Moves(r)
<1>1. CASE Request
  BY <1>1, RequestRow
<1>2. CASE \E w \in Workers : Poll(w)
  BY <1>2, PollRow
<1>3. CASE \E w \in Workers : Execute(w)
  BY <1>3, ExecuteRow
<1>4. CASE UNCHANGED <<run, ckpt, events, effects>>
  BY <1>4 DEF Rests
<1>5. CASE \E q \in Runs : CheckpointLapses(q)
  <2>1. PICK q \in Runs : CheckpointLapses(q)
    BY <1>5
  <2>2. /\ UNCHANGED <<run, events, effects>> /\ ckpt[q].ver > 0
        /\ ckpt' = [ckpt EXCEPT ![q] = [@ EXCEPT !.old = TRUE]]
    BY <2>1 DEF CheckpointLapses
  <2>3. r # q => ckpt'[r] = ckpt[r]
    BY <2>2 DEF IInv, Shape, TypeOK
  <2> QED
    BY <2>2, <2>3 DEF Rests
<1> QED
  BY <1>1, <1>2, <1>3, <1>4, <1>5
     DEF Next, Clock, Begin, Skip, Abort, Crash, WorkerStalls, LeaseLapses,
         ApprovalLapses, vars, dbVars

(* A closed run stays as it is: its status, its log and its effects.       *)
THEOREM ClosedForGood == Spec => ClosedIsFinal
<1> DEFINE Final == \A r \in Runs : Closed(r) =>
        /\ run'[r] = run[r]
        /\ events'[r] = events[r]
        /\ effects'[r] = effects[r]
<1>1. IInv /\ [Next]_vars => [Final]_vars
  BY StepRow DEF Rests, Moves
<1>2. Spec => [][Final]_vars
  BY <1>1, Invariance, PTL DEF Spec
<1> QED
  BY <1>2 DEF ClosedIsFinal

(* No closed run has a checkpoint, though the transactions that write      *)
(* checkpoints have read them before their run was closed by others.       *)
THEOREM CheckpointsGoWithRuns == Spec => []NoCheckpointOfClosedRun
<1>1. Init => NoCheckpointOfClosedRun
  BY DEF Init, NoCheckpointOfClosedRun, NoCheckpoint
<1>2. IInv /\ NoCheckpointOfClosedRun /\ [Next]_vars
        => NoCheckpointOfClosedRun'
  <2> SUFFICES ASSUME IInv, NoCheckpointOfClosedRun, [Next]_vars,
                      NEW r \in Runs, Closed(r)'
               PROVE  ckpt'[r].ver = 0
    BY DEF NoCheckpointOfClosedRun
  <2>1. CASE Rests(r)
    BY <2>1 DEF Rests, Closed, NoCheckpointOfClosedRun
  <2>2. CASE Moves(r)
    BY <2>2 DEF Moves, Closed
  <2> QED
    BY <2>1, <2>2, StepRow
<1> QED
  BY <1>1, <1>2, Invariance, PTL DEF Spec

(* A log that only open runs have written, and one that was just closed.   *)
OnlyOpen(e) == \A i \in 1 .. Len(e) : e[i] \notin TerminalEvents

ClosedWith(e, t) ==
    /\ e # <<>> /\ e[Len(e)] = t
    /\ \A i \in 1 .. Len(e) : e[i] \in TerminalEvents => i = Len(e)

LEMMA OpenKept ==
  ASSUME NEW e \in Seq(EventKinds), OnlyOpen(e), NEW l \in OpenLog
  PROVE  OnlyOpen(e \o l)
  BY DEF OnlyOpen, OpenLog

LEMMA ClosedOnce ==
  ASSUME NEW e \in Seq(EventKinds), OnlyOpen(e), NEW l \in OpenLog,
         NEW t \in TerminalEvents
  PROVE  ClosedWith(e \o Append(l, t), t)
<1>1. l \in Seq(EventKinds) /\ OnlyOpen(l) /\ t \in EventKinds
  BY DEF OpenLog, OnlyOpen, EventKinds
<1> DEFINE m == Append(l, t)
           f == e \o m
<1>2. /\ m \in Seq(EventKinds) /\ Len(m) = Len(l) + 1 /\ m[Len(m)] = t
      /\ \A i \in 1 .. Len(l) : m[i] = l[i]
  BY <1>1
<1> HIDE DEF m
<1>3. /\ Len(f) = Len(e) + Len(m) /\ f \in Seq(EventKinds)
      /\ \A i \in 1 .. Len(e) : f[i] = e[i]
      /\ \A i \in 1 .. Len(f) : i > Len(e) => f[i] = m[i - Len(e)]
  BY <1>2
<1> HIDE DEF f
<1>4. /\ Len(e) \in Nat /\ Len(l) \in Nat
      /\ Len(f) = Len(e) + Len(l) + 1
  BY <1>1, <1>2, <1>3
<1>5. f # <<>> /\ f[Len(f)] = t
  BY <1>2, <1>3, <1>4
<1>6. \A i \in 1 .. Len(f) : f[i] \in TerminalEvents => i = Len(f)
  <2> SUFFICES ASSUME NEW i \in 1 .. Len(f), i # Len(f)
               PROVE  f[i] \notin TerminalEvents
    OBVIOUS
  <2>1. i \in 1 .. Len(e) \/ (i > Len(e) /\ i - Len(e) \in 1 .. Len(l))
    BY <1>4
  <2>2. CASE i \in 1 .. Len(e)
    BY <1>3, <2>2 DEF OnlyOpen
  <2>3. CASE i > Len(e) /\ i - Len(e) \in 1 .. Len(l)
    <3>1. f[i] = l[i - Len(e)]
      BY <1>2, <1>3, <2>3
    <3> QED
      BY <1>1, <2>3, <3>1 DEF OnlyOpen
  <2> QED
    BY <2>1, <2>2, <2>3
<1> QED
  BY <1>5, <1>6 DEF ClosedWith, f, m

LogInv(r) ==
    IF Closed(r) THEN ClosedWith(events[r], TerminalEvent(run[r]))
    ELSE OnlyOpen(events[r])

LEMMA LogsByRun == ClosedByOneEvent <=> \A r \in Runs : LogInv(r)
  BY DEF ClosedByOneEvent, LogInv, ClosedWith, OnlyOpen

(* Whoever closes a run, its log ends with one terminal event that says    *)
(* how the run ended, and an open run has none.                            *)
THEOREM ClosesOnce == Spec => []ClosedByOneEvent
<1>1. Init => ClosedByOneEvent
  BY DEF Init, ClosedByOneEvent, Closed, TerminalStatus
<1>2. ASSUME IInv, [Next]_vars, NEW r \in Runs, LogInv(r)
      PROVE  LogInv(r)'
  <2>1. CASE Rests(r)
    BY <1>2, <2>1 DEF Rests, Closed, LogInv, ClosedWith, OnlyOpen
  <2>2. CASE Moves(r)
    <3>1. events[r] \in Seq(EventKinds) /\ OnlyOpen(events[r])
      BY <1>2, <2>2 DEF IInv, Shape, TypeOK, Moves, LogInv
    <3>2. TerminalEvent(run'[r]) \in TerminalEvents
      BY DEF TerminalEvent, TerminalEvents
    <3>3. CASE run'[r] \notin TerminalStatus /\ OnlyOpen(events'[r])
      BY <3>3 DEF Closed, LogInv, OnlyOpen
    <3>4. CASE /\ run'[r] \in TerminalStatus
               /\ ClosedWith(events'[r], TerminalEvent(run'[r]))
      BY <3>4 DEF Closed, LogInv, ClosedWith, TerminalEvent
    <3>5. \A l \in OpenLog :
             /\ OnlyOpen(events[r] \o l)
             /\ ClosedWith(events[r] \o Append(l, TerminalEvent(run'[r])),
                           TerminalEvent(run'[r]))
      BY <3>1, <3>2, OpenKept, ClosedOnce
    <3> QED
      BY <2>2, <3>1, <3>3, <3>4, <3>5 DEF Moves, Extended
  <2> QED
    BY <1>2, <2>1, <2>2, StepRow
<1>3. IInv /\ ClosedByOneEvent /\ [Next]_vars => ClosedByOneEvent'
  <2>1. (\A r \in Runs : LogInv(r))' => ClosedByOneEvent'
    BY LogsByRun, PTL
  <2> QED
    BY <1>2, <2>1, LogsByRun
<1> QED
  BY <1>1, <1>3, Invariance, PTL DEF Spec

-----------------------------------------------------------------------------
(* The contract *)

WaitStatus == {"awaiting_input", "awaiting_approval"}

(* "routing" and "running" are written and left inside one transaction.    *)
Settled == \A r \in Runs : run[r] \notin {"routing", "running"}

(* What a client of the API sees a run go through.                         *)
Passes(r) ==
    \/ run'[r] = run[r]
    \/ /\ run[r] = "absent" /\ run'[r] = "created"
       /\ events'[r] = events[r] /\ effects'[r] = effects[r]
    \/ run[r] \in ActiveStatus /\ run'[r] \in WaitStatus \cup TerminalStatus

LEMMA ClosePasses ==
  ASSUME TypeOK, NEW q \in Runs, NEW st \in TerminalStatus, NEW log,
         Close(q, st, log), NEW r \in Runs
  PROVE  Passes(r)
  BY DEF TypeOK, Close, Passes

LEMMA AdvancePasses ==
  ASSUME TypeOK, NEW q \in Runs, run[q] \in ActiveStatus, NEW s,
         NEW log \in OpenLog, NEW a, NEW k, Advance(q, s, log, a, k),
         NEW r \in Runs
  PROVE  Passes(r)
<1>1. CASE r = q
  BY <1>1, AdvanceEffect DEF Passes, WaitStatus
<1>2. CASE r # q
  BY <1>2, AdvanceEffect DEF Passes
<1> QED
  BY <1>1, <1>2

LEMMA RequestPasses ==
  ASSUME IInv, Request, NEW r \in Runs
  PROVE  Passes(r)
<1>1. /\ TypeOK
      /\ run \in [Runs -> {"absent"} \cup ActiveStatus \cup TerminalStatus]
  BY DEF IInv, Shape, TypeOK
<1>2. PICK q \in Runs :
        \/ Create(q)
        \/ SendInput(q)
        \/ Cancel(q)
        \/ \E n \in Steps : Approve(q, n)
        \/ \E n \in Steps : Reject(q, n)
  BY DEF Request
<1>3. CASE Create(q)
  BY <1>1, <1>3 DEF Create, Passes
<1>4. CASE SendInput(q)
  BY <1>4 DEF SendInput, Passes, dbVars
<1>5. CASE Cancel(q)
  <2>1. Close(q, "cancelled", <<>>)
    BY <1>5 DEF Cancel
  <2> QED
    BY <1>1, <2>1, ClosePasses DEF TerminalStatus
<1>6. CASE \E n \in Steps : Approve(q, n)
  BY <1>6 DEF Approve, Passes
<1>7. CASE \E n \in Steps : Reject(q, n)
  <2>1. Close(q, "partial", <<>>)
    BY <1>7 DEF Reject
  <2> QED
    BY <1>1, <2>1, ClosePasses DEF TerminalStatus
<1> QED
  BY <1>2, <1>3, <1>4, <1>5, <1>6, <1>7

LEMMA ExecutePasses ==
  ASSUME IInv, NEW w \in Workers, Execute(w), NEW r \in Runs
  PROVE  Passes(r)
<1> DEFINE c == Head(todo[w])
<1>1. /\ TypeOK /\ c.run \in Runs
      /\ run \in [Runs -> {"absent"} \cup ActiveStatus \cup TerminalStatus]
  BY ExecuteBusy, BusyFacts DEF IInv, Shape, TypeOK
<1> PICK q \in Runs : q = c.run
  BY <1>1
<1> HIDE DEF c
<1>2. ASSUME \/ \E st \in TerminalStatus, log \in OpenLog : Close(q, st, log)
             \/ run[q] \in ActiveStatus
                   /\ \E s, a, k : \E log \in OpenLog : Advance(q, s, log, a, k)
             \/ UNCHANGED run
      PROVE  Passes(r)
  BY <1>1, <1>2, ClosePasses, AdvancePasses DEF Passes
<1>3. CASE StartRun(w)
  <2>1. /\ run[q] \in ActiveStatus
        /\ \/ Close(q, "partial", <<"route">>)
           \/ \E len \in 1 .. MaxTasks :
                Advance(q, [NoCheckpoint EXCEPT !.len = len], <<"route">>,
                        appr[q], call[q])
    BY <1>3 DEF StartRun, Clarify, ActiveStatus, c
  <2> QED
    BY <1>2, <2>1, OpenLogs DEF TerminalStatus
<1>4. CASE ContinueInput(w)
  <2>1. /\ run[q] \in ActiveStatus
        /\ Advance(q, snap[w], <<>>, appr[q], call[q])
    BY <1>4 DEF ContinueInput, ActiveStatus, c
  <2> QED
    BY <1>2, <2>1, OpenLogs
<1>5. CASE ResumeRun(w)
  <2>1. /\ run[q] \in ActiveStatus
        /\ Advance(q, [snap[w] EXCEPT !.next = @ + 1, !.ask = 0], <<>>,
                   Consumed(q, c.step),
                   [call[q] EXCEPT ![snap[w].ask] = "succeeded"])
    BY <1>5 DEF ResumeRun, CanResume, ActiveStatus, c
  <2> QED
    BY <1>2, <2>1, OpenLogs
<1>6. CASE RefuseArguments(w)
  <2>1. /\ run[q] \in ActiveStatus
        /\ run' = [run EXCEPT ![q] = "awaiting_input"]
    BY <1>6 DEF RefuseArguments, CanResume, ActiveStatus, c
  <2> QED
    BY <1>1, <2>1 DEF Passes, WaitStatus
<1>7. CASE CancelRun(w)
  <2>1. Close(q, "cancelled", <<>>) \/ UNCHANGED run
    BY <1>7 DEF CancelRun, c
  <2> QED
    BY <1>2, <2>1, OpenLogs DEF TerminalStatus
<1>8. CASE Fail(w)
  <2>1. Close(q, "failed", <<>>) \/ UNCHANGED run
    BY <1>8 DEF Fail, GiveUp, c
  <2> QED
    BY <1>2, <2>1, OpenLogs DEF TerminalStatus
<1> QED
  BY <1>3, <1>4, <1>5, <1>6, <1>7, <1>8 DEF Execute

LEMMA StepPasses ==
  ASSUME IInv, [Next]_vars, NEW r \in Runs
  PROVE  Passes(r)
<1>1. CASE Request
  BY <1>1, RequestPasses
<1>2. CASE \E w \in Workers : Poll(w)
  <2>1. run'[r] = IF ClosedByExpiry(r) THEN "partial" ELSE run[r]
    BY <1>2 DEF Poll, ExpireDue
  <2>2. ClosedByExpiry(r) => run[r] \in ActiveStatus
    BY DEF ClosedByExpiry
  <2> QED
    BY <2>1, <2>2 DEF Passes, TerminalStatus
<1>3. CASE \E w \in Workers : Execute(w)
  BY <1>3, ExecutePasses
<1>4. CASE UNCHANGED run
  BY <1>4 DEF Passes
<1> QED
  BY <1>1, <1>2, <1>3, <1>4
     DEF Next, Clock, Begin, Skip, Abort, Crash, WorkerStalls, LeaseLapses,
         ApprovalLapses, CheckpointLapses, vars, dbVars

(* A guarded call is performed once, and its run goes on.                  *)
Performed(r, n) ==
    /\ run[r] = "awaiting_approval"
    /\ run'[r] \in WaitStatus \cup {"succeeded", "partial"}
    /\ effects[r][n] = 0
    /\ effects'[r] = [effects[r] EXCEPT ![n] = 1]

LEMMA StepPerforms ==
  ASSUME IInv, [Next]_vars, NEW r \in Runs, effects'[r] # effects[r]
  PROVE  \E n \in Steps : Performed(r, n)
<1>1. PICK w \in Workers : Executes(w)
  BY EffectSteps
<1> DEFINE c == Head(todo[w])
<1>2. busy[w] /\ Shape
  BY <1>1 DEF IInv, Executes, CanResume, Processing
<1>3. c \in Slots /\ c.run \in Runs /\ IsActive(c)
  BY <1>2, BusyFacts DEF IsActive
<1>4. /\ run[c.run] = "awaiting_approval" /\ c.act = "resume"
      /\ appr[c.run][c.step] = "approved"
      /\ effects' = [effects EXCEPT ![c.run][c.step] = @ + 1]
      /\ \/ Advance(c.run, [snap[w] EXCEPT !.next = @ + 1, !.ask = 0], <<>>,
                    Consumed(c.run, c.step),
                    [call[c.run] EXCEPT ![snap[w].ask] = "succeeded"])
         \/ run' = [run EXCEPT ![c.run] = "awaiting_input"]
  BY <1>1 DEF Executes, ResumeRun, RefuseArguments, CanResume, Processing,
              Approved
<1>5. c.step \in Steps
  BY <1>3, <1>4 DEF Slots
<1>6. /\ effects[r] \in [Steps -> Nat] /\ effects \in [Runs -> [Steps -> Nat]]
      /\ run \in [Runs -> {"absent"} \cup ActiveStatus \cup TerminalStatus]
  BY <1>2 DEF Shape, TypeOK
<1> HIDE DEF c
<1>7. r = c.run
  BY <1>3, <1>4, <1>6
<1>8. effects[r][c.step] = 0
  BY <1>4, <1>5, <1>7 DEF IInv, EffectConsumesApproval
<1>9. effects'[r] = [effects[r] EXCEPT ![c.step] = 1]
  <2>1. PICK n \in Steps : n = c.step
    BY <1>5
  <2>2. effects' = [effects EXCEPT ![r] = [effects[r] EXCEPT ![n] = effects[r][n] + 1]]
    BY <1>4, <1>7, <2>1
  <2>3. effects'[r] = [effects[r] EXCEPT ![n] = effects[r][n] + 1]
    BY <1>6, <2>2
  <2> QED
    BY <1>8, <2>1, <2>3
<1>10. run'[r] \in WaitStatus \cup {"succeeded", "partial"}
  <2>1. CASE run' = [run EXCEPT ![r] = "awaiting_input"]
    BY <1>6, <2>1 DEF WaitStatus
  <2>2. CASE \E s, a, k : Advance(r, s, <<>>, a, k)
    <3>1. PICK s, a, k : Advance(r, s, <<>>, a, k)
      BY <2>2
    <3>2. PICK st \in WaitStatus \cup {"succeeded", "partial"} :
            run' = [run EXCEPT ![r] = st]
      BY <3>1 DEF Advance, FinishPlan, StopAt, Close, WaitStatus
    <3> QED
      BY <1>6, <3>2
  <2> QED
    BY <1>4, <1>7, <2>1, <2>2
<1> QED
  BY <1>4, <1>5, <1>7, <1>8, <1>9, <1>10 DEF Performed

(* One notice is in the log of a closed run, none in that of an open one.  *)
LEMMA OneNotice ==
  ASSUME TypeOK, ClosedByOneEvent, NEW r \in Runs
  PROVE  Notices(events[r]) = IF Closed(r) THEN 1 ELSE 0
<1> DEFINE e == events[r]
           ends == {i \in DOMAIN e : e[i] \in TerminalEvents}
<1>1. e \in Seq(EventKinds) /\ DOMAIN e = 1 .. Len(e) /\ Len(e) \in Nat
  BY DEF TypeOK
<1>2. CASE Closed(r)
  <2>1. /\ e # <<>> /\ e[Len(e)] \in TerminalEvents
        /\ \A i \in 1 .. Len(e) : e[i] \in TerminalEvents => i = Len(e)
    BY <1>2 DEF ClosedByOneEvent, TerminalEvent, TerminalEvents
  <2>2. Len(e) \in 1 .. Len(e)
    BY <1>1, <2>1
  <2>3. ends = {Len(e)}
    BY <1>1, <2>1, <2>2
  <2> QED
    BY <1>2, <2>3, FS_Singleton DEF Notices
<1>3. CASE ~Closed(r)
  <2>1. ends = {}
    BY <1>1, <1>3 DEF ClosedByOneEvent
  <2> QED
    BY <1>3, <2>1, FS_EmptySet DEF Notices
<1> QED
  BY <1>2, <1>3

(* Each run by itself moves as the contract says.                          *)
LEMMA KeepsPromise ==
  ASSUME IInv, IInv', ClosedByOneEvent, ClosedByOneEvent', Settled,
         [Next]_vars, NEW r \in Runs
  PROVE  LET p == Promise(r)
             q == Promise(r)'
         IN  p = q \/ Contract!Opens(p, q) \/ Contract!Pauses(p, q)
             \/ Contract!Ends(p, q)
<1> DEFINE p == Promise(r)
           q == Promise(r)'
<1>1. /\ TypeOK /\ TypeOK' /\ effects[r] \in [Steps -> Nat]
      /\ run[r] \in {"absent"} \cup ActiveStatus \cup TerminalStatus
  BY DEF IInv, Shape, TypeOK
<1>2. /\ p = [status |-> run[r], notices |-> IF Closed(r) THEN 1 ELSE 0,
              performed |-> {n \in Steps : effects[r][n] > 0}]
      /\ q = [status |-> run'[r], notices |-> IF Closed(r)' THEN 1 ELSE 0,
              performed |-> {n \in Steps : effects'[r][n] > 0}]
  <2>1. (Notices(events[r]) = IF Closed(r) THEN 1 ELSE 0)'
    BY <1>1, OneNotice, PTL
  <2> QED
    BY <1>1, <2>1, OneNotice DEF Promise
<1> SUFFICES p = q \/ Contract!Opens(p, q) \/ Contract!Pauses(p, q)
             \/ Contract!Ends(p, q)
  OBVIOUS
<1> HIDE DEF p, q
<1>3. Contract!Performs(p, q)
  <2>1. CASE effects'[r] = effects[r]
    BY <1>2, <2>1 DEF Contract!Performs
  <2>2. CASE effects'[r] # effects[r]
    <3>1. PICK n \in Steps : Performed(r, n)
      BY <2>2, StepPerforms
    <3>2. /\ n \in Steps \ p.performed
          /\ q.performed = p.performed \cup {n}
      BY <1>1, <1>2, <3>1 DEF Performed
    <3>3. p.status = "awaiting_approval" /\ q.status # "cancelled"
      BY <1>2, <3>1 DEF Performed, WaitStatus
    <3> QED
      BY <3>2, <3>3 DEF Contract!Performs
  <2> QED
    BY <2>1, <2>2
<1>4. CASE run'[r] = run[r] /\ effects'[r] = effects[r]
  BY <1>2, <1>4 DEF Closed
<1>5. CASE run[r] = "absent" /\ run'[r] = "created" /\ effects'[r] = effects[r]
  BY <1>2, <1>5 DEF Closed, TerminalStatus, Contract!Opens
<1>6. CASE run[r] \in ActiveStatus /\ run'[r] \in WaitStatus \cup TerminalStatus
  <2>1. p.status \in Contract!Waiting \cup {"created"} /\ p.notices = 0
    BY <1>2, <1>6
       DEF Settled, ActiveStatus, Contract!Waiting, Closed, TerminalStatus
  <2>2. CASE run'[r] \in WaitStatus
    <3>1. q.status \in Contract!Waiting /\ q.notices = 0
      BY <1>2, <2>2 DEF Contract!Waiting, WaitStatus, Closed, TerminalStatus
    <3> QED
      BY <1>3, <2>1, <3>1 DEF Contract!Pauses
  <2>3. CASE run'[r] \in TerminalStatus
    <3>1. q.status \in Contract!Final /\ q.notices = 1
      BY <1>2, <2>3 DEF Contract!Final, Closed, TerminalStatus
    <3> QED
      BY <1>3, <2>1, <3>1 DEF Contract!Ends
  <2> QED
    BY <1>6, <2>2, <2>3
<1>7. CASE run'[r] = run[r] /\ effects'[r] # effects[r]
  <2>1. run[r] = "awaiting_approval"
    BY <1>7, StepPerforms DEF Performed
  <2> QED
    BY <1>6, <1>7, <2>1 DEF ActiveStatus, WaitStatus
<1> QED
  BY <1>4, <1>5, <1>6, <1>7, StepPasses DEF Passes

(* The runtime implements the contract: whatever becomes of the workers    *)
(* and commands that drive it, a client sees a run opened once, wait and   *)
(* end once with one notice, and its guarded calls performed once each.    *)
THEOREM ContractIsKept == Spec => KeepsContract
<1>1. Init => Contract!Init /\ Settled
  <2> SUFFICES ASSUME Init PROVE Contract!Init /\ Settled
    OBVIOUS
  <2>1. Settled
    BY DEF Init, Settled
  <2>2. TypeOK /\ ClosedByOneEvent
    BY InvInit
       DEF Init, IInv, Shape, ClosedByOneEvent, Closed, TerminalStatus
  <2>3. ASSUME NEW r \in Runs
        PROVE  Promise(r) = [status |-> "absent", notices |-> 0, performed |-> {}]
    <3>1. /\ run[r] = "absent" /\ ~Closed(r)
          /\ {n \in Steps : effects[r][n] > 0} = {}
      BY DEF Init, Closed, TerminalStatus
    <3> QED
      BY <2>2, <3>1, OneNotice DEF Promise
  <2> QED
    BY <2>1, <2>3 DEF Contract!Init
<1>2. IInv /\ Settled /\ [Next]_vars => Settled'
  BY StepPasses DEF Settled, Passes, WaitStatus, TerminalStatus
<1>3. IInv /\ IInv' /\ ClosedByOneEvent /\ ClosedByOneEvent' /\ Settled
        /\ [Next]_vars => [Contract!Next]_([r \in Runs |-> Promise(r)])
  BY KeepsPromise DEF Contract!Next
<1> QED
  BY <1>1, <1>2, <1>3, Invariance, ClosesOnce, PTL
     DEF Spec, KeepsContract, Contract!Spec
=============================================================================
