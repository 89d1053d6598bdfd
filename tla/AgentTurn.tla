------------------------------- MODULE AgentTurn -------------------------------
(***************************************************************************)
(* One agent run from the inside: how BoundedGraphRuntime routes it, plans *)
(* it, asks the specialist models step by step, checks what they answer,   *)
(* runs the tools they name, and stops for the user.  The models answer    *)
(* anything the payload schema admits; the user replies and decides.       *)
(*                                                                         *)
(* A command (start, input, resume) is one savepoint: whatever raises out  *)
(* of it restores the state before it (`base`) and the command is tried    *)
(* again, until its attempts are used up and the run fails.  Who executes  *)
(* commands, and several at a time, is the subject of AgentRuntime.        *)
(***************************************************************************)
EXTENDS Integers, Sequences, FiniteSets

CONSTANTS Goals,       \* objectives with what their author selected
          Suggested,   \* targets the routing model names
          Offered,     \* what the models answer when they are asked
          Replies,     \* what the user replies
          Misses,      \* slots that are found missing
          Permitted,   \* tools the user has the permissions of
          MaxSteps,    \* agent_runs.step_count may not pass it (6 in the code)
          MaxAttempts  \* max_attempts of a command
ASSUME TurnAssumption ==
    /\ MaxSteps \in Nat \ {0}
    /\ MaxAttempts \in Nat \ {0}
    /\ Misses \subseteq SUBSET {"room", "amount"}

-------------------------------------------------------------------------------
(* Vocabulary *)
Targets == {"knowledge", "service", "community", "governance", "modelops"}
(* A goal is what the words of the current message ask for, the targets    *)
(* whose keywords they hold, and the agents and tools selected explicitly. *)
(* "bare_topup" is a top-up without an amount.                             *)
Kinds == {"plain", "balance", "topup", "bare_topup", "work_order", "post"}
AsksTopup(kind) == kind \in {"topup", "bare_topup"}

Tools == {"answer", "balance", "topup", "work_order", "search", "post",
          "audit", "unknown"}
(* Contracts: what needs an approval, what only trusted callers may run.   *)
Guarded == {"topup", "work_order", "post"}
Internal == {"audit"}
Registered == Tools \ {"unknown"}
(* The tools the runtime was composed with a handler for.                  *)
Handled == {"answer", "balance", "topup", "work_order", "search", "post", "audit"}

(* tool_allowlist of the active version of each agent.                     *)
Allowlist(a) ==
    CASE a = "knowledge" -> {"answer", "audit"}
      [] a = "service" -> {"balance", "topup", "work_order", "audit"}
      [] a = "community" -> {"search", "post", "audit"}
      [] a = "governance" -> {"audit"}
      [] OTHER -> {}

Slots == {"room", "amount", "balance"}
(* A reply: an id of an own room, an amount, an order to top up by an      *)
(* amount, several work orders at once, anything else.                     *)
ReplyKinds == {"room", "amount", "topup", "several", "other"}
Terminal == {"succeeded", "partial", "failed", "cancelled"}

(* What a specialist answers: a status, at most one tool, arguments that   *)
(* fit the schema, fit it but for the name of one key, or do not fit, and  *)
(* the slots it misses.                                                    *)
Answer(st, tool, args, missing) ==
    [st |-> st, tool |-> tool, args |-> args, missing |-> missing]
Nothing == Answer("none", "none", "good", {})
Silent(st) == Answer(st, "none", "good", {})
Asking(missing) == Answer("needs_input", "none", "good", missing)
Statuses == {"succeeded", "partial", "failed", "needs_input"}
Answers ==
    {Silent(st) : st \in Statuses \ {"needs_input"}}
    \cup {Asking(m) : m \in SUBSET {"room", "amount"}}
    \cup {Answer(st, t, args, {}) : st \in Statuses, t \in Tools,
                                    args \in {"good", "alias", "bad"}}
ASSUME OfferedAssumption ==
    /\ Goals \subseteq [kind : Kinds, words : SUBSET Targets,
                        agents : Seq(Targets), tools : SUBSET Tools]
    /\ Offered \subseteq Answers
    /\ Replies \subseteq ReplyKinds
    /\ Suggested \subseteq Targets

VARIABLES
    goal,   \* the objective of the run
    run,    \* its status
    plan,   \* the targets of its tasks
    ck,     \* the checkpoint
    steps,  \* its steps, each with its tool call and approval
    base,   \* run, plan, ck and steps before the command under way
    cmd,    \* the command to be executed
    tries,  \* how often it was begun
    pc,     \* where the runtime is; "idle" between commands
    said,   \* the reply this pass of the loop continues with
    out     \* the answer under consideration
vars == <<goal, run, plan, ck, steps, base, cmd, tries, pc, said, out>>

(* next counts the finished tasks; slots and topup (a reply was an order   *)
(* to top up) are those of the current task; wait is the step whose tool   *)
(* call waits for an approval.                                             *)
FreshCk == [next |-> 0, failed |-> FALSE, intent |-> "none", missing |-> {},
            slots |-> {}, topup |-> FALSE, reply |-> "none", wait |-> 0]
NoCmd == [act |-> "none", reply |-> "none"]
Start == [act |-> "start", reply |-> "none"]
Row(a, need) == [agent |-> a, need |-> need, st |-> "running", tool |-> "none",
                 call |-> "none", appr |-> "none",
                 again |-> FALSE, done |-> FALSE]

Init ==
    /\ goal \in Goals
    /\ run = "created"
    /\ plan = <<>>
    /\ ck = FreshCk
    /\ steps = <<>>
    /\ base = [run |-> run, plan |-> plan, ck |-> ck, steps |-> steps]
    /\ cmd = Start
    /\ tries = 0
    /\ pc = "idle"
    /\ said = "none"
    /\ out = Nothing

-------------------------------------------------------------------------------
(* Commands *)
Current == steps[Len(steps)]
SetCurrent(row) == steps' = [steps EXCEPT ![Len(steps)] = row]

(* The command is done: what it wrote stays.                               *)
Commit ==
    /\ base' = [run |-> run', plan |-> plan', ck |-> ck', steps |-> steps']
    /\ cmd' = NoCmd /\ tries' = 0
    /\ pc' = "idle" /\ said' = "none" /\ out' = Nothing
Goes(to) == pc' = to /\ UNCHANGED <<goal, base, cmd, tries>>

Claim ==
    /\ pc = "idle" /\ cmd # NoCmd
    /\ tries' = tries + 1
    /\ pc' = cmd.act
    /\ UNCHANGED <<goal, run, plan, ck, steps, base, cmd, said, out>>

(* Whatever raises: the provider is down or too late, an answer has no     *)
(* known tool, a refusal, an error of a handler, a lost worker, a step too *)
(* many.                                                                   *)
Raise ==
    /\ pc # "idle"
    /\ plan' = base.plan /\ ck' = base.ck /\ steps' = base.steps
    /\ pc' = "idle" /\ said' = "none" /\ out' = Nothing
    /\ IF tries < MaxAttempts
       THEN run' = base.run /\ UNCHANGED <<base, cmd, tries>>
       ELSE /\ run' = "failed"
            /\ base' = [base EXCEPT !.run = "failed"]
            /\ cmd' = NoCmd /\ tries' = 0
    /\ UNCHANGED goal

-------------------------------------------------------------------------------
(* Routing and planning *)
DomainOrder == <<"knowledge", "service", "community", "governance", "modelops">>
Alphabet == <<"community", "governance", "knowledge", "modelops", "service">>
Only(t, S) == IF t \in S THEN <<t>> ELSE <<>>
InOrder(order, S) == Only(order[1], S) \o Only(order[2], S) \o
                     Only(order[3], S) \o Only(order[4], S) \o Only(order[5], S)
Front(s, n) == SubSeq(s, 1, IF Len(s) < n THEN Len(s) ELSE n)
Members(s) == {s[i] : i \in DOMAIN s}

(* The first target leads; the candidates follow sorted, at most three     *)
(* targets in all.                                                         *)
Planned(first, candidates) ==
    Front(<<first>> \o InOrder(Alphabet, candidates \ {first}), 3)

(* The intent that outlives the turn: asked for is electricity.            *)
Intent(first, named) ==
    IF first # "service" THEN "none"
    ELSE IF AsksTopup(goal.kind) THEN "topup"
    ELSE IF goal.kind = "balance" \/ named THEN "balance"
    ELSE "none"

Begin(p, named) ==
    /\ pc = "start" /\ run = "created"
    /\ run' = "running"
    /\ plan' = p
    /\ ck' = [ck EXCEPT !.intent = Intent(p[1], named)]
    /\ Goes("next")
    /\ UNCHANGED <<steps, said, out>>

RouteExplicit ==
    /\ goal.agents # <<>>
    /\ Begin(Planned(goal.agents[1], Members(Tail(goal.agents))), FALSE)
(* The model is sure of one target; its candidates are dropped.  `named`:  *)
(* its reason code names electricity.                                      *)
RouteByModel(t, named) ==
    /\ goal.agents = <<>>
    /\ Begin(<<t>>, named)
(* The model is down or evades: the keywords decide.                       *)
RouteByRule ==
    /\ goal.agents = <<>> /\ goal.words # {}
    /\ LET matches == Front(InOrder(DomainOrder, goal.words), 3)
       IN Begin(Planned(matches[1], Members(matches)), FALSE)
(* The model is unsure, or no keyword is there.                            *)
Clarify ==
    /\ pc = "start" /\ run = "created" /\ goal.agents = <<>>
    /\ run' = "partial"
    /\ UNCHANGED <<goal, plan, ck, steps>>
    /\ Commit

-------------------------------------------------------------------------------
(* The user *)
Waits(status) == pc = "idle" /\ cmd = NoCmd /\ run = status

Reply(r) ==
    /\ Waits("awaiting_input")
    /\ cmd' = [act |-> "input", reply |-> r]
    /\ UNCHANGED <<goal, run, plan, ck, steps, base, tries, pc, said, out>>

Approve ==
    /\ Waits("awaiting_approval")
    /\ steps' = [steps EXCEPT ![ck.wait].appr = "approved"]
    /\ base' = [base EXCEPT !.steps = steps']
    /\ cmd' = [act |-> "resume", reply |-> "none"]
    /\ UNCHANGED <<goal, run, plan, ck, tries, pc, said, out>>

(* A refusal, the deadline of the approval, or the user cancels the run.   *)
Give(status) ==
    /\ Waits("awaiting_input") \/ Waits("awaiting_approval")
    /\ run' = status
    /\ base' = [base EXCEPT !.run = status]
    /\ UNCHANGED <<goal, plan, ck, steps, cmd, tries, pc, said, out>>
GiveUp == \E status \in {"cancelled", "partial"} : Give(status)

(* continue_input(): what the reply supplies.  An id of an own room fills  *)
(* the room of a service run, and makes it a balance query unless a top-up *)
(* was asked for; elsewhere it fills the one slot that misses.             *)
Supplies(r) ==
    (IF r \in {"amount", "topup"} /\ "amount" \in ck.missing
     THEN {"amount"} ELSE {})
    \cup (IF r # "room" THEN {}
          ELSE IF plan[1] = "service"
          THEN {"room"} \cup (IF AsksTopup(goal.kind) THEN {} ELSE {"balance"})
          ELSE IF Cardinality(ck.missing) = 1 THEN ck.missing ELSE {})
Continue ==
    /\ pc = "input" /\ run = "awaiting_input" /\ ck.next < Len(plan)
    /\ run' = "running"
    /\ ck' = [ck EXCEPT !.reply = cmd.reply,
                        !.topup = @ \/ cmd.reply = "topup",
                        !.slots = @ \cup Supplies(cmd.reply)]
    /\ Goes("next")
    /\ UNCHANGED <<plan, steps, said, out>>

-------------------------------------------------------------------------------
(* A step: whom to ask *)

(* The write tool the words call for, replies of the task included.        *)
Needed(topup) ==
    IF AsksTopup(goal.kind) \/ topup THEN "topup"
    ELSE IF goal.kind \in {"work_order", "post"} THEN goal.kind
    ELSE "none"

(* A work order can be created one at a time.                              *)
Honest == Asking({})

(* What earlier turns have settled is not asked of the model again.        *)
Settled(a, slots) ==
    IF a # "service" THEN "none"
    ELSE IF "balance" \in slots \/ ck.intent = "balance"
    THEN IF "room" \in slots THEN "balance" ELSE "none"
    ELSE IF ck.intent = "topup" /\ {"room", "amount"} \subseteq slots
    THEN "topup" ELSE "none"

NextStep ==
    LET a == plan[ck.next + 1]
        need == Needed(ck.reply # "none" /\ ck.topup)
        settled == Settled(a, IF ck.reply = "none" THEN {} ELSE ck.slots)
    IN
    /\ pc = "next" /\ ck.next < Len(plan) /\ Len(steps) < MaxSteps
    /\ steps' = Append(steps, Row(a, need))
    /\ ck' = [ck EXCEPT !.reply = "none"]
    /\ said' = ck.reply
    /\ IF settled # "none"
       THEN /\ \E args \in IF settled = "topup" THEN {"good", "bad"}
                                               ELSE {"good"} :
                   out' = Answer("succeeded", settled, args, {})
            /\ Goes("judge")
       ELSE IF need = "work_order" /\ ck.reply = "several"
       THEN out' = Honest /\ Goes("judge")
       ELSE out' = Nothing /\ Goes("ask")
    /\ UNCHANGED <<run, plan>>

(* Without a model: a top-up in the current message without an amount.     *)
AmountMissing ==
    /\ pc = "ask" /\ goal.kind = "bare_topup" /\ said = "none"
    /\ \E missing \in {{"amount"}, {"room", "amount"}} :
           out' = Asking(missing)
    /\ Goes("judge")
    /\ UNCHANGED <<run, plan, ck, steps, said>>

AfterAsk == [p \in {"ask", "ask_tool", "ask_args"} |->
                CASE p = "ask" -> "judge"
                  [] p = "ask_tool" -> "judge_tool"
                  [] p = "ask_args" -> "screen_again"]
Ask ==
    /\ pc \in DOMAIN AfterAsk
    /\ ~(pc = "ask" /\ goal.kind = "bare_topup" /\ said = "none")
    /\ out' \in Offered
    /\ Goes(AfterAsk[pc])
    /\ UNCHANGED <<run, plan, ck, steps, said>>

-------------------------------------------------------------------------------
(* A step: what to make of the answer *)

(* Mutant: only a wrong tool is noticed, not that there is none.           *)
UnbackedTool(o) == /\ Current.need # "none" /\ o.st = "succeeded"
                   /\ o.tool \notin {Current.need, "none"}
(* A success without the tool that the words call for is asked for again.  *)
Unbacked(o) == /\ Current.need # "none"
               /\ o.st = "succeeded" /\ o.tool # Current.need
Judge ==
    /\ pc = "judge"
    /\ Goes(IF Unbacked(out) THEN "ask_tool" ELSE "screen")
    /\ UNCHANGED <<run, plan, ck, steps, said, out>>
JudgeTool ==
    /\ pc = "judge_tool"
    /\ out' = IF \/ out.st = "succeeded" /\ out.tool = Current.need
                 \/ out.st = "needs_input"
              THEN out ELSE Honest
    /\ Goes("screen")
    /\ UNCHANGED <<run, plan, ck, steps, said>>

(* The content check may turn the answer into a failure, but not drop its  *)
(* tool.                                                                   *)
Screen ==
    /\ pc \in {"screen", "screen_again"}
    /\ out' \in {out, [out EXCEPT !.st = "failed", !.missing = {}]}
    /\ Goes(IF pc = "screen" THEN "prepare" ELSE "prepare_again")
    /\ UNCHANGED <<run, plan, ck, steps, said>>

(* Arguments that do not fit are asked for once more.                      *)
Prepare ==
    /\ pc = "prepare" /\ out.tool \in Registered
    /\ IF out.args = "bad"
       THEN SetCurrent([Current EXCEPT !.again = TRUE]) /\ Goes("ask_args")
       ELSE UNCHANGED steps /\ Goes("execute")
    /\ UNCHANGED <<run, plan, ck, said, out>>
(* Mutant: ... as often as it takes.                                       *)
PrepareAgainAndAgain ==
    /\ pc = "prepare_again" /\ out.tool \in Registered
    /\ Goes(IF out.args = "bad" THEN "ask_args" ELSE "execute")
    /\ UNCHANGED <<run, plan, ck, steps, said, out>>
PrepareAgain ==
    /\ pc = "prepare_again" /\ out.tool \in Registered
    /\ IF out.args = "bad"
       THEN /\ \E m \in Misses : out' = Asking(m)
            /\ Goes("finish")
       ELSE UNCHANGED out /\ Goes("execute")
    /\ UNCHANGED <<run, plan, ck, steps, said>>
NoTool ==
    /\ pc \in {"prepare", "prepare_again"} /\ out.tool = "none"
    /\ Goes("finish")
    /\ UNCHANGED <<run, plan, ck, steps, said, out>>

-------------------------------------------------------------------------------
(* A step: the tool *)

(* authorize(): the allowlist of the agent, cut down to the selection of   *)
(* the run, the permissions, the visibility.                               *)
Allowed(a, t) ==
    /\ t \in Allowlist(a)
    /\ goal.tools = {} \/ t \in goal.tools
    /\ t \in Permitted
    /\ t \notin Internal

(* Mutant: the last task alone decides how the run ends.                   *)
AdvanceForgetful(c, failed) ==
    [c EXCEPT !.next = @ + 1, !.failed = failed, !.wait = 0,
              !.slots = {}, !.topup = FALSE]
(* The task is finished; slots and replies are kept by task.               *)
Advance(c, failed) ==
    [c EXCEPT !.next = @ + 1, !.failed = @ \/ failed, !.wait = 0,
              !.slots = {}, !.topup = FALSE]
Called(call, st, appr) ==
    [Current EXCEPT !.tool = out.tool, !.call = call, !.st = st, !.appr = appr]

(* The arguments are refused: execute() validates them as the model sent   *)
(* them, without the repair of prepare(); the masked text, a preflight or  *)
(* a read-only handler refuses them for what they mean.                    *)
Refuse ==
    /\ pc = "execute"
    /\ out.args = "alias" \/ Allowed(Current.agent, out.tool)
    /\ SetCurrent(Called("failed", "partial", "none"))
    /\ \E m \in Misses : ck' = [ck EXCEPT !.missing = m]
    /\ run' = "awaiting_input"
    /\ UNCHANGED <<goal, plan>>
    /\ Commit

Runnable ==
    /\ pc = "execute" /\ out.args = "good"
    /\ Allowed(Current.agent, out.tool) /\ out.tool \in Handled

AskApproval ==
    /\ Runnable /\ out.tool \in Guarded
    /\ SetCurrent(Called("awaiting_approval", "awaiting_approval", "pending"))
    /\ ck' = [ck EXCEPT !.wait = Len(steps)]
    /\ run' = "awaiting_approval"
    /\ UNCHANGED <<goal, plan>>
    /\ Commit

RunTool ==
    /\ Runnable /\ out.tool \notin Guarded
    /\ SetCurrent(Called("succeeded", "succeeded", "none"))
    /\ ck' = Advance(ck, FALSE)
    /\ out' = Nothing /\ said' = "none"
    /\ Goes("next")
    /\ UNCHANGED <<run, plan>>

(* resume(): the stored call with its approval.                            *)
Waiting == steps[ck.wait]
SetWaiting(call, st, appr, done) ==
    steps' = [steps EXCEPT ![ck.wait] =
                 [@ EXCEPT !.call = call, !.st = st, !.appr = appr,
                           !.done = done]]
Resume ==
    /\ pc = "resume" /\ run = "awaiting_approval" /\ ck.wait # 0
    /\ Allowed(Waiting.agent, Waiting.tool) /\ Waiting.appr = "approved"
    /\ SetWaiting("succeeded", "succeeded", "consumed", TRUE)
    /\ run' = "running"
    /\ ck' = Advance(ck, FALSE)
    /\ Goes("next")
    /\ UNCHANGED <<plan, said, out>>
(* Mutant: the checkpoint keeps the call.                                  *)
ResumeRefusedKept(appr, done) ==
    /\ pc = "resume" /\ run = "awaiting_approval" /\ ck.wait # 0
    /\ Waiting.appr = "approved" /\ (done => appr = "consumed")
    /\ SetWaiting("failed", "partial", appr, done)
    /\ run' = "awaiting_input"
    /\ UNCHANGED <<goal, plan, ck>>
    /\ Commit
(* Refused before the approval is consumed (the masked text, the           *)
(* preflight), by the handler before its effect, or, the masked output     *)
(* being no output any more, after it.                                     *)
ResumeRefused(appr, done) ==
    /\ pc = "resume" /\ run = "awaiting_approval" /\ ck.wait # 0
    /\ Waiting.appr = "approved" /\ (done => appr = "consumed")
    /\ SetWaiting("failed", "partial", appr, done)
    /\ run' = "awaiting_input"
    /\ ck' = [ck EXCEPT !.wait = 0]
    /\ UNCHANGED <<goal, plan>>
    /\ Commit

-------------------------------------------------------------------------------
(* A step: without a tool, and the end *)

(* The slots that miss when the answer does not list them properly.        *)
DefaultMissing == IF /\ Current.agent = "service"
                     /\ goal.kind \in {"balance", "topup", "bare_topup"}
                  THEN {"room"} ELSE {}
Silently(st) == [Current EXCEPT !.st = st]
AskUser ==
    /\ pc = "finish" /\ out.st = "needs_input"
    /\ SetCurrent(Silently("partial"))
    /\ \E m \in {out.missing, DefaultMissing} : ck' = [ck EXCEPT !.missing = m]
    /\ run' = "awaiting_input"
    /\ UNCHANGED <<goal, plan>>
    /\ Commit
FinishStep ==
    /\ pc = "finish" /\ out.st # "needs_input"
    /\ SetCurrent(Silently(out.st))
    /\ ck' = Advance(ck, out.st \in {"partial", "failed"})
    /\ out' = Nothing /\ said' = "none"
    /\ Goes("next")
    /\ UNCHANGED <<run, plan>>

End ==
    /\ pc = "next" /\ ck.next = Len(plan)
    /\ run' = IF ck.failed THEN "partial" ELSE "succeeded"
    /\ UNCHANGED <<goal, plan, ck, steps>>
    /\ Commit

Route == \/ RouteExplicit \/ RouteByRule \/ Clarify
         \/ \E t \in Suggested, named \in BOOLEAN : RouteByModel(t, named)
Work == \/ Claim \/ Raise \/ Route \/ Continue
        \/ NextStep \/ AmountMissing \/ Ask
        \/ Judge \/ JudgeTool \/ Screen
        \/ Prepare \/ PrepareAgain \/ NoTool
        \/ Refuse \/ AskApproval \/ RunTool
        \/ Resume \/ (\E appr \in {"approved", "consumed"}, done \in BOOLEAN :
                          ResumeRefused(appr, done))
        \/ AskUser \/ FinishStep \/ End
User == Approve \/ GiveUp \/ \E r \in Replies : Reply(r)
Next == Work \/ User
Spec == Init /\ [][Next]_vars
(* A worker goes on as long as there is a command.                         *)
LiveSpec == Spec /\ WF_vars(Work)
-------------------------------------------------------------------------------
Rows == [agent : Targets, need : Guarded \cup {"none"},
         st : {"running", "awaiting_approval", "succeeded", "partial", "failed"},
         tool : Tools \cup {"none"},
         call : {"none", "awaiting_approval", "succeeded", "failed"},
         appr : {"none", "pending", "approved", "consumed"},
         again : BOOLEAN, done : BOOLEAN]
LastOf(t) == CHOOSE n \in DOMAIN steps :
                 /\ steps[n].agent = t
                 /\ \A m \in DOMAIN steps : steps[m].agent = t => m <= n
LastStatus(t) == steps[LastOf(t)].st
HasStep(t) == \E n \in DOMAIN steps : steps[n].agent = t

Checkpoints == [next : Nat, failed : BOOLEAN, wait : Nat,
                intent : {"none", "topup", "balance"},
                missing : SUBSET Slots, slots : SUBSET Slots,
                topup : BOOLEAN, reply : ReplyKinds \cup {"none"}]
Considered == [st : Statuses \cup {"none"}, tool : Tools \cup {"none"},
               args : {"good", "alias", "bad"},
               missing : SUBSET {"room", "amount"}]
RunStatus == {"created", "running", "awaiting_input", "awaiting_approval"}
                 \cup Terminal
States == [run : RunStatus, plan : Seq(Targets), ck : Checkpoints,
           steps : Seq(Rows)]
Points == {"idle", "start", "input", "resume", "next", "ask", "ask_tool",
           "ask_args", "judge", "judge_tool", "screen", "screen_again",
           "prepare", "prepare_again", "execute", "finish"}
(* Runs, checkpoints, steps and answers hold what their columns and        *)
(* schemas admit, before a command and at every point of it.               *)
TypeOK ==
    /\ goal \in Goals
    /\ [run |-> run, plan |-> plan, ck |-> ck, steps |-> steps] \in States
    /\ base \in States
    /\ cmd \in {NoCmd} \cup [act : {"start", "input", "resume"},
                             reply : ReplyKinds \cup {"none"}]
    /\ tries \in Nat
    /\ pc \in Points
    /\ said \in ReplyKinds \cup {"none"}
    /\ out \in Considered

(* A run that ends as succeeded has finished every task of its plan with   *)
(* a step that succeeded, whatever replies, approvals and refusals the     *)
(* task went through (had_failures is kept in the checkpoint across them). *)
DoneMeansDone ==
    run = "succeeded" =>
        \A k \in DOMAIN plan :
            HasStep(plan[k]) /\ LastStatus(plan[k]) = "succeeded"

(* A step whose words call for a write tool does not succeed on the word   *)
(* of the model alone: without a tool call it only succeeds if the model   *)
(* dropped the call when it was asked to correct its arguments.            *)
NoEmptyClaim ==
    \A n \in DOMAIN steps :
        /\ steps[n].need # "none" /\ steps[n].st = "succeeded"
        /\ steps[n].tool = "none"
        => steps[n].again

(* Between commands an open run waits for an approval exactly when one     *)
(* step holds a call that is pending or approved, and it is the step the   *)
(* checkpoint names; no write tool took effect without a consumed approval.*)
WaitIsBacked ==
    pc = "idle" /\ run \notin Terminal =>
        /\ run = "awaiting_approval" <=> ck.wait # 0
        /\ \A n \in DOMAIN steps :
               /\ steps[n].call = "awaiting_approval" <=> n = ck.wait
               /\ steps[n].done => steps[n].appr = "consumed"

(* A run restricted to selected tools runs no other and asks no approval   *)
(* for another, however often the models are asked again and whatever is   *)
(* resumed later.                                                          *)
SelectionHolds ==
    goal.tools # {} =>
        \A n \in DOMAIN steps :
            steps[n].call \in {"awaiting_approval", "succeeded"} =>
                steps[n].tool \in goal.tools

(* Every command ends: the re-asking within a step, the steps of a plan    *)
(* and the attempts of a command are bounded.                              *)
EveryTurnEnds == cmd # NoCmd ~> cmd = NoCmd
===============================================================================
