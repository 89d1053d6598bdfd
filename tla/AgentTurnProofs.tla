---------------------------- MODULE AgentTurnProofs ----------------------------
(***************************************************************************)
(* Proofs about AgentTurn, for any objectives, answers, replies, selected  *)
(* tools and bounds: what a succeeded run has done, that no step succeeds  *)
(* on an empty claim, what backs a wait for an approval, and that a        *)
(* selection of tools binds every call.                                    *)
(*                                                                         *)
(* The runtime goes back to the state before the command whenever          *)
(* something raises, so the invariant holds twice: of the state and of     *)
(* `base`.  The operators below have the state as parameters; the lemmas   *)
(* about them are about data alone, and the proof of each action cites     *)
(* them for the data it writes.                                            *)
(***************************************************************************)
EXTENDS AgentTurn, TLAPS

Plans == {p \in Seq(Targets) : \A i, k \in DOMAIN p : p[i] = p[k] => i = k}

(* What the properties demand of a single step; T are the selected tools.  *)
RowFits(T, x) ==
    /\ x.done => x.appr = "consumed" /\ x.call # "awaiting_approval"
    /\ x.need # "none" /\ x.st = "succeeded" /\ x.tool = "none" => x.again
    /\ T # {} /\ x.call \in {"awaiting_approval", "succeeded"} => x.tool \in T

(* The task of agent t is finished: its last step succeeded.               *)
TaskDone(t, st) ==
    \E n \in DOMAIN st : /\ st[n].agent = t /\ st[n].st = "succeeded"
                         /\ \A m \in DOMAIN st : st[m].agent = t => m <= n

(* Unless the checkpoint has noted a failure, the tasks it counts as       *)
(* finished are.                                                           *)
DoneSoFar(p, c, st) ==
    ~c.failed => \A k \in 1 .. c.next : TaskDone(p[k], st)

(* The one call that waits is that of the last step, and it belongs to the *)
(* task under way.                                                         *)
WaitFits(p, c, st) ==
    /\ c.wait # 0 => /\ c.wait = Len(st) /\ c.next < Len(p)
                     /\ st[c.wait].agent = p[c.next + 1]
    /\ \A n \in DOMAIN st : st[n].call = "awaiting_approval" <=> n = c.wait

StatusFits(rn, p, c) ==
    /\ rn \notin Terminal => (rn = "awaiting_approval" <=> c.wait # 0)
    /\ rn = "succeeded" => c.next = Len(p) /\ ~c.failed
    /\ rn = "created" => c.next = 0

Snap(T, rn, p, c, st) ==
    /\ p \in Plans /\ c.next <= Len(p)
    /\ \A n \in DOMAIN st : RowFits(T, st[n])
    /\ DoneSoFar(p, c, st)
    /\ WaitFits(p, c, st)
    /\ StatusFits(rn, p, c)

Judging == {"judge", "judge_tool", "screen", "screen_again", "prepare",
            "prepare_again", "execute", "finish"}
InStep == {"ask", "ask_tool", "ask_args"} \cup Judging

(* The step under way is the last one and has nothing to show yet.         *)
StepOpen(rn, p, c, st) ==
    /\ rn = "running" /\ c.wait = 0 /\ c.next < Len(p) /\ st # <<>>
    /\ LET x == st[Len(st)]
       IN /\ x.agent = p[c.next + 1] /\ x.st = "running" /\ x.tool = "none"
          /\ x.call = "none" /\ x.appr = "none" /\ ~x.done

(* What each point of a step has settled about the answer o.               *)
AnswerFits(at, o, x) ==
    /\ at \in Judging => o.st \in Statuses
    /\ at \in {"screen", "prepare"} /\ x.need # "none" /\ o.st = "succeeded"
           => o.tool # "none"
    /\ at \in {"ask_args", "screen_again", "prepare_again"} => x.again
    /\ at = "execute" => o.tool \in Registered
    /\ at = "finish" /\ x.need # "none" /\ o.st = "succeeded" => x.again

Point(at, rn, p, c, st, o) ==
    /\ at = "next" => rn = "running" /\ c.wait = 0
    /\ at \in InStep => StepOpen(rn, p, c, st) /\ AnswerFits(at, o, st[Len(st)])

IInv ==
    /\ TypeOK
    /\ Snap(goal.tools, run, plan, ck, steps)
    /\ Snap(goal.tools, base.run, base.plan, base.ck, base.steps)
    /\ Point(pc, run, plan, ck, steps, out)
    /\ pc = "idle" => base = [run |-> run, plan |-> plan, ck |-> ck,
                              steps |-> steps]

-----------------------------------------------------------------------------
(* Sequences of steps *)

(* t is st with x as its last step.                                        *)
LastSet(t, st, x) ==
    /\ t \in Seq(Rows) /\ Len(t) = Len(st) /\ t[Len(st)] = x
    /\ DOMAIN t = DOMAIN st /\ t # <<>>
    /\ \A n \in DOMAIN t : n # Len(st) => t[n] = st[n]

LEMMA Replaced ==
    ASSUME NEW st \in Seq(Rows), st # <<>>, NEW x \in Rows,
           NEW t, t = [st EXCEPT ![Len(st)] = x]
    PROVE  LastSet(t, st, x)
BY DEF LastSet

(* The step under way is replaced: the finished tasks stay finished, since *)
(* it belongs to none of them.                                             *)
LEMMA SetRow ==
    ASSUME NEW T, NEW rn, NEW p, NEW c \in Checkpoints, NEW st \in Seq(Rows),
           Snap(T, rn, p, c, st), st # <<>>, c.next < Len(p),
           NEW x \in Rows, st[Len(st)].agent = p[c.next + 1],
           x.agent = p[c.next + 1],
           NEW t, LastSet(t, st, x)
    PROVE  /\ DoneSoFar(p, c, t)
           /\ RowFits(T, x) => \A n \in DOMAIN t : RowFits(T, t[n])
<1>1. /\ t \in Seq(Rows) /\ Len(t) = Len(st) /\ t[Len(t)] = x
      /\ DOMAIN t = DOMAIN st /\ DOMAIN st = 1 .. Len(st)
      /\ \A n \in DOMAIN t : n # Len(st) => t[n] = st[n]
  BY DEF LastSet
<1>2. p \in Seq(Targets) /\ \A i, k \in DOMAIN p : p[i] = p[k] => i = k
  BY DEF Snap, Plans
<1>3. c.next \in Nat
  BY DEF Checkpoints
<1>4. ASSUME ~c.failed, NEW k \in 1 .. c.next PROVE TaskDone(p[k], t)
  <2>1. PICK n \in DOMAIN st : /\ st[n].agent = p[k] /\ st[n].st = "succeeded"
                               /\ \A m \in DOMAIN st : st[m].agent = p[k] => m <= n
    BY <1>4 DEF Snap, DoneSoFar, TaskDone
  <2>2. p[k] # p[c.next + 1]
    BY <1>2, <1>3
  <2>3. n # Len(st)
    BY <2>1, <2>2
  <2>4. t[n] = st[n] /\ n \in DOMAIN t
    BY <1>1, <2>3
  <2>5. ASSUME NEW m \in DOMAIN t, t[m].agent = p[k] PROVE m <= n
    BY <2>5, <2>1, <2>2, <1>1
  <2> QED
    BY <2>1, <2>4, <2>5 DEF TaskDone
<1>5. DoneSoFar(p, c, t)
  BY <1>4 DEF DoneSoFar
<1>6. ASSUME RowFits(T, x), NEW n \in DOMAIN t PROVE RowFits(T, t[n])
  BY <1>6, <1>1 DEF Snap
<1> QED
  BY <1>1, <1>5, <1>6

(* A step of the task under way is added.                                  *)
LEMMA AddRow ==
    ASSUME NEW T, NEW rn, NEW p, NEW c \in Checkpoints, NEW st \in Seq(Rows),
           Snap(T, rn, p, c, st), c.next < Len(p), c.wait = 0,
           NEW x \in Rows, x.agent = p[c.next + 1],
           x.call # "awaiting_approval", RowFits(T, x)
    PROVE  /\ Append(st, x) \in Seq(Rows)
           /\ Len(Append(st, x)) = Len(st) + 1
           /\ Append(st, x)[Len(st) + 1] = x
           /\ Snap(T, rn, p, c, Append(st, x))
<1> DEFINE t == Append(st, x)
<1>1. /\ t \in Seq(Rows) /\ Len(t) = Len(st) + 1 /\ t[Len(st) + 1] = x
      /\ DOMAIN t = 1 .. Len(st) + 1 /\ DOMAIN st = 1 .. Len(st)
      /\ \A n \in DOMAIN st : t[n] = st[n] /\ n \in DOMAIN t
      /\ Len(st) \in Nat
  OBVIOUS
<1>2. p \in Seq(Targets) /\ \A i, k \in DOMAIN p : p[i] = p[k] => i = k
  BY DEF Snap, Plans
<1>3. c.next \in Nat
  BY DEF Checkpoints
<1>9. \A n \in DOMAIN t : n \in DOMAIN st \/ n = Len(st) + 1
  BY <1>1
<1> HIDE DEF t
<1>4. ASSUME ~c.failed, NEW k \in 1 .. c.next PROVE TaskDone(p[k], t)
  <2>1. PICK n \in DOMAIN st : /\ st[n].agent = p[k] /\ st[n].st = "succeeded"
                               /\ \A m \in DOMAIN st : st[m].agent = p[k] => m <= n
    BY <1>4 DEF Snap, DoneSoFar, TaskDone
  <2>2. p[k] # p[c.next + 1]
    BY <1>2, <1>3
  <2>5. ASSUME NEW m \in DOMAIN t, t[m].agent = p[k] PROVE m <= n
    BY <2>5, <2>1, <2>2, <1>1, <1>9
  <2> QED
    BY <2>1, <2>5, <1>1 DEF TaskDone
<1>5. DoneSoFar(p, c, t)
  BY <1>4 DEF DoneSoFar
<1>6. \A n \in DOMAIN t : RowFits(T, t[n])
  BY <1>1, <1>9 DEF Snap
<1>7. WaitFits(p, c, t)
  BY <1>1, <1>9 DEF Snap, WaitFits
<1>8. Snap(T, rn, p, c, t)
  BY <1>5, <1>6, <1>7 DEF Snap
<1> QED
  BY <1>1, <1>8 DEF t

(* The checkpoint counts one more task.                                    *)
LEMMA Advanced ==
    ASSUME NEW p \in Plans, NEW c \in Checkpoints, NEW st \in Seq(Rows),
           c.next < Len(p), DoneSoFar(p, c, st), NEW f \in BOOLEAN,
           ~f => TaskDone(p[c.next + 1], st),
           \A n \in DOMAIN st : st[n].call # "awaiting_approval",
           NEW d, d = Advance(c, f)
    PROVE  /\ d \in Checkpoints /\ d.next <= Len(p) /\ d.wait = 0
           /\ DoneSoFar(p, d, st) /\ WaitFits(p, d, st)
<1>1. /\ d \in Checkpoints /\ d.next = c.next + 1 /\ d.wait = 0
      /\ d.failed = (c.failed \/ f) /\ c.next \in Nat
  <2> DEFINE c1 == [c EXCEPT !.next = c.next + 1]
             c2 == [c1 EXCEPT !.failed = c.failed \/ f]
             c3 == [c2 EXCEPT !.wait = 0]
             c4 == [c3 EXCEPT !.slots = {}]
             c5 == [c4 EXCEPT !.topup = FALSE]
  <2>1. c1 \in Checkpoints /\ c1.next = c.next + 1 /\ c.next \in Nat
    BY DEF Checkpoints
  <2>2. c.failed \in BOOLEAN
    BY DEF Checkpoints
  <2>3. (c.failed \/ f) \in BOOLEAN
    OBVIOUS
  <2> HIDE DEF c1
  <2>4. c2 \in Checkpoints /\ c2.next = c1.next /\ c2.failed = (c.failed \/ f)
    BY <2>1, <2>3 DEF Checkpoints
  <2> HIDE DEF c2
  <2>5. /\ c3 \in Checkpoints /\ c3.next = c2.next /\ c3.failed = c2.failed
        /\ c3.wait = 0
    BY <2>4 DEF Checkpoints
  <2> HIDE DEF c3
  <2>6. /\ c4 \in Checkpoints /\ c4.next = c3.next /\ c4.failed = c3.failed
        /\ c4.wait = c3.wait
    BY <2>5 DEF Checkpoints
  <2> HIDE DEF c4
  <2>7. /\ c5 \in Checkpoints /\ c5.next = c4.next /\ c5.failed = c4.failed
        /\ c5.wait = c4.wait
    BY <2>6 DEF Checkpoints
  <2>8. d = c5
    BY DEF Advance, c5, c4, c3, c2, c1, Checkpoints
  <2> HIDE DEF c5
  <2> QED
    BY <2>1, <2>4, <2>5, <2>6, <2>7, <2>8
<1>2. p \in Seq(Targets) /\ Len(p) \in Nat
  BY DEF Plans
<1>3. ASSUME ~d.failed, NEW k \in 1 .. d.next PROVE TaskDone(p[k], st)
  <2>1. CASE k = c.next + 1
    BY <2>1, <1>1, <1>3
  <2>2. CASE k # c.next + 1
    <3>1. k \in 1 .. c.next
      <4>1. d.next = c.next + 1 /\ c.next \in Nat /\ k \in 1 .. d.next
        BY <1>1
      <4> QED
        BY <4>1, <2>2
    <3>2. ~c.failed
      BY <1>1, <1>3
    <3> QED
      BY <3>1, <3>2 DEF DoneSoFar
  <2> QED
    BY <2>1, <2>2
<1>4. WaitFits(p, d, st)
  <2>1. \A n \in DOMAIN st : n # 0
    OBVIOUS
  <2> QED
    BY <2>1, <1>1 DEF WaitFits
<1>5. DoneSoFar(p, d, st)
  BY <1>3 DEF DoneSoFar
<1> QED
  BY <1>1, <1>2, <1>4, <1>5

LEMMA LastDone ==
    ASSUME NEW st \in Seq(Rows), st # <<>>, st[Len(st)].st = "succeeded"
    PROVE  TaskDone(st[Len(st)].agent, st)
<1>1. Len(st) \in DOMAIN st /\ \A m \in DOMAIN st : m <= Len(st)
  OBVIOUS
<1> QED
  BY <1>1 DEF TaskDone

-----------------------------------------------------------------------------
(* Plans *)

LEMMA Joined ==
    ASSUME NEW p \in Plans, NEW q \in Plans, Members(p) \cap Members(q) = {}
    PROVE  p \o q \in Plans /\ Members(p \o q) = Members(p) \cup Members(q)
<1>1. p \in Seq(Targets) /\ q \in Seq(Targets)
  BY DEF Plans
<1> DEFINE t == p \o q
<1>2. /\ t \in Seq(Targets) /\ Len(t) = Len(p) + Len(q)
      /\ DOMAIN t = 1 .. Len(p) + Len(q)
      /\ DOMAIN p = 1 .. Len(p) /\ DOMAIN q = 1 .. Len(q)
      /\ Len(p) \in Nat /\ Len(q) \in Nat
      /\ \A i \in 1 .. Len(p) : t[i] = p[i]
      /\ \A i \in 1 .. Len(q) : t[Len(p) + i] = q[i]
  BY <1>1
<1>3. \A i \in DOMAIN t : i \notin 1 .. Len(p) =>
          i - Len(p) \in 1 .. Len(q) /\ t[i] = q[i - Len(p)]
  <2> TAKE i \in DOMAIN t
  <2> HAVE i \notin 1 .. Len(p)
  <2>1. i \in 1 .. Len(p) + Len(q)
    BY <1>2
  <2>2. i - Len(p) \in 1 .. Len(q) /\ Len(p) + (i - Len(p)) = i
    BY <2>1, <1>2
  <2> QED
    BY <2>2, <1>2
<1> HIDE DEF t
<1>4. Members(t) = Members(p) \cup Members(q)
  <2>1. Members(t) \subseteq Members(p) \cup Members(q)
    BY <1>2, <1>3 DEF Members
  <2>2. ASSUME NEW i \in DOMAIN p PROVE p[i] \in Members(t)
    <3>1. i \in DOMAIN t /\ t[i] = p[i]
      BY <1>2
    <3> QED
      BY <3>1 DEF Members
  <2>3. ASSUME NEW i \in DOMAIN q PROVE q[i] \in Members(t)
    <3>1. Len(p) + i \in DOMAIN t /\ t[Len(p) + i] = q[i]
      BY <1>2
    <3> QED
      BY <3>1 DEF Members
  <2> QED
    BY <2>1, <2>2, <2>3 DEF Members
<1>5. ASSUME NEW i \in DOMAIN t, NEW k \in DOMAIN t, t[i] = t[k] PROVE i = k
  <2>1. CASE i \in 1 .. Len(p) /\ k \in 1 .. Len(p)
    BY <2>1, <1>2, <1>5 DEF Plans
  <2>2. CASE i \notin 1 .. Len(p) /\ k \notin 1 .. Len(p)
    <3>1. i - Len(p) = k - Len(p)
      BY <2>2, <1>2, <1>3, <1>5 DEF Plans
    <3> QED
      BY <3>1, <1>2
  <2>3. CASE i \in 1 .. Len(p) /\ k \notin 1 .. Len(p)
    <3>1. t[i] = p[i] /\ p[i] \in Members(p)
      BY <2>3, <1>2 DEF Members
    <3>2. t[k] = q[k - Len(p)] /\ q[k - Len(p)] \in Members(q)
      BY <2>3, <1>2, <1>3 DEF Members
    <3> QED
      BY <3>1, <3>2, <1>5
  <2>4. CASE i \notin 1 .. Len(p) /\ k \in 1 .. Len(p)
    <3>1. t[k] = p[k] /\ p[k] \in Members(p)
      BY <2>4, <1>2 DEF Members
    <3>2. t[i] = q[i - Len(p)] /\ q[i - Len(p)] \in Members(q)
      BY <2>4, <1>2, <1>3 DEF Members
    <3> QED
      BY <3>1, <3>2, <1>5
  <2> QED
    BY <2>1, <2>2, <2>3, <2>4
<1>6. t \in Plans
  BY <1>2, <1>5 DEF Plans
<1> QED
  BY <1>4, <1>6 DEF t

LEMMA OnlyOne ==
    ASSUME NEW t \in Targets, NEW S
    PROVE  Only(t, S) \in Plans /\ Members(Only(t, S)) = {t} \cap S
<1>1. CASE t \in S
  <2>1. Only(t, S) = <<t>>
    BY <1>1 DEF Only
  <2>2. <<t>> \in Seq(Targets) /\ DOMAIN <<t>> = {1} /\ <<t>>[1] = t
    OBVIOUS
  <2> QED
    BY <1>1, <2>1, <2>2 DEF Plans, Members
<1>2. CASE t \notin S
  BY <1>2 DEF Only, Plans, Members
<1> QED
  BY <1>1, <1>2

LEMMA OrderedPlan ==
    ASSUME NEW order \in {DomainOrder, Alphabet}, NEW S
    PROVE  /\ InOrder(order, S) \in Plans
           /\ Members(InOrder(order, S)) = Targets \cap S
<1> DEFINE o(i) == Only(order[i], S)
<1>1. /\ \A i \in 1 .. 5 : order[i] \in Targets
      /\ \A i, k \in 1 .. 5 : order[i] = order[k] => i = k
      /\ Targets = {order[1], order[2], order[3], order[4], order[5]}
  <2>1. CASE order = DomainOrder
    BY <2>1 DEF DomainOrder, Targets
  <2>2. CASE order = Alphabet
    BY <2>2 DEF Alphabet, Targets
  <2> QED
    BY <2>1, <2>2
<1>2. \A i \in 1 .. 5 : o(i) \in Plans /\ Members(o(i)) = {order[i]} \cap S
  BY <1>1, OnlyOne
<1> HIDE DEF o
<1>3. o(1) \o o(2) \in Plans /\ Members(o(1) \o o(2)) = {order[1], order[2]} \cap S
  BY <1>1, <1>2, Joined
<1>4. /\ (o(1) \o o(2)) \o o(3) \in Plans
      /\ Members((o(1) \o o(2)) \o o(3)) = {order[1], order[2], order[3]} \cap S
  BY <1>1, <1>2, <1>3, Joined
<1>5. /\ ((o(1) \o o(2)) \o o(3)) \o o(4) \in Plans
      /\ Members(((o(1) \o o(2)) \o o(3)) \o o(4))
             = {order[1], order[2], order[3], order[4]} \cap S
  BY <1>1, <1>2, <1>4, Joined
<1>6. /\ (((o(1) \o o(2)) \o o(3)) \o o(4)) \o o(5) \in Plans
      /\ Members((((o(1) \o o(2)) \o o(3)) \o o(4)) \o o(5))
             = {order[1], order[2], order[3], order[4], order[5]} \cap S
  BY <1>1, <1>2, <1>5, Joined
<1>7. InOrder(order, S) = (((o(1) \o o(2)) \o o(3)) \o o(4)) \o o(5)
  BY DEF InOrder, o
<1> QED
  BY <1>1, <1>6, <1>7

LEMMA FrontPlan ==
    ASSUME NEW p \in Plans, p # <<>>
    PROVE  /\ Front(p, 3) \in Plans /\ Front(p, 3) # <<>>
           /\ Members(Front(p, 3)) \subseteq Members(p)
           /\ Front(p, 3)[1] = p[1]
<1>1. p \in Seq(Targets) /\ Len(p) \in Nat /\ Len(p) >= 1 /\ DOMAIN p = 1 .. Len(p)
  BY DEF Plans
<1>2. PICK n \in 1 .. Len(p) : Front(p, 3) = SubSeq(p, 1, n)
  <2>1. CASE Len(p) < 3
    <3>1. Len(p) \in 1 .. Len(p) /\ Front(p, 3) = SubSeq(p, 1, Len(p))
      BY <2>1, <1>1 DEF Front
    <3> QED
      BY <3>1
  <2>2. CASE ~(Len(p) < 3)
    BY <2>2, <1>1 DEF Front
  <2> QED
    BY <2>1, <2>2
<1> DEFINE t == SubSeq(p, 1, n)
<1>3. /\ t \in Seq(Targets) /\ DOMAIN t = 1 .. n /\ Len(t) = n
      /\ \A i \in 1 .. n : t[i] = p[i]
  BY <1>1
<1>4. \A i \in 1 .. n : i \in DOMAIN p
  BY <1>1
<1> HIDE DEF t
<1>5. t \in Plans /\ t # <<>> /\ t[1] = p[1]
  BY <1>1, <1>3, <1>4 DEF Plans
<1>6. Members(t) \subseteq Members(p)
  BY <1>3, <1>4 DEF Members
<1> QED
  BY <1>2, <1>5, <1>6 DEF t

LEMMA PlannedPlan ==
    ASSUME NEW first \in Targets, NEW S
    PROVE  Planned(first, S) \in Plans /\ Planned(first, S) # <<>>
<1>1. /\ InOrder(Alphabet, S \ {first}) \in Plans
      /\ Members(InOrder(Alphabet, S \ {first})) = Targets \cap (S \ {first})
  BY OrderedPlan
<1>2. <<first>> \in Plans /\ Members(<<first>>) = {first}
  <2>1. Only(first, {first}) = <<first>>
    BY DEF Only
  <2> QED
    BY <2>1, OnlyOne
<1>3. /\ <<first>> \o InOrder(Alphabet, S \ {first}) \in Plans
      /\ first \in Members(<<first>> \o InOrder(Alphabet, S \ {first}))
  BY <1>1, <1>2, Joined
<1>4. <<first>> \o InOrder(Alphabet, S \ {first}) # <<>>
  BY <1>3 DEF Members
<1> QED
  BY <1>3, <1>4, FrontPlan DEF Planned

-----------------------------------------------------------------------------
(* The ways a step of the runtime ends *)

LEMMA Typed ==
    ASSUME TypeOK
    PROVE  /\ run \in RunStatus /\ plan \in Seq(Targets)
           /\ ck \in Checkpoints /\ steps \in Seq(Rows)
           /\ base.run \in RunStatus /\ base.plan \in Seq(Targets)
           /\ base.ck \in Checkpoints /\ base.steps \in Seq(Rows)
           /\ goal \in Goals
BY DEF TypeOK, States

LEMMA StateRow ==
    ASSUME NEW rn \in RunStatus, NEW p \in Seq(Targets),
           NEW c \in Checkpoints, NEW st \in Seq(Rows)
    PROVE  [run |-> rn, plan |-> p, ck |-> c, steps |-> st] \in States
BY DEF States

LEMMA GoesOn ==
    ASSUME IInv, NEW to \in Points \ {"idle"}, Goes(to),
           run' \in RunStatus, plan' \in Seq(Targets), ck' \in Checkpoints,
           steps' \in Seq(Rows), said' \in ReplyKinds \cup {"none"},
           out' \in Considered,
           Snap(goal.tools, run', plan', ck', steps'),
           Point(to, run', plan', ck', steps', out')
    PROVE  IInv'
<1>1. /\ pc' = to /\ goal' = goal /\ base' = base /\ cmd' = cmd /\ tries' = tries
      /\ TypeOK
      /\ Snap(goal.tools, base.run, base.plan, base.ck, base.steps)
  BY DEF Goes, IInv
<1>2. [run |-> run', plan |-> plan', ck |-> ck', steps |-> steps'] \in States
  BY StateRow
<1>3. TypeOK'
  BY <1>1, <1>2 DEF TypeOK
<1> QED
  BY <1>1, <1>3 DEF IInv

LEMMA Committed ==
    ASSUME IInv, Commit, goal' = goal,
           run' \in RunStatus, plan' \in Seq(Targets), ck' \in Checkpoints,
           steps' \in Seq(Rows),
           Snap(goal.tools, run', plan', ck', steps')
    PROVE  IInv'
<1> DEFINE now == [run |-> run', plan |-> plan', ck |-> ck', steps |-> steps']
<1>1. /\ pc' = "idle" /\ base' = now /\ cmd' = NoCmd /\ tries' = 0
      /\ said' = "none" /\ out' = Nothing /\ TypeOK
  BY DEF Commit, IInv
<1>2. now \in States
  BY StateRow
<1>3. /\ base'.run = run' /\ base'.plan = plan' /\ base'.ck = ck'
      /\ base'.steps = steps'
  BY <1>1
<1>4. Nothing \in Considered
  BY DEF Nothing, Answer, Considered
<1>5. TypeOK'
  BY <1>1, <1>2, <1>4 DEF TypeOK, Points
<1>6. Point(pc', run', plan', ck', steps', out')
  BY <1>1 DEF Point, InStep, Judging
<1>7. Snap(goal'.tools, base'.run, base'.plan, base'.ck, base'.steps)
  BY <1>3
<1> QED
  BY <1>1, <1>5, <1>6, <1>7 DEF IInv

LEMMA ClaimStep == ASSUME IInv, Claim PROVE IInv'
<1>1. /\ cmd # NoCmd /\ pc' = cmd.act /\ tries' = tries + 1
      /\ UNCHANGED <<goal, run, plan, ck, steps, base, cmd, said, out>>
      /\ TypeOK
  BY DEF Claim, IInv
<1>2. pc' \in {"start", "input", "resume"}
  BY <1>1 DEF TypeOK
<1>3. TypeOK'
  BY <1>1, <1>2 DEF TypeOK, Points
<1>4. Point(pc', run, plan, ck, steps, out)
  BY <1>2 DEF Point, InStep, Judging
<1> QED
  BY <1>1, <1>2, <1>3, <1>4 DEF IInv

LEMMA SnapClosed ==
    ASSUME NEW T, NEW rn, NEW p, NEW c, NEW st, Snap(T, rn, p, c, st),
           NEW end \in Terminal \ {"succeeded"}
    PROVE  Snap(T, end, p, c, st)
BY DEF Snap, StatusFits, Terminal

LEMMA RaiseStep == ASSUME IInv, Raise PROVE IInv'
<1>1. /\ plan' = base.plan /\ ck' = base.ck /\ steps' = base.steps
      /\ pc' = "idle" /\ said' = "none" /\ out' = Nothing /\ goal' = goal
      /\ TypeOK /\ Snap(goal.tools, base.run, base.plan, base.ck, base.steps)
  BY DEF Raise, IInv
<1>2. Nothing \in Considered
  BY DEF Nothing, Answer, Considered
<1>3. Point(pc', run', plan', ck', steps', out')
  BY <1>1 DEF Point, InStep, Judging
<1>4. base \in States
  BY <1>1 DEF TypeOK
<1>5. CASE run' = base.run /\ UNCHANGED <<base, cmd, tries>>
  <2>1. [run |-> run', plan |-> plan', ck |-> ck', steps |-> steps'] = base
    BY <1>1, <1>4, <1>5 DEF States
  <2>2. TypeOK'
    BY <1>1, <1>2, <1>4, <1>5, <2>1 DEF TypeOK, Points
  <2> QED
    BY <1>1, <1>3, <1>5, <2>1, <2>2 DEF IInv
<1>6. CASE /\ run' = "failed" /\ base' = [base EXCEPT !.run = "failed"]
           /\ cmd' = NoCmd /\ tries' = 0
  <2>1. /\ base' \in States /\ base'.run = run' /\ base'.plan = plan'
        /\ base'.ck = ck' /\ base'.steps = steps'
        /\ base' = [run |-> run', plan |-> plan', ck |-> ck', steps |-> steps']
    BY <1>1, <1>4, <1>6 DEF States, RunStatus, Terminal
  <2>2. TypeOK'
    BY <1>1, <1>2, <1>6, <2>1 DEF TypeOK, Points
  <2>3. Snap(goal.tools, "failed", base.plan, base.ck, base.steps)
    BY <1>1, SnapClosed DEF Terminal
  <2>4. Snap(goal'.tools, run', plan', ck', steps')
    BY <1>1, <1>6, <2>3
  <2>5. Snap(goal'.tools, base'.run, base'.plan, base'.ck, base'.steps)
    BY <2>1, <2>4
  <2> QED
    BY <1>3, <2>1, <2>2, <2>4, <2>5 DEF IInv
<1> QED
  BY <1>5, <1>6 DEF Raise

-----------------------------------------------------------------------------
(* Routing *)

LEMMA BeginStep ==
    ASSUME IInv, NEW p \in Plans, p # <<>>, NEW named \in BOOLEAN,
           Begin(p, named)
    PROVE  IInv'
<1>1. /\ run = "created" /\ run' = "running" /\ plan' = p
      /\ ck' = [ck EXCEPT !.intent = Intent(p[1], named)]
      /\ Goes("next") /\ steps' = steps /\ said' = said /\ out' = out
  BY DEF Begin
<1>2. Snap(goal.tools, run, plan, ck, steps) /\ TypeOK
  BY DEF IInv
<1>3. ck \in Checkpoints /\ steps \in Seq(Rows)
  BY <1>2, Typed
<1>4. Intent(p[1], named) \in {"none", "topup", "balance"}
  BY DEF Intent
<1>5. /\ ck' \in Checkpoints /\ ck'.next = ck.next /\ ck'.wait = ck.wait
      /\ ck'.failed = ck.failed
  BY <1>1, <1>3, <1>4 DEF Checkpoints
<1>6. ck.wait = 0
  BY <1>1, <1>2 DEF Snap, StatusFits, Terminal
<1> QED
  <2>1. ck.next = 0 /\ ck'.next = 0 /\ ck'.wait = 0
    BY <1>1, <1>2, <1>5, <1>6 DEF Snap, StatusFits
  <2>2. DoneSoFar(p, ck', steps)
    BY <2>1 DEF DoneSoFar
  <2>3. WaitFits(p, ck', steps)
    BY <1>2, <1>6, <2>1 DEF Snap, WaitFits
  <2>4. StatusFits("running", p, ck')
    BY <2>1 DEF StatusFits
  <2>5. p \in Seq(Targets) /\ ck'.next <= Len(p)
    BY <2>1 DEF Plans
  <2>6. Snap(goal.tools, "running", p, ck', steps)
    BY <1>2, <2>2, <2>3, <2>4, <2>5 DEF Snap
  <2>7. Snap(goal.tools, run', plan', ck', steps')
    BY <1>1, <2>6
  <2>8. Point("next", run', plan', ck', steps', out')
    BY <1>1, <2>1 DEF Point, InStep, Judging
  <2>9. run' \in RunStatus /\ plan' \in Seq(Targets) /\ steps' \in Seq(Rows)
    BY <1>1, <1>3, <2>5 DEF RunStatus
  <2>10. said' \in ReplyKinds \cup {"none"} /\ out' \in Considered
    BY <1>1, <1>2 DEF TypeOK
  <2> QED
    BY <1>1, <1>5, <2>7, <2>8, <2>9, <2>10, GoesOn DEF Points

LEMMA GoalRow ==
    ASSUME TypeOK
    PROVE  /\ goal.words \in SUBSET Targets /\ goal.agents \in Seq(Targets)
           /\ goal.kind \in Kinds /\ goal.tools \in SUBSET Tools
BY OfferedAssumption DEF TypeOK

LEMMA RouteStep == ASSUME IInv, Route PROVE IInv'
<1>0. TypeOK /\ goal.words \in SUBSET Targets /\ goal.agents \in Seq(Targets)
  BY GoalRow DEF IInv
<1>1. CASE RouteExplicit
  <2>1. goal.agents[1] \in Targets
    BY <1>0, <1>1 DEF RouteExplicit
  <2>2. /\ Planned(goal.agents[1], Members(Tail(goal.agents))) \in Plans
        /\ Planned(goal.agents[1], Members(Tail(goal.agents))) # <<>>
    BY <2>1, PlannedPlan
  <2> QED
    BY <1>1, <2>2, BeginStep DEF RouteExplicit
<1>2. CASE RouteByRule
  <2> DEFINE matches == Front(InOrder(DomainOrder, goal.words), 3)
  <2>1. /\ InOrder(DomainOrder, goal.words) \in Plans
        /\ Members(InOrder(DomainOrder, goal.words)) = Targets \cap goal.words
    BY OrderedPlan
  <2>2. PICK t \in goal.words : t \in Members(InOrder(DomainOrder, goal.words))
    BY <1>0, <1>2, <2>1 DEF RouteByRule
  <2>3. InOrder(DomainOrder, goal.words) # <<>>
    BY <2>2 DEF Members
  <2>4. matches \in Plans /\ matches # <<>>
    BY <2>1, <2>3, FrontPlan
  <2>5. matches[1] \in Targets
    BY <2>4 DEF Plans
  <2>6. /\ Planned(matches[1], Members(matches)) \in Plans
        /\ Planned(matches[1], Members(matches)) # <<>>
    BY <2>5, PlannedPlan
  <2>7. Begin(Planned(matches[1], Members(matches)), FALSE)
    BY <1>2 DEF RouteByRule
  <2> QED
    BY <2>6, <2>7, BeginStep
<1>3. ASSUME NEW t \in Suggested, NEW named \in BOOLEAN, RouteByModel(t, named)
      PROVE  IInv'
  <2>1. t \in Targets
    BY OfferedAssumption
  <2>2. Only(t, {t}) = <<t>>
    BY DEF Only
  <2>3. <<t>> \in Plans /\ <<t>> # <<>>
    BY <2>1, <2>2, OnlyOne
  <2> QED
    BY <1>3, <2>3, BeginStep DEF RouteByModel
<1>4. CASE Clarify
  <2>1. /\ run' = "partial" /\ UNCHANGED <<goal, plan, ck, steps>> /\ Commit
        /\ Snap(goal.tools, run, plan, ck, steps)
    BY <1>4 DEF Clarify, IInv
  <2>2. Snap(goal.tools, "partial", plan, ck, steps)
    BY <2>1, SnapClosed DEF Terminal
  <2>3. Snap(goal.tools, run', plan', ck', steps')
    BY <2>1, <2>2
  <2>4. /\ run' \in RunStatus /\ plan' \in Seq(Targets)
        /\ ck' \in Checkpoints /\ steps' \in Seq(Rows)
    BY <1>0, <2>1, Typed DEF RunStatus, Terminal
  <2> QED
    BY <2>1, <2>3, <2>4, Committed
<1> QED
  BY <1>1, <1>2, <1>3, <1>4 DEF Route

-----------------------------------------------------------------------------
(* The user *)

LEMMA ReplyStep == ASSUME IInv, NEW r \in Replies, Reply(r) PROVE IInv'
<1>1. /\ cmd' = [act |-> "input", reply |-> r] /\ r \in ReplyKinds
      /\ UNCHANGED <<goal, run, plan, ck, steps, base, tries, pc, said, out>>
      /\ TypeOK
  BY OfferedAssumption DEF Reply, IInv
<1>2. TypeOK'
  BY <1>1 DEF TypeOK
<1> QED
  BY <1>1, <1>2 DEF IInv

LEMMA GiveStep ==
    ASSUME IInv, NEW end \in {"cancelled", "partial"}, Give(end) PROVE IInv'
<1>1. /\ run' = end /\ base' = [base EXCEPT !.run = end] /\ pc = "idle"
      /\ UNCHANGED <<goal, plan, ck, steps, cmd, tries, pc, said, out>>
      /\ TypeOK /\ Snap(goal.tools, run, plan, ck, steps)
      /\ base = [run |-> run, plan |-> plan, ck |-> ck, steps |-> steps]
  BY DEF Give, Waits, IInv
<1>2. /\ run \in RunStatus /\ plan \in Seq(Targets) /\ ck \in Checkpoints
      /\ steps \in Seq(Rows) /\ end \in RunStatus
  BY <1>1, Typed DEF RunStatus, Terminal
<1>3. base' = [run |-> end, plan |-> plan, ck |-> ck, steps |-> steps]
  BY <1>1
<1>4. base' \in States
  BY <1>2, <1>3, StateRow
<1>5. TypeOK'
  BY <1>1, <1>3, <1>4 DEF TypeOK
<1>6. Snap(goal.tools, end, plan, ck, steps)
  BY <1>1, SnapClosed DEF Terminal
<1>7. Snap(goal'.tools, run', plan', ck', steps')
  BY <1>1, <1>6
<1>8. Snap(goal'.tools, base'.run, base'.plan, base'.ck, base'.steps)
  BY <1>1, <1>3, <1>6
<1>9. Point(pc', run', plan', ck', steps', out')
  BY <1>1 DEF Point, InStep, Judging
<1> QED
  BY <1>1, <1>3, <1>5, <1>7, <1>8, <1>9 DEF IInv

(* The call that waits is that of the last step, so SetRow speaks of it.   *)
LEMMA WaitingRow ==
    ASSUME IInv, ck.wait # 0
    PROVE  /\ ck.wait = Len(steps) /\ steps # <<>> /\ ck.next < Len(plan)
           /\ steps[ck.wait] = steps[Len(steps)] /\ steps[Len(steps)] \in Rows
           /\ steps[Len(steps)].agent = plan[ck.next + 1]
           /\ steps[Len(steps)].call = "awaiting_approval"
           /\ RowFits(goal.tools, steps[Len(steps)])
           /\ ~steps[Len(steps)].done
           /\ \A n \in DOMAIN steps : n # Len(steps) =>
                  steps[n].call # "awaiting_approval"
<1>1. WaitFits(plan, ck, steps) /\ steps \in Seq(Rows)
      /\ \A n \in DOMAIN steps : RowFits(goal.tools, steps[n])
  BY Typed DEF IInv, Snap
<1>2. ck.wait = Len(steps) /\ steps # <<>> /\ Len(steps) \in DOMAIN steps
  BY <1>1 DEF WaitFits
<1> QED
  BY <1>1, <1>2 DEF WaitFits, RowFits

LEMMA ApproveStep == ASSUME IInv, Approve PROVE IInv'
<1>1. /\ run = "awaiting_approval" /\ pc = "idle"
      /\ steps' = [steps EXCEPT ![ck.wait].appr = "approved"]
      /\ base' = [base EXCEPT !.steps = steps']
      /\ cmd' = [act |-> "resume", reply |-> "none"]
      /\ UNCHANGED <<goal, run, plan, ck, tries, pc, said, out>>
      /\ TypeOK /\ Snap(goal.tools, run, plan, ck, steps)
      /\ base = [run |-> run, plan |-> plan, ck |-> ck, steps |-> steps]
  BY DEF Approve, Waits, IInv
<1>2. /\ run \in RunStatus /\ plan \in Seq(Targets) /\ ck \in Checkpoints
      /\ steps \in Seq(Rows)
  BY <1>1, Typed
<1>3. ck.wait # 0
  BY <1>1 DEF Snap, StatusFits, Terminal
<1> DEFINE old == steps[Len(steps)]
           x == [old EXCEPT !.appr = "approved"]
<1>4. /\ ck.wait = Len(steps) /\ steps # <<>> /\ ck.next < Len(plan)
      /\ old \in Rows /\ old.agent = plan[ck.next + 1]
      /\ old.call = "awaiting_approval" /\ RowFits(goal.tools, old) /\ ~old.done
      /\ \A n \in DOMAIN steps : n # Len(steps) =>
             steps[n].call # "awaiting_approval"
  BY <1>3, WaitingRow
<1>5. steps' = [steps EXCEPT ![Len(steps)] = x]
  BY <1>1, <1>4
<1>6. x \in Rows /\ x.agent = old.agent /\ x.call = old.call
      /\ x.done = old.done /\ x.need = old.need /\ x.st = old.st
      /\ x.tool = old.tool /\ x.again = old.again
  BY <1>4 DEF Rows
<1>7. RowFits(goal.tools, x)
  BY <1>4, <1>6 DEF RowFits
<1> HIDE DEF x
<1>18. LastSet(steps', steps, x)
  BY <1>2, <1>4, <1>5, <1>6, Replaced
<1>8. /\ DoneSoFar(plan, ck, steps')
      /\ \A n \in DOMAIN steps' : RowFits(goal.tools, steps'[n])
  <2>1. Snap(goal.tools, run, plan, ck, steps)
    BY <1>1
  <2>2. /\ steps # <<>> /\ ck.next < Len(plan) /\ x \in Rows
        /\ steps[Len(steps)].agent = plan[ck.next + 1]
        /\ x.agent = plan[ck.next + 1]
    BY <1>4, <1>6
  <2> QED
    BY <1>2, <1>7, <1>18, <2>1, <2>2, SetRow
<1>9. Len(steps') = Len(steps) /\ steps' \in Seq(Rows)
  BY <1>18 DEF LastSet
<1>10. WaitFits(plan, ck, steps')
  BY <1>4, <1>6, <1>18 DEF WaitFits, LastSet
<1>11. Snap(goal.tools, run, plan, ck, steps')
  BY <1>1, <1>8, <1>10 DEF Snap
<1>12. base' = [run |-> run, plan |-> plan, ck |-> ck, steps |-> steps']
  BY <1>1
<1>13. base' \in States
  BY <1>2, <1>9, <1>12, StateRow
<1>14. TypeOK'
  BY <1>1, <1>12, <1>13 DEF TypeOK
<1>15. Snap(goal'.tools, run', plan', ck', steps')
  BY <1>1, <1>11
<1>16. Snap(goal'.tools, base'.run, base'.plan, base'.ck, base'.steps)
  BY <1>1, <1>11, <1>12
<1>17. Point(pc', run', plan', ck', steps', out')
  BY <1>1 DEF Point, InStep, Judging
<1> QED
  BY <1>1, <1>12, <1>14, <1>15, <1>16, <1>17 DEF IInv

LEMMA ContinueStep == ASSUME IInv, Continue PROVE IInv'
<1>1. /\ run = "awaiting_input" /\ run' = "running" /\ Goes("next")
      /\ ck' = [ck EXCEPT !.reply = cmd.reply,
                          !.topup = @ \/ cmd.reply = "topup",
                          !.slots = @ \cup Supplies(cmd.reply)]
      /\ UNCHANGED <<plan, steps, said, out>>
      /\ TypeOK /\ Snap(goal.tools, run, plan, ck, steps)
      /\ pc = "input"
  BY DEF Continue, IInv
<1>2. /\ plan \in Seq(Targets) /\ ck \in Checkpoints /\ steps \in Seq(Rows)
      /\ cmd.reply \in ReplyKinds \cup {"none"}
  BY <1>1, Typed DEF TypeOK, NoCmd
<1>3. Supplies(cmd.reply) \in SUBSET Slots
  <2>1. ck.missing \in SUBSET Slots
    BY <1>2 DEF Checkpoints
  <2> QED
    BY <2>1 DEF Supplies, Slots
<1>4. /\ ck' \in Checkpoints /\ ck'.next = ck.next /\ ck'.wait = ck.wait
      /\ ck'.failed = ck.failed
  <2> DEFINE c1 == [ck EXCEPT !.reply = cmd.reply]
             c2 == [c1 EXCEPT !.topup = ck.topup \/ cmd.reply = "topup"]
             c3 == [c2 EXCEPT !.slots = ck.slots \cup Supplies(cmd.reply)]
  <2>1. /\ c1 \in Checkpoints /\ c1.next = ck.next /\ c1.wait = ck.wait
        /\ c1.failed = ck.failed
    BY <1>2 DEF Checkpoints
  <2>2. (ck.topup \/ cmd.reply = "topup") \in BOOLEAN
    OBVIOUS
  <2>3. (ck.slots \cup Supplies(cmd.reply)) \in SUBSET Slots
    BY <1>2, <1>3 DEF Checkpoints
  <2>4. ck' = c3
    BY <1>1, <1>2 DEF Checkpoints
  <2> HIDE DEF c1
  <2>5. /\ c2 \in Checkpoints /\ c2.next = c1.next /\ c2.wait = c1.wait
        /\ c2.failed = c1.failed
    BY <2>1, <2>2 DEF Checkpoints
  <2> HIDE DEF c2
  <2>6. /\ c3 \in Checkpoints /\ c3.next = c2.next /\ c3.wait = c2.wait
        /\ c3.failed = c2.failed
    BY <2>5, <2>3 DEF Checkpoints
  <2> HIDE DEF c3
  <2> QED
    BY <2>1, <2>4, <2>5, <2>6
<1>5. ck.wait = 0
  BY <1>1 DEF Snap, StatusFits, Terminal
<1>6. Snap(goal.tools, "running", plan, ck', steps)
  <2>1. DoneSoFar(plan, ck', steps)
    BY <1>1, <1>4 DEF Snap, DoneSoFar
  <2>2. WaitFits(plan, ck', steps)
    BY <1>1, <1>4, <1>5 DEF Snap, WaitFits
  <2>3. StatusFits("running", plan, ck')
    BY <1>4, <1>5 DEF StatusFits
  <2> QED
    BY <1>1, <1>4, <2>1, <2>2, <2>3 DEF Snap
<1>7. Snap(goal.tools, run', plan', ck', steps')
  BY <1>1, <1>6
<1>8. Point("next", run', plan', ck', steps', out')
  BY <1>1, <1>4, <1>5 DEF Point, InStep, Judging
<1>9. /\ run' \in RunStatus /\ plan' \in Seq(Targets) /\ steps' \in Seq(Rows)
      /\ said' \in ReplyKinds \cup {"none"} /\ out' \in Considered
  BY <1>1, <1>2 DEF RunStatus, TypeOK
<1> QED
  BY <1>1, <1>4, <1>7, <1>8, <1>9, GoesOn DEF Points

-----------------------------------------------------------------------------
(* A step: whom to ask, and what to make of the answer *)

LEMMA SnapMarks ==
    ASSUME NEW T, NEW rn, NEW p, NEW c, NEW st, Snap(T, rn, p, c, st),
           NEW d, d.next = c.next, d.wait = c.wait, d.failed = c.failed
    PROVE  Snap(T, rn, p, d, st)
BY DEF Snap, DoneSoFar, WaitFits, StatusFits

LEMMA FreshRow ==
    ASSUME NEW a \in Targets, NEW need \in Guarded \cup {"none"},
           NEW x, x = Row(a, need)
    PROVE  /\ x \in Rows /\ x.agent = a /\ x.need = need /\ x.st = "running"
           /\ x.tool = "none" /\ x.call = "none" /\ x.appr = "none"
           /\ ~x.again /\ ~x.done
BY DEF Row, Rows

LEMMA NextStepStep == ASSUME IInv, NextStep PROVE IInv'
<1> DEFINE a == plan[ck.next + 1]
           need == Needed(ck.reply # "none" /\ ck.topup)
           settled == Settled(a, IF ck.reply = "none" THEN {} ELSE ck.slots)
           x == Row(a, need)
<1>1. /\ pc = "next" /\ ck.next < Len(plan)
      /\ steps' = Append(steps, x)
      /\ ck' = [ck EXCEPT !.reply = "none"] /\ said' = ck.reply
      /\ run' = run /\ plan' = plan
  BY DEF NextStep
<1>2. TypeOK /\ Snap(goal.tools, run, plan, ck, steps)
      /\ Point(pc, run, plan, ck, steps, out)
  BY DEF IInv
<1>3. /\ run = "running" /\ ck.wait = 0
  BY <1>1, <1>2 DEF Point
<1>4. /\ plan \in Seq(Targets) /\ ck \in Checkpoints /\ steps \in Seq(Rows)
      /\ run \in RunStatus /\ ck.next \in Nat
      /\ ck.reply \in ReplyKinds \cup {"none"}
  BY <1>2, Typed DEF Checkpoints
<1>5. a \in Targets
  BY <1>1, <1>4
<1>6. need \in Guarded \cup {"none"}
  BY DEF Needed, Guarded
<1>7. /\ x \in Rows /\ x.agent = a /\ x.need = need /\ x.st = "running"
      /\ x.tool = "none" /\ x.call = "none" /\ x.appr = "none" /\ ~x.done
  BY <1>5, <1>6, FreshRow
<1>8. settled \in {"none", "balance", "topup"}
  BY DEF Settled
<1>9. \/ /\ \E args \in {"good", "bad"} :
               out' = Answer("succeeded", settled, args, {})
         /\ Goes("judge")
      \/ out' = Honest /\ Goes("judge")
      \/ out' = Nothing /\ Goes("ask")
  BY DEF NextStep
<1> HIDE DEF x, need, settled
<1>10. RowFits(goal.tools, x)
  BY <1>7 DEF RowFits
<1>11. /\ Append(steps, x) \in Seq(Rows)
       /\ Len(Append(steps, x)) = Len(steps) + 1
       /\ Append(steps, x)[Len(steps) + 1] = x
       /\ Snap(goal.tools, run, plan, ck, Append(steps, x))
  <2>1. Snap(goal.tools, run, plan, ck, steps)
    BY <1>2
  <2>2. ck.next < Len(plan) /\ ck.wait = 0
    BY <1>1, <1>3
  <2>3. x \in Rows /\ x.agent = plan[ck.next + 1] /\ x.call # "awaiting_approval"
    BY <1>7
  <2> QED
    BY <1>4, <1>10, <2>1, <2>2, <2>3, AddRow
<1>12. /\ steps' \in Seq(Rows) /\ steps' # <<>> /\ steps'[Len(steps')] = x
       /\ Snap(goal.tools, run, plan, ck, steps')
  BY <1>1, <1>4, <1>11
<1>13. /\ ck' \in Checkpoints /\ ck'.next = ck.next /\ ck'.wait = ck.wait
       /\ ck'.failed = ck.failed
  BY <1>1, <1>4 DEF Checkpoints
<1>14. Snap(goal.tools, run, plan, ck', steps')
  BY <1>12, <1>13, SnapMarks
<1>15. Snap(goal.tools, run', plan', ck', steps')
  BY <1>1, <1>14
<1>16. StepOpen(run', plan', ck', steps')
  BY <1>1, <1>3, <1>7, <1>12, <1>13 DEF StepOpen
<1>17. /\ run' \in RunStatus /\ plan' \in Seq(Targets)
       /\ said' \in ReplyKinds \cup {"none"}
  BY <1>1, <1>4
<1>18. CASE out' = Nothing /\ Goes("ask")
  <2>1. out' \in Considered
    BY <1>18 DEF Nothing, Answer, Considered
  <2>2. Point("ask", run', plan', ck', steps', out')
    BY <1>16 DEF Point, AnswerFits, Judging
  <2> QED
    BY <1>12, <1>13, <1>15, <1>17, <1>18, <2>1, <2>2, GoesOn DEF Points
<1>19. CASE out' = Honest /\ Goes("judge")
  <2>1. out' \in Considered /\ out'.st \in Statuses
    BY <1>19 DEF Honest, Asking, Answer, Considered, Statuses
  <2>2. Point("judge", run', plan', ck', steps', out')
    BY <1>16, <2>1 DEF Point, AnswerFits
  <2> QED
    BY <1>12, <1>13, <1>15, <1>17, <1>19, <2>1, <2>2, GoesOn DEF Points
<1>20. ASSUME NEW args \in {"good", "bad"}, Goes("judge"),
              out' = Answer("succeeded", settled, args, {})
       PROVE  IInv'
  <2>1. out' \in Considered /\ out'.st \in Statuses
    BY <1>8, <1>20 DEF Answer, Considered, Statuses, Tools
  <2>2. Point("judge", run', plan', ck', steps', out')
    BY <1>16, <2>1 DEF Point, AnswerFits
  <2> QED
    BY <1>12, <1>13, <1>15, <1>17, <1>20, <2>1, <2>2, GoesOn DEF Points
<1> QED
  BY <1>9, <1>18, <1>19, <1>20

(* Within a step, while nothing but the answer changes.                    *)
LEMMA Turned ==
    ASSUME IInv, pc \in InStep, NEW to \in InStep, Goes(to),
           UNCHANGED <<run, plan, ck, steps, said>>, out' \in Considered,
           AnswerFits(to, out', Current)
    PROVE  IInv'
<1>1. TypeOK /\ Snap(goal.tools, run, plan, ck, steps)
      /\ StepOpen(run, plan, ck, steps)
  BY DEF IInv, Point
<1>2. /\ plan \in Seq(Targets) /\ ck \in Checkpoints /\ steps \in Seq(Rows)
      /\ run \in RunStatus
  BY <1>1, Typed
<1>3. said \in ReplyKinds \cup {"none"} /\ to \in Points \ {"idle"} /\ to # "next"
  BY <1>1 DEF TypeOK, InStep, Judging, Points
<1>4. Point(to, run, plan, ck, steps, out')
  BY <1>1, <1>3 DEF Point, Current
<1>5. Point(to, run', plan', ck', steps', out')
  BY <1>4
<1>6. Snap(goal.tools, run', plan', ck', steps')
  BY <1>1
<1> QED
  BY <1>2, <1>3, <1>5, <1>6, GoesOn

LEMMA OfferedAnswer ==
    ASSUME NEW o \in Offered PROVE o \in Considered /\ o.st \in Statuses
<1>1. o \in Answers
  BY OfferedAssumption
<1>2. CASE \E st \in Statuses \ {"needs_input"} : o = Silent(st)
  BY <1>2 DEF Silent, Answer, Considered
<1>3. CASE \E m \in SUBSET {"room", "amount"} : o = Asking(m)
  BY <1>3 DEF Asking, Answer, Considered, Statuses
<1>4. CASE \E st \in Statuses, t \in Tools, args \in {"good", "alias", "bad"} :
               o = Answer(st, t, args, {})
  BY <1>4 DEF Answer, Considered
<1> QED
  BY <1>1, <1>2, <1>3, <1>4 DEF Answers

LEMMA AskingAnswer ==
    ASSUME NEW m \in Misses \cup SUBSET {"room", "amount"}
    PROVE  Asking(m) \in Considered /\ Asking(m).st = "needs_input"
BY TurnAssumption DEF Asking, Answer, Considered, Statuses

(* Whatever is considered within a step, and what is settled about it.     *)
LEMMA InAStep ==
    ASSUME IInv, pc \in InStep
    PROVE  /\ TypeOK /\ out \in Considered
           /\ StepOpen(run, plan, ck, steps) /\ AnswerFits(pc, out, Current)
BY DEF IInv, Point, TypeOK, Current

LEMMA AnswerSteps ==
    ASSUME IInv, AmountMissing \/ Ask \/ Judge \/ JudgeTool \/ Screen
    PROVE  IInv'
<1>1. CASE AmountMissing
  <2>1. PICK m \in {{"amount"}, {"room", "amount"}} : out' = Asking(m)
    BY <1>1 DEF AmountMissing
  <2>2. out' \in Considered /\ out'.st \in Statuses
    BY <2>1, AskingAnswer DEF Statuses
  <2>3. pc \in InStep /\ Goes("judge") /\ UNCHANGED <<run, plan, ck, steps, said>>
    BY <1>1 DEF AmountMissing, InStep
  <2>4. AnswerFits("judge", out', Current)
    BY <2>2 DEF AnswerFits
  <2> QED
    BY <2>2, <2>3, <2>4, Turned DEF InStep, Judging
<1>2. CASE Ask
  <2>1. /\ out' \in Considered /\ out'.st \in Statuses
        /\ UNCHANGED <<run, plan, ck, steps, said>> /\ Goes(AfterAsk[pc])
        /\ pc \in {"ask", "ask_tool", "ask_args"}
    BY <1>2, OfferedAnswer DEF Ask, AfterAsk
  <2>2. pc \in InStep
    BY <2>1 DEF InStep
  <2>3. AnswerFits(pc, out, Current)
    BY <2>2, InAStep
  <2>4. CASE pc = "ask"
    <3>1. Goes("judge") /\ AnswerFits("judge", out', Current)
      BY <2>1, <2>4 DEF AfterAsk, AnswerFits
    <3> QED
      BY <2>1, <2>2, <3>1, Turned DEF InStep, Judging
  <2>5. CASE pc = "ask_tool"
    <3>1. Goes("judge_tool") /\ AnswerFits("judge_tool", out', Current)
      BY <2>1, <2>5 DEF AfterAsk, AnswerFits
    <3> QED
      BY <2>1, <2>2, <3>1, Turned DEF InStep, Judging
  <2>6. CASE pc = "ask_args"
    <3>1. Goes("screen_again") /\ AnswerFits("screen_again", out', Current)
      BY <2>1, <2>3, <2>6 DEF AfterAsk, AnswerFits
    <3> QED
      BY <2>1, <2>2, <3>1, Turned DEF InStep, Judging
  <2> QED
    BY <2>1, <2>4, <2>5, <2>6
<1>3. CASE Judge
  <2>1. /\ pc = "judge" /\ UNCHANGED <<run, plan, ck, steps, said, out>>
        /\ Goes(IF Unbacked(out) THEN "ask_tool" ELSE "screen")
    BY <1>3 DEF Judge
  <2>2. pc \in InStep
    BY <2>1 DEF InStep, Judging
  <2>3. AnswerFits(pc, out, Current) /\ out \in Considered
        /\ StepOpen(run, plan, ck, steps) /\ TypeOK
    BY <2>2, InAStep
  <2>4. CASE Unbacked(out)
    <3>1. Goes("ask_tool") /\ AnswerFits("ask_tool", out', Current)
      BY <2>1, <2>4 DEF AnswerFits, Judging
    <3> QED
      BY <2>1, <2>2, <2>3, <3>1, Turned DEF InStep
  <2>5. CASE ~Unbacked(out)
    <3>1. out.st \in Statuses
      BY <2>1, <2>3 DEF AnswerFits, Judging
    <3>2. Current.need \in Guarded \cup {"none"}
      <4>1. steps \in Seq(Rows) /\ steps # <<>>
        BY <2>3, Typed DEF StepOpen
      <4>2. steps[Len(steps)] \in Rows
        BY <4>1
      <4> QED
        BY <4>2 DEF Current, Rows
    <3>3. Current.need # "none" /\ out.st = "succeeded" => out.tool # "none"
      BY <2>5, <3>2 DEF Unbacked, Guarded
    <3>4. Goes("screen") /\ AnswerFits("screen", out', Current)
      BY <2>1, <2>5, <3>1, <3>3 DEF AnswerFits
    <3> QED
      BY <2>1, <2>2, <2>3, <3>4, Turned DEF InStep, Judging
  <2> QED
    BY <2>4, <2>5
<1>4. CASE JudgeTool
  <2>1. /\ pc = "judge_tool" /\ UNCHANGED <<run, plan, ck, steps, said>>
        /\ Goes("screen")
        /\ \/ out' = out /\ \/ out.st = "succeeded" /\ out.tool = Current.need
                            \/ out.st = "needs_input"
           \/ out' = Honest
    BY <1>4 DEF JudgeTool
  <2>2. pc \in InStep
    BY <2>1 DEF InStep, Judging
  <2>3. out \in Considered /\ AnswerFits(pc, out, Current)
    BY <2>2, InAStep
  <2>4. out' \in Considered /\ out'.st \in Statuses
        /\ (out'.st = "succeeded" /\ Current.need # "none" => out'.tool # "none")
    <3>1. CASE out' = Honest
      BY <3>1, AskingAnswer DEF Honest, Statuses
    <3>2. CASE out' # Honest
      BY <2>1, <2>3, <3>2 DEF Statuses
    <3> QED
      BY <3>1, <3>2
  <2>5. AnswerFits("screen", out', Current)
    BY <2>4 DEF AnswerFits
  <2> QED
    BY <2>1, <2>2, <2>4, <2>5, Turned DEF InStep, Judging
<1>5. CASE Screen
  <2> DEFINE failed == [out EXCEPT !.st = "failed", !.missing = {}]
  <2>1. /\ pc \in {"screen", "screen_again"}
        /\ UNCHANGED <<run, plan, ck, steps, said>>
        /\ out' = out \/ out' = failed
        /\ Goes(IF pc = "screen" THEN "prepare" ELSE "prepare_again")
    BY <1>5 DEF Screen
  <2>2. pc \in InStep
    BY <2>1 DEF InStep, Judging
  <2>3. out \in Considered /\ AnswerFits(pc, out, Current)
    BY <2>2, InAStep
  <2>4. out.st \in Statuses
    BY <2>1, <2>3 DEF AnswerFits, Judging
  <2>5. failed \in Considered /\ failed.st = "failed"
    BY <2>3 DEF Considered, Statuses
  <2> HIDE DEF failed
  <2>6. out' \in Considered /\ out'.st \in Statuses
        /\ (out'.st = "succeeded" => out' = out)
    BY <2>1, <2>3, <2>4, <2>5 DEF Statuses
  <2>7. CASE pc = "screen"
    <3>1. Goes("prepare") /\ AnswerFits("prepare", out', Current)
      BY <2>1, <2>3, <2>6, <2>7 DEF AnswerFits
    <3> QED
      BY <2>1, <2>2, <2>6, <3>1, Turned DEF InStep, Judging
  <2>8. CASE pc = "screen_again"
    <3>1. Goes("prepare_again") /\ AnswerFits("prepare_again", out', Current)
      BY <2>1, <2>3, <2>6, <2>8 DEF AnswerFits
    <3> QED
      BY <2>1, <2>2, <2>6, <3>1, Turned DEF InStep, Judging
  <2> QED
    BY <2>1, <2>7, <2>8
<1> QED
  BY <1>1, <1>2, <1>3, <1>4, <1>5

(* The step under way is replaced by x.                                    *)
LEMMA StepSet ==
    ASSUME IInv, pc \in InStep, NEW x \in Rows, SetCurrent(x),
           x.agent = Current.agent, RowFits(goal.tools, x)
    PROVE  /\ LastSet(steps', steps, x) /\ steps' \in Seq(Rows)
           /\ DoneSoFar(plan, ck, steps')
           /\ \A n \in DOMAIN steps' : RowFits(goal.tools, steps'[n])
           /\ \A n \in DOMAIN steps' : n # Len(steps) =>
                  steps'[n].call # "awaiting_approval"
<1>1. /\ StepOpen(run, plan, ck, steps)
      /\ Snap(goal.tools, run, plan, ck, steps)
      /\ plan \in Seq(Targets) /\ ck \in Checkpoints /\ steps \in Seq(Rows)
  BY InAStep, Typed DEF IInv
<1>2. /\ steps # <<>> /\ ck.next < Len(plan) /\ ck.wait = 0
      /\ steps[Len(steps)].agent = plan[ck.next + 1]
      /\ x.agent = plan[ck.next + 1]
  BY <1>1 DEF StepOpen, Current
<1>3. steps' = [steps EXCEPT ![Len(steps)] = x]
  BY DEF SetCurrent
<1>4. LastSet(steps', steps, x)
  BY <1>1, <1>2, <1>3, Replaced
<1>5. /\ DoneSoFar(plan, ck, steps')
      /\ \A n \in DOMAIN steps' : RowFits(goal.tools, steps'[n])
  <2>1. Snap(goal.tools, run, plan, ck, steps)
    BY <1>1
  <2>2. ck \in Checkpoints /\ steps \in Seq(Rows)
    BY <1>1
  <2>3. /\ steps # <<>> /\ ck.next < Len(plan)
        /\ steps[Len(steps)].agent = plan[ck.next + 1]
        /\ x.agent = plan[ck.next + 1]
    BY <1>2
  <2> QED
    BY <1>4, <2>1, <2>2, <2>3, SetRow
<1>6. \A n \in DOMAIN steps : steps[n].call # "awaiting_approval"
  <2>1. \A n \in DOMAIN steps : n # 0
    BY <1>1
  <2> QED
    BY <1>1, <1>2, <2>1 DEF Snap, WaitFits
<1> QED
  BY <1>4, <1>5, <1>6 DEF LastSet

(* ... and no call waits: the plan is where it was, for any status but     *)
(* those of a wait or an end.                                              *)
LEMMA StepKept ==
    ASSUME IInv, pc \in InStep, NEW x \in Rows, SetCurrent(x),
           x.agent = Current.agent, RowFits(goal.tools, x),
           x.call # "awaiting_approval",
           NEW rn \in {"running", "awaiting_input"},
           NEW d, d.next = ck.next, d.wait = ck.wait, d.failed = ck.failed
    PROVE  Snap(goal.tools, rn, plan, d, steps')
<1>1. /\ LastSet(steps', steps, x) /\ steps' \in Seq(Rows)
      /\ DoneSoFar(plan, ck, steps')
      /\ \A n \in DOMAIN steps' : RowFits(goal.tools, steps'[n])
      /\ \A n \in DOMAIN steps' : n # Len(steps) =>
             steps'[n].call # "awaiting_approval"
  BY StepSet
<1>2. StepOpen(run, plan, ck, steps) /\ Snap(goal.tools, run, plan, ck, steps)
  BY InAStep DEF IInv
<1>3. \A n \in DOMAIN steps' : steps'[n].call # "awaiting_approval" /\ n # 0
  BY <1>1 DEF LastSet
<1>4. WaitFits(plan, ck, steps') /\ StatusFits(rn, plan, ck)
  BY <1>2, <1>3 DEF StepOpen, WaitFits, StatusFits
<1>5. Snap(goal.tools, rn, plan, ck, steps')
  BY <1>1, <1>2, <1>4 DEF Snap
<1> QED
  BY <1>5, SnapMarks

LEMMA CurrentRow ==
    ASSUME IInv, pc \in InStep
    PROVE  /\ Current \in Rows /\ RowFits(goal.tools, Current)
           /\ Current.st = "running" /\ Current.tool = "none"
           /\ Current.call = "none" /\ Current.appr = "none" /\ ~Current.done
           /\ Current.agent = plan[ck.next + 1] /\ steps # <<>>
           /\ run = "running" /\ ck.wait = 0 /\ ck.next < Len(plan)
           /\ plan \in Seq(Targets) /\ ck \in Checkpoints
           /\ steps \in Seq(Rows)
<1>1. /\ StepOpen(run, plan, ck, steps) /\ steps \in Seq(Rows)
      /\ plan \in Seq(Targets) /\ ck \in Checkpoints
      /\ Snap(goal.tools, run, plan, ck, steps)
  BY InAStep, Typed DEF IInv
<1>2. Len(steps) \in DOMAIN steps
  BY <1>1 DEF StepOpen
<1> QED
  BY <1>1, <1>2 DEF StepOpen, Current, Snap

LEMMA PrepareStep == ASSUME IInv, Prepare \/ PrepareAgain \/ NoTool PROVE IInv'
<1>1. pc \in InStep /\ pc \in {"prepare", "prepare_again"}
  BY DEF Prepare, PrepareAgain, NoTool, InStep, Judging
<1>2. /\ out \in Considered /\ AnswerFits(pc, out, Current) /\ TypeOK
      /\ out.st \in Statuses
  BY <1>1, InAStep DEF AnswerFits, Judging
<1>3. CASE NoTool
  <2>1. /\ out.tool = "none" /\ Goes("finish")
        /\ UNCHANGED <<run, plan, ck, steps, said, out>>
    BY <1>3 DEF NoTool
  <2>2. AnswerFits("finish", out', Current)
    BY <1>1, <1>2, <2>1 DEF AnswerFits
  <2> QED
    BY <1>1, <1>2, <2>1, <2>2, Turned DEF InStep, Judging
<1>4. CASE /\ out.tool \in Registered /\ Goes("execute")
           /\ UNCHANGED <<run, plan, ck, steps, said, out>>
  <2>1. AnswerFits("execute", out', Current)
    BY <1>2, <1>4 DEF AnswerFits
  <2> QED
    BY <1>1, <1>2, <1>4, <2>1, Turned DEF InStep, Judging
<1>5. ASSUME NEW m \in Misses, out' = Asking(m), Goes("finish"),
             UNCHANGED <<run, plan, ck, steps, said>>
      PROVE  IInv'
  <2>1. out' \in Considered /\ out'.st = "needs_input"
    BY <1>5, AskingAnswer
  <2>2. AnswerFits("finish", out', Current)
    BY <2>1 DEF AnswerFits, Statuses
  <2> QED
    BY <1>1, <1>5, <2>1, <2>2, Turned DEF InStep, Judging
<1>6. CASE /\ SetCurrent([Current EXCEPT !.again = TRUE]) /\ Goes("ask_args")
           /\ UNCHANGED <<run, plan, ck, said, out>>
  <2> DEFINE x == [Current EXCEPT !.again = TRUE]
  <2>1. /\ Current \in Rows /\ RowFits(goal.tools, Current)
        /\ Current.st = "running" /\ Current.tool = "none"
        /\ Current.call = "none" /\ Current.appr = "none" /\ ~Current.done
        /\ Current.agent = plan[ck.next + 1]
        /\ run = "running" /\ ck.wait = 0 /\ ck.next < Len(plan)
        /\ plan \in Seq(Targets) /\ ck \in Checkpoints
    BY <1>1, CurrentRow
  <2>2. /\ x \in Rows /\ x.agent = Current.agent /\ x.st = "running"
        /\ x.tool = "none" /\ x.call = "none" /\ x.appr = "none" /\ ~x.done
        /\ x.again
    BY <2>1 DEF Rows
  <2>3. RowFits(goal.tools, x)
    BY <2>2 DEF RowFits
  <2>4. SetCurrent(x)
    BY <1>6
  <2> HIDE DEF x
  <2>5. LastSet(steps', steps, x) /\ steps' \in Seq(Rows)
    BY <1>1, <2>2, <2>3, <2>4, StepSet
  <2>6. Snap(goal.tools, "running", plan, ck, steps')
    BY <1>1, <2>2, <2>3, <2>4, StepKept
  <2>7. Snap(goal.tools, run', plan', ck', steps')
    BY <1>6, <2>1, <2>6
  <2>8. steps' # <<>> /\ steps'[Len(steps')] = x
    BY <2>5 DEF LastSet
  <2>9. StepOpen(run', plan', ck', steps')
    BY <1>6, <2>1, <2>2, <2>8 DEF StepOpen
  <2>10. Point("ask_args", run', plan', ck', steps', out')
    BY <2>2, <2>8, <2>9 DEF Point, AnswerFits, Judging
  <2>11. /\ run' \in RunStatus /\ plan' \in Seq(Targets) /\ ck' \in Checkpoints
         /\ said' \in ReplyKinds \cup {"none"} /\ out' \in Considered
    BY <1>2, <1>6, <2>1 DEF TypeOK, RunStatus
  <2> QED
    BY <1>6, <2>5, <2>7, <2>10, <2>11, GoesOn DEF Points
<1> QED
  BY <1>3, <1>4, <1>5, <1>6 DEF Prepare, PrepareAgain, NoTool

-----------------------------------------------------------------------------
(* A step: the tool, and the end *)

LEMMA CalledRow ==
    ASSUME IInv, pc = "execute",
           NEW call \in {"awaiting_approval", "succeeded", "failed"},
           NEW st \in {"awaiting_approval", "succeeded", "partial"},
           NEW appr \in {"none", "pending"},
           call = "failed" \/ Allowed(Current.agent, out.tool),
           NEW x, x = Called(call, st, appr)
    PROVE  /\ x \in Rows /\ x.agent = Current.agent /\ x.st = st
           /\ x.call = call /\ RowFits(goal.tools, x)
<1>1. pc \in InStep
  BY DEF InStep, Judging
<1>2. /\ Current \in Rows /\ ~Current.done /\ out.tool \in Registered
  BY <1>1, CurrentRow, InAStep DEF AnswerFits
<1>3. out.tool \in Tools /\ out.tool # "none"
  BY <1>2 DEF Registered, Tools
<1> DEFINE x1 == [Current EXCEPT !.tool = out.tool]
           x2 == [x1 EXCEPT !.call = call]
           x3 == [x2 EXCEPT !.st = st]
           x4 == [x3 EXCEPT !.appr = appr]
<1>4. /\ x1 \in Rows /\ x1.agent = Current.agent /\ ~x1.done
      /\ x1.tool = out.tool
  BY <1>2, <1>3 DEF Rows
<1>5. x = x4
  BY <1>2 DEF Called, Rows
<1> HIDE DEF x1
<1>6. /\ x2 \in Rows /\ x2.agent = x1.agent /\ ~x2.done
      /\ x2.tool = out.tool /\ x2.call = call
  BY <1>4 DEF Rows
<1> HIDE DEF x2
<1>7. /\ x3 \in Rows /\ x3.agent = x2.agent /\ ~x3.done
      /\ x3.tool = out.tool /\ x3.call = call /\ x3.st = st
  BY <1>6 DEF Rows
<1> HIDE DEF x3
<1>8. /\ x4 \in Rows /\ x4.agent = x3.agent /\ ~x4.done
      /\ x4.tool = out.tool /\ x4.call = call /\ x4.st = st
  BY <1>7 DEF Rows
<1> HIDE DEF x4
<1>9. RowFits(goal.tools, x)
  <2>1. ~x.done /\ x.tool = out.tool /\ x.call = call
    BY <1>5, <1>8
  <2>2. CASE call = "failed"
    BY <1>3, <2>1, <2>2 DEF RowFits
  <2>3. CASE Allowed(Current.agent, out.tool)
    BY <1>3, <2>1, <2>3 DEF RowFits, Allowed
  <2> QED
    BY <2>2, <2>3
<1> QED
  BY <1>4, <1>5, <1>6, <1>7, <1>8, <1>9

LEMMA SilentRow ==
    ASSUME IInv, pc = "finish", NEW st \in Statuses \ {"needs_input"},
           st = "partial" \/ st = out.st,
           NEW x, x = Silently(st)
    PROVE  /\ x \in Rows /\ x.agent = Current.agent /\ x.st = st
           /\ x.call # "awaiting_approval" /\ RowFits(goal.tools, x)
<1>1. pc \in InStep
  BY DEF InStep, Judging
<1>2. /\ Current \in Rows /\ ~Current.done /\ Current.call = "none"
      /\ Current.tool = "none" /\ AnswerFits(pc, out, Current)
  BY <1>1, CurrentRow, InAStep
<1>3. /\ x \in Rows /\ x.agent = Current.agent /\ x.st = st
      /\ x.call = "none" /\ ~x.done /\ x.need = Current.need
      /\ x.tool = "none" /\ x.again = Current.again
  BY <1>2 DEF Silently, Rows, Statuses
<1>4. RowFits(goal.tools, x)
  BY <1>2, <1>3 DEF RowFits, AnswerFits
<1> QED
  BY <1>3, <1>4

LEMMA MissingSet ==
    ASSUME NEW c \in Checkpoints, NEW m \in SUBSET Slots,
           NEW d, d = [c EXCEPT !.missing = m]
    PROVE  /\ d \in Checkpoints /\ d.next = c.next /\ d.wait = c.wait
           /\ d.failed = c.failed
BY DEF Checkpoints

(* The step ends and the user is asked.                                    *)
LEMMA AsksUser ==
    ASSUME IInv, pc \in InStep, NEW x \in Rows, SetCurrent(x),
           x.agent = Current.agent, RowFits(goal.tools, x),
           x.call # "awaiting_approval", NEW m \in SUBSET Slots,
           ck' = [ck EXCEPT !.missing = m], run' = "awaiting_input",
           UNCHANGED <<goal, plan>>, Commit
    PROVE  IInv'
<1>1. ck \in Checkpoints /\ plan \in Seq(Targets)
  BY CurrentRow
<1>2. /\ ck' \in Checkpoints /\ ck'.next = ck.next /\ ck'.wait = ck.wait
      /\ ck'.failed = ck.failed
  BY <1>1, MissingSet
<1>3. Snap(goal.tools, "awaiting_input", plan, ck', steps')
  BY <1>2, StepKept
<1>4. Snap(goal.tools, run', plan', ck', steps')
  BY <1>3
<1>5. steps' \in Seq(Rows)
  BY StepSet
<1>6. run' \in RunStatus /\ plan' \in Seq(Targets)
  BY <1>1 DEF RunStatus
<1> QED
  BY <1>2, <1>4, <1>5, <1>6, Committed

(* The step ends, its task is finished, and the plan goes on.              *)
LEMMA GoesNext ==
    ASSUME IInv, pc \in InStep, NEW x \in Rows, SetCurrent(x),
           x.agent = Current.agent, RowFits(goal.tools, x),
           x.call # "awaiting_approval", NEW f \in BOOLEAN,
           ~f => x.st = "succeeded", ck' = Advance(ck, f),
           out' = Nothing, said' = "none", Goes("next"),
           UNCHANGED <<run, plan>>
    PROVE  IInv'
<1>1. /\ ck \in Checkpoints /\ plan \in Seq(Targets) /\ run = "running"
      /\ ck.next < Len(plan) /\ Current.agent = plan[ck.next + 1]
  BY CurrentRow
<1>2. /\ LastSet(steps', steps, x) /\ steps' \in Seq(Rows)
      /\ DoneSoFar(plan, ck, steps')
      /\ \A n \in DOMAIN steps' : RowFits(goal.tools, steps'[n])
      /\ \A n \in DOMAIN steps' : n # Len(steps) =>
             steps'[n].call # "awaiting_approval"
  BY StepSet
<1>3. plan \in Plans
  BY DEF IInv, Snap
<1>4. steps' # <<>> /\ steps'[Len(steps')] = x
      /\ \A n \in DOMAIN steps' : steps'[n].call # "awaiting_approval"
  BY <1>2 DEF LastSet
<1>5. ~f => TaskDone(plan[ck.next + 1], steps')
  BY <1>1, <1>2, <1>4, LastDone
<1>6. /\ ck' \in Checkpoints /\ ck'.next <= Len(plan) /\ ck'.wait = 0
      /\ DoneSoFar(plan, ck', steps') /\ WaitFits(plan, ck', steps')
  BY <1>1, <1>2, <1>3, <1>4, <1>5, Advanced
<1>7. Snap(goal.tools, "running", plan, ck', steps')
  BY <1>2, <1>3, <1>6 DEF Snap, StatusFits
<1>8. Snap(goal.tools, run', plan', ck', steps')
  BY <1>1, <1>7
<1>9. Point("next", run', plan', ck', steps', out')
  BY <1>1, <1>6 DEF Point, InStep, Judging
<1>10. /\ run' \in RunStatus /\ plan' \in Seq(Targets)
       /\ said' \in ReplyKinds \cup {"none"} /\ out' \in Considered
  BY <1>1 DEF RunStatus, Nothing, Answer, Considered
<1> QED
  BY <1>2, <1>6, <1>8, <1>9, <1>10, GoesOn DEF Points

LEMMA ToolStep == ASSUME IInv, Refuse \/ RunTool PROVE IInv'
<1>1. pc = "execute" /\ pc \in InStep
  BY DEF Refuse, RunTool, Runnable, InStep, Judging
<1>2. CASE Refuse
  <2> DEFINE x == Called("failed", "partial", "none")
  <2>1. PICK m \in Misses : ck' = [ck EXCEPT !.missing = m]
    BY <1>2 DEF Refuse
  <2>2. m \in SUBSET Slots
    BY TurnAssumption DEF Slots
  <2>3. /\ SetCurrent(x) /\ run' = "awaiting_input"
        /\ UNCHANGED <<goal, plan>> /\ Commit
    BY <1>2 DEF Refuse
  <2>4. /\ x \in Rows /\ x.agent = Current.agent /\ RowFits(goal.tools, x)
        /\ x.call # "awaiting_approval"
    BY <1>1, CalledRow
  <2> HIDE DEF x
  <2> QED
    BY <1>1, <2>1, <2>2, <2>3, <2>4, AsksUser
<1>3. CASE RunTool
  <2> DEFINE x == Called("succeeded", "succeeded", "none")
  <2>1. /\ SetCurrent(x) /\ ck' = Advance(ck, FALSE)
        /\ out' = Nothing /\ said' = "none" /\ Goes("next")
        /\ UNCHANGED <<run, plan>> /\ Allowed(Current.agent, out.tool)
    BY <1>3 DEF RunTool, Runnable
  <2>2. /\ x \in Rows /\ x.agent = Current.agent /\ RowFits(goal.tools, x)
        /\ x.call # "awaiting_approval" /\ x.st = "succeeded"
    BY <1>1, <2>1, CalledRow
  <2> HIDE DEF x
  <2> QED
    BY <1>1, <2>1, <2>2, GoesNext
<1> QED
  BY <1>2, <1>3

LEMMA WaitSet ==
    ASSUME NEW c \in Checkpoints, NEW w \in Nat,
           NEW d, d = [c EXCEPT !.wait = w]
    PROVE  /\ d \in Checkpoints /\ d.next = c.next /\ d.wait = w
           /\ d.failed = c.failed
BY DEF Checkpoints

LEMMA AskApprovalStep == ASSUME IInv, AskApproval PROVE IInv'
<1> DEFINE x == Called("awaiting_approval", "awaiting_approval", "pending")
<1>1. /\ pc = "execute" /\ pc \in InStep /\ SetCurrent(x)
      /\ ck' = [ck EXCEPT !.wait = Len(steps)] /\ run' = "awaiting_approval"
      /\ UNCHANGED <<goal, plan>> /\ Commit /\ Allowed(Current.agent, out.tool)
  BY DEF AskApproval, Runnable, InStep, Judging
<1>2. /\ x \in Rows /\ x.agent = Current.agent /\ RowFits(goal.tools, x)
      /\ x.call = "awaiting_approval"
  BY <1>1, CalledRow
<1> HIDE DEF x
<1>3. /\ LastSet(steps', steps, x) /\ steps' \in Seq(Rows)
      /\ DoneSoFar(plan, ck, steps')
      /\ \A n \in DOMAIN steps' : RowFits(goal.tools, steps'[n])
      /\ \A n \in DOMAIN steps' : n # Len(steps) =>
             steps'[n].call # "awaiting_approval"
  BY <1>1, <1>2, StepSet
<1>4. /\ ck \in Checkpoints /\ plan \in Seq(Targets) /\ steps # <<>>
      /\ ck.next < Len(plan) /\ Current.agent = plan[ck.next + 1]
      /\ steps \in Seq(Rows)
  BY <1>1, CurrentRow
<1>5. Len(steps) \in Nat /\ Len(steps) # 0 /\ plan \in Plans
  BY <1>4 DEF IInv, Snap
<1>6. /\ ck' \in Checkpoints /\ ck'.next = ck.next /\ ck'.wait = Len(steps)
      /\ ck'.failed = ck.failed
  BY <1>1, <1>4, <1>5, WaitSet
<1>7. steps'[Len(steps)] = x /\ Len(steps') = Len(steps)
  BY <1>3 DEF LastSet
<1>8. WaitFits(plan, ck', steps')
  <2>1. /\ ck'.wait = Len(steps') /\ ck'.next < Len(plan)
        /\ steps'[ck'.wait].agent = plan[ck'.next + 1]
    BY <1>2, <1>4, <1>6, <1>7
  <2>2. \A n \in DOMAIN steps' :
            steps'[n].call = "awaiting_approval" <=> n = ck'.wait
    BY <1>2, <1>3, <1>6, <1>7
  <2> QED
    BY <2>1, <2>2 DEF WaitFits
<1>9. DoneSoFar(plan, ck', steps')
  BY <1>3, <1>6 DEF DoneSoFar
<1>10. StatusFits("awaiting_approval", plan, ck')
  BY <1>5, <1>6 DEF StatusFits, Terminal
<1>11. ck'.next <= Len(plan)
  BY <1>4, <1>6 DEF Checkpoints
<1>12. Snap(goal.tools, "awaiting_approval", plan, ck', steps')
  BY <1>3, <1>5, <1>8, <1>9, <1>10, <1>11 DEF Snap
<1>13. Snap(goal.tools, run', plan', ck', steps')
  BY <1>1, <1>12
<1>14. run' \in RunStatus /\ plan' \in Seq(Targets)
  BY <1>1, <1>4 DEF RunStatus
<1> QED
  BY <1>1, <1>3, <1>6, <1>13, <1>14, Committed

LEMMA FinishSteps == ASSUME IInv, AskUser \/ FinishStep PROVE IInv'
<1>1. pc = "finish" /\ pc \in InStep
  BY DEF AskUser, FinishStep, InStep, Judging
<1>2. out \in Considered /\ out.st \in Statuses
  BY <1>1, InAStep DEF AnswerFits, Judging
<1>3. CASE AskUser
  <2> DEFINE x == Silently("partial")
  <2>1. PICK m \in {out.missing, DefaultMissing} :
            ck' = [ck EXCEPT !.missing = m]
    BY <1>3 DEF AskUser
  <2>2. m \in SUBSET Slots
    BY <1>2 DEF Considered, DefaultMissing, Slots
  <2>3. /\ SetCurrent(x) /\ run' = "awaiting_input"
        /\ UNCHANGED <<goal, plan>> /\ Commit
    BY <1>3 DEF AskUser
  <2>4. /\ x \in Rows /\ x.agent = Current.agent /\ RowFits(goal.tools, x)
        /\ x.call # "awaiting_approval"
    BY <1>1, SilentRow DEF Statuses
  <2> HIDE DEF x
  <2> QED
    BY <1>1, <2>1, <2>2, <2>3, <2>4, AsksUser
<1>4. CASE FinishStep
  <2> DEFINE x == Silently(out.st)
             f == out.st \in {"partial", "failed"}
  <2>1. /\ SetCurrent(x) /\ ck' = Advance(ck, f) /\ out.st # "needs_input"
        /\ out' = Nothing /\ said' = "none" /\ Goes("next")
        /\ UNCHANGED <<run, plan>>
    BY <1>4 DEF FinishStep
  <2>2. /\ x \in Rows /\ x.agent = Current.agent /\ RowFits(goal.tools, x)
        /\ x.call # "awaiting_approval" /\ x.st = out.st
    BY <1>1, <1>2, <2>1, SilentRow
  <2>3. ~f => x.st = "succeeded"
    BY <1>2, <2>1, <2>2 DEF Statuses
  <2>4. f \in BOOLEAN
    OBVIOUS
  <2> HIDE DEF x, f
  <2> QED
    BY <1>1, <2>1, <2>2, <2>3, <2>4, GoesNext
<1> QED
  BY <1>3, <1>4

LEMMA EndStep == ASSUME IInv, End PROVE IInv'
<1>1. /\ pc = "next" /\ ck.next = Len(plan) /\ Commit
      /\ run' = IF ck.failed THEN "partial" ELSE "succeeded"
      /\ UNCHANGED <<goal, plan, ck, steps>>
      /\ Snap(goal.tools, run, plan, ck, steps)
  BY DEF End, IInv
<1>2. /\ plan \in Seq(Targets) /\ ck \in Checkpoints /\ steps \in Seq(Rows)
  BY Typed DEF IInv
<1>3. StatusFits(run', plan, ck)
  BY <1>1 DEF StatusFits, Terminal
<1>4. Snap(goal.tools, run', plan, ck, steps)
  BY <1>1, <1>3 DEF Snap
<1>5. Snap(goal.tools, run', plan', ck', steps')
  BY <1>1, <1>4
<1>6. /\ run' \in RunStatus /\ plan' \in Seq(Targets)
      /\ ck' \in Checkpoints /\ steps' \in Seq(Rows)
  BY <1>1, <1>2 DEF RunStatus, Terminal
<1> QED
  BY <1>1, <1>5, <1>6, Committed

-----------------------------------------------------------------------------
(* The stored call comes back with its approval *)

LEMMA WaitingSet ==
    ASSUME IInv, ck.wait # 0,
           NEW call \in {"succeeded", "failed"},
           NEW st \in {"succeeded", "partial"},
           NEW appr \in {"approved", "consumed"}, NEW done \in BOOLEAN,
           done => appr = "consumed",
           \/ call = "failed" /\ st = "partial"
           \/ Allowed(Waiting.agent, Waiting.tool),
           SetWaiting(call, st, appr, done)
    PROVE  /\ steps' \in Seq(Rows) /\ steps' # <<>>
           /\ steps'[Len(steps')].st = st
           /\ steps'[Len(steps')].agent = plan[ck.next + 1]
           /\ ck.next < Len(plan)
           /\ DoneSoFar(plan, ck, steps')
           /\ \A n \in DOMAIN steps' : RowFits(goal.tools, steps'[n])
           /\ \A n \in DOMAIN steps' : steps'[n].call # "awaiting_approval"
<1> DEFINE old == steps[Len(steps)]
           x1 == [old EXCEPT !.call = call]
           x2 == [x1 EXCEPT !.st = st]
           x3 == [x2 EXCEPT !.appr = appr]
           x == [x3 EXCEPT !.done = done]
<1>1. /\ ck.wait = Len(steps) /\ steps # <<>> /\ ck.next < Len(plan)
      /\ old \in Rows /\ old.agent = plan[ck.next + 1]
      /\ Waiting = old
      /\ \A n \in DOMAIN steps : n # Len(steps) =>
             steps[n].call # "awaiting_approval"
  BY WaitingRow DEF Waiting
<1>2. /\ plan \in Seq(Targets) /\ ck \in Checkpoints /\ steps \in Seq(Rows)
  BY Typed DEF IInv
<1>3. steps' = [steps EXCEPT ![Len(steps)] =
                   [old EXCEPT !.call = call, !.st = st, !.appr = appr,
                               !.done = done]]
  BY <1>1 DEF SetWaiting
<1>4. x = [old EXCEPT !.call = call, !.st = st, !.appr = appr, !.done = done]
  BY <1>1 DEF Rows
<1> HIDE DEF old
<1>5. x1 \in Rows /\ x1.agent = old.agent /\ x1.tool = old.tool /\ x1.call = call
  BY <1>1 DEF Rows
<1> HIDE DEF x1
<1>6. /\ x2 \in Rows /\ x2.agent = x1.agent /\ x2.tool = x1.tool
      /\ x2.call = x1.call /\ x2.st = st
  BY <1>5 DEF Rows
<1> HIDE DEF x2
<1>7. /\ x3 \in Rows /\ x3.agent = x2.agent /\ x3.tool = x2.tool
      /\ x3.call = x2.call /\ x3.st = x2.st /\ x3.appr = appr
  BY <1>6 DEF Rows
<1> HIDE DEF x3
<1>8. /\ x \in Rows /\ x.agent = x3.agent /\ x.tool = x3.tool
      /\ x.call = x3.call /\ x.st = x3.st /\ x.appr = appr /\ x.done = done
  BY <1>7 DEF Rows
<1>9. steps' = [steps EXCEPT ![Len(steps)] = x]
  BY <1>3, <1>4
<1> HIDE DEF x
<1>10. LastSet(steps', steps, x)
  BY <1>1, <1>2, <1>8, <1>9, Replaced
<1>11. /\ x.agent = plan[ck.next + 1] /\ x.tool = old.tool
       /\ x.call = call /\ x.st = st
  BY <1>1, <1>5, <1>6, <1>7, <1>8
<1>12. RowFits(goal.tools, x)
  <2>1. x.done => x.appr = "consumed" /\ x.call # "awaiting_approval"
    BY <1>8, <1>11
  <2>2. CASE call = "failed" /\ st = "partial"
    BY <1>11, <2>1, <2>2 DEF RowFits
  <2>3. CASE Allowed(old.agent, old.tool)
    <3>1. old.tool # "none"
      BY <2>3 DEF Allowed, Allowlist
    <3> QED
      BY <1>11, <2>1, <2>3, <3>1 DEF RowFits, Allowed
  <2> QED
    BY <1>1, <2>2, <2>3
<1>13. Snap(goal.tools, run, plan, ck, steps)
  BY DEF IInv
<1>14. steps[Len(steps)].agent = plan[ck.next + 1]
  BY <1>1 DEF old
<1>15. /\ DoneSoFar(plan, ck, steps')
       /\ \A n \in DOMAIN steps' : RowFits(goal.tools, steps'[n])
  <2>1. steps # <<>> /\ ck.next < Len(plan)
    BY <1>1
  <2>2. x \in Rows /\ x.agent = plan[ck.next + 1]
    BY <1>8, <1>11
  <2> QED
    BY <1>2, <1>10, <1>12, <1>13, <1>14, <2>1, <2>2, SetRow
<1>16. /\ steps' \in Seq(Rows) /\ steps' # <<>> /\ steps'[Len(steps')] = x
  BY <1>10 DEF LastSet
<1>17. \A n \in DOMAIN steps' : steps'[n].call # "awaiting_approval"
  BY <1>1, <1>10, <1>11 DEF LastSet
<1> QED
  BY <1>1, <1>11, <1>15, <1>16, <1>17

LEMMA ResumeStep == ASSUME IInv, Resume PROVE IInv'
<1>1. /\ ck.wait # 0 /\ Allowed(Waiting.agent, Waiting.tool)
      /\ SetWaiting("succeeded", "succeeded", "consumed", TRUE)
      /\ run' = "running" /\ ck' = Advance(ck, FALSE) /\ Goes("next")
      /\ UNCHANGED <<plan, said, out>>
  BY DEF Resume
<1>2. /\ steps' \in Seq(Rows) /\ steps' # <<>>
      /\ steps'[Len(steps')].st = "succeeded"
      /\ steps'[Len(steps')].agent = plan[ck.next + 1]
      /\ ck.next < Len(plan)
      /\ DoneSoFar(plan, ck, steps')
      /\ \A n \in DOMAIN steps' : RowFits(goal.tools, steps'[n])
      /\ \A n \in DOMAIN steps' : steps'[n].call # "awaiting_approval"
  BY <1>1, WaitingSet
<1>3. /\ plan \in Seq(Targets) /\ ck \in Checkpoints /\ plan \in Plans /\ TypeOK
  BY Typed DEF IInv, Snap
<1>4. TaskDone(plan[ck.next + 1], steps')
  BY <1>2, LastDone
<1>5. /\ ck' \in Checkpoints /\ ck'.next <= Len(plan) /\ ck'.wait = 0
      /\ DoneSoFar(plan, ck', steps') /\ WaitFits(plan, ck', steps')
  BY <1>1, <1>2, <1>3, <1>4, Advanced
<1>6. Snap(goal.tools, "running", plan, ck', steps')
  BY <1>2, <1>3, <1>5 DEF Snap, StatusFits
<1>7. Snap(goal.tools, run', plan', ck', steps')
  BY <1>1, <1>6
<1>8. Point("next", run', plan', ck', steps', out')
  BY <1>1, <1>5 DEF Point, InStep, Judging
<1>9. /\ run' \in RunStatus /\ plan' \in Seq(Targets)
      /\ said' \in ReplyKinds \cup {"none"} /\ out' \in Considered
  BY <1>1, <1>3 DEF RunStatus, TypeOK
<1> QED
  BY <1>1, <1>2, <1>5, <1>7, <1>8, <1>9, GoesOn DEF Points

LEMMA ResumeRefusedStep ==
    ASSUME IInv, NEW appr \in {"approved", "consumed"}, NEW done \in BOOLEAN,
           ResumeRefused(appr, done)
    PROVE  IInv'
<1>1. /\ ck.wait # 0 /\ (done => appr = "consumed")
      /\ SetWaiting("failed", "partial", appr, done)
      /\ run' = "awaiting_input" /\ ck' = [ck EXCEPT !.wait = 0]
      /\ UNCHANGED <<goal, plan>> /\ Commit
  BY DEF ResumeRefused
<1>2. /\ steps' \in Seq(Rows) /\ ck.next < Len(plan)
      /\ DoneSoFar(plan, ck, steps')
      /\ \A n \in DOMAIN steps' : RowFits(goal.tools, steps'[n])
      /\ \A n \in DOMAIN steps' : steps'[n].call # "awaiting_approval"
  BY <1>1, WaitingSet
<1>3. /\ plan \in Seq(Targets) /\ ck \in Checkpoints /\ plan \in Plans
      /\ ck.next <= Len(plan)
  BY Typed DEF IInv, Snap
<1>4. /\ ck' \in Checkpoints /\ ck'.next = ck.next /\ ck'.wait = 0
      /\ ck'.failed = ck.failed
  <2>1. ck' = [ck EXCEPT !.wait = 0] /\ 0 \in Nat /\ ck \in Checkpoints
    BY <1>1, <1>3
  <2> QED
    BY <2>1, WaitSet
<1>5. WaitFits(plan, ck', steps')
  <2>1. \A n \in DOMAIN steps' : n # 0
    BY <1>2
  <2> QED
    BY <1>2, <1>4, <2>1 DEF WaitFits
<1>6. DoneSoFar(plan, ck', steps')
  BY <1>2, <1>4 DEF DoneSoFar
<1>7. StatusFits("awaiting_input", plan, ck')
  BY <1>4 DEF StatusFits
<1>8. Snap(goal.tools, "awaiting_input", plan, ck', steps')
  BY <1>2, <1>3, <1>4, <1>5, <1>6, <1>7 DEF Snap
<1>9. Snap(goal.tools, run', plan', ck', steps')
  BY <1>1, <1>8
<1>10. run' \in RunStatus /\ plan' \in Seq(Targets)
  BY <1>1, <1>3 DEF RunStatus
<1> QED
  BY <1>1, <1>2, <1>4, <1>9, <1>10, Committed

-----------------------------------------------------------------------------
(* The invariant *)

LEMMA InitIInv == Init => IInv
<1> SUFFICES ASSUME Init PROVE IInv
  OBVIOUS
<1>1. /\ goal \in Goals /\ run = "created" /\ plan = <<>> /\ ck = FreshCk
      /\ steps = <<>> /\ cmd = Start /\ tries = 0 /\ pc = "idle"
      /\ said = "none" /\ out = Nothing
      /\ base = [run |-> run, plan |-> plan, ck |-> ck, steps |-> steps]
  BY DEF Init
<1>2. /\ run \in RunStatus /\ plan \in Seq(Targets) /\ steps \in Seq(Rows)
      /\ plan \in Plans
  BY <1>1 DEF RunStatus, Plans
<1>3. ck \in Checkpoints /\ ck.next = 0 /\ ck.wait = 0 /\ ~ck.failed
  BY <1>1 DEF FreshCk, Checkpoints
<1>4. base \in States
  BY <1>1, <1>2, <1>3, StateRow
<1>5. TypeOK
  BY <1>1, <1>4 DEF TypeOK, Points, Start, Nothing, Answer, Considered
<1>6. Snap(goal.tools, run, plan, ck, steps)
  BY <1>1, <1>2, <1>3 DEF Snap, DoneSoFar, WaitFits, StatusFits
<1>7. Snap(goal.tools, base.run, base.plan, base.ck, base.steps)
  BY <1>1, <1>6
<1>8. Point(pc, run, plan, ck, steps, out)
  BY <1>1 DEF Point, InStep, Judging
<1> QED
  BY <1>1, <1>5, <1>6, <1>7, <1>8 DEF IInv

LEMMA NextIInv == IInv /\ [Next]_vars => IInv'
<1> SUFFICES ASSUME IInv, [Next]_vars PROVE IInv'
  OBVIOUS
<1>1. CASE UNCHANGED vars
  BY <1>1 DEF vars, IInv, TypeOK, Snap, Point, RowFits, DoneSoFar, TaskDone,
              WaitFits, StatusFits, StepOpen, AnswerFits
<1>2. ASSUME NEW r \in Replies, Reply(r) PROVE IInv'
  BY <1>2, ReplyStep
<1>3. CASE GiveUp
  BY <1>3, GiveStep DEF GiveUp
<1>4. CASE Approve
  BY <1>4, ApproveStep
<1>5. ASSUME NEW appr \in {"approved", "consumed"}, NEW done \in BOOLEAN,
             ResumeRefused(appr, done)
      PROVE  IInv'
  BY <1>5, ResumeRefusedStep
<1>6. CASE Claim \/ Raise \/ Route \/ Continue
  BY <1>6, ClaimStep, RaiseStep, RouteStep, ContinueStep
<1>7. CASE NextStep \/ AmountMissing \/ Ask \/ Judge \/ JudgeTool \/ Screen
  BY <1>7, NextStepStep, AnswerSteps
<1>8. CASE \/ Prepare \/ PrepareAgain \/ NoTool
           \/ Refuse \/ AskApproval \/ RunTool
  BY <1>8, PrepareStep, ToolStep, AskApprovalStep
<1>9. CASE Resume \/ AskUser \/ FinishStep \/ End
  BY <1>9, ResumeStep, FinishSteps, EndStep
<1> QED
  BY <1>1, <1>2, <1>3, <1>4, <1>5, <1>6, <1>7, <1>8, <1>9
     DEF Next, Work, User

LEMMA Invariance == Spec => []IInv
BY InitIInv, NextIInv, PTL DEF Spec

-----------------------------------------------------------------------------
(* Runs, plans, checkpoints, steps and answers are well-formed, before a   *)
(* command and at every point of it.                                       *)
THEOREM TypeCorrect == Spec => []TypeOK
BY Invariance, PTL DEF IInv

(* Any run that ends as succeeded has finished every task of its plan with *)
(* a step that succeeded, however often it stopped for the user.           *)
THEOREM DoneIsDone == Spec => []DoneMeansDone
<1>1. IInv => DoneMeansDone
  <2> SUFFICES ASSUME IInv, run = "succeeded", NEW k \in DOMAIN plan
               PROVE  HasStep(plan[k]) /\ LastStatus(plan[k]) = "succeeded"
    BY DEF DoneMeansDone
  <2>1. /\ ck.next = Len(plan) /\ ~ck.failed /\ DoneSoFar(plan, ck, steps)
        /\ plan \in Seq(Targets) /\ steps \in Seq(Rows)
    BY Typed DEF IInv, Snap, StatusFits
  <2>2. TaskDone(plan[k], steps)
    BY <2>1 DEF DoneSoFar
  <2>3. PICK n \in DOMAIN steps :
            /\ steps[n].agent = plan[k] /\ steps[n].st = "succeeded"
            /\ \A m \in DOMAIN steps : steps[m].agent = plan[k] => m <= n
    BY <2>2 DEF TaskDone
  <2>4. /\ LastOf(plan[k]) \in DOMAIN steps
        /\ steps[LastOf(plan[k])].agent = plan[k]
        /\ \A m \in DOMAIN steps :
               steps[m].agent = plan[k] => m <= LastOf(plan[k])
    BY <2>3 DEF LastOf
  <2>5. LastOf(plan[k]) = n
    <3>1. DOMAIN steps \subseteq Int
      BY <2>1
    <3> QED
      BY <2>3, <2>4, <3>1
  <2> QED
    BY <2>3, <2>5 DEF HasStep, LastStatus
<1> QED
  BY <1>1, Invariance, PTL

(* No step of a run whose words call for a write tool succeeds on the word *)
(* of the model, whatever the models answer: only a model that drops its   *)
(* call when it is asked for other arguments gets through.                 *)
THEOREM ClaimsAreBacked == Spec => []NoEmptyClaim
<1>1. IInv => NoEmptyClaim
  BY DEF IInv, Snap, RowFits, NoEmptyClaim
<1> QED
  BY <1>1, Invariance, PTL

(* An open run waits for an approval exactly when one step, the one its    *)
(* checkpoint names, holds a call to be approved; nothing guarded is done  *)
(* without a consumed approval.                                            *)
THEOREM WaitsAreBacked == Spec => []WaitIsBacked
<1>1. IInv => WaitIsBacked
  BY DEF IInv, Snap, WaitFits, StatusFits, RowFits, WaitIsBacked
<1> QED
  BY <1>1, Invariance, PTL

(* The selection of tools binds every call of the run: those that ran and  *)
(* those that wait, after any number of corrections and resumptions.       *)
THEOREM SelectionBinds == Spec => []SelectionHolds
<1>1. IInv => SelectionHolds
  BY DEF IInv, Snap, RowFits, SelectionHolds
<1> QED
  BY <1>1, Invariance, PTL
===============================================================================
