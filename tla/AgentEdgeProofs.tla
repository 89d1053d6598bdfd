---------------------------- MODULE AgentEdgeProofs ----------------------------
(***************************************************************************)
(* Machine-checked proofs about the two edges of the agent runtime: about  *)
(* RunStream, for logs, pauses, reloads and faults of any number (the      *)
(* timeline is the log, and one loss is survived); about ToolGateway, for  *)
(* any set of runs, amounts and (finitely many) keys, any number of calls  *)
(* and any interleaving.                                                   *)
(***************************************************************************)
EXTENDS RunStream, ToolGateway, FiniteSetTheorems, TLAPS

-----------------------------------------------------------------------------
(* The event stream and the page of a run.                                 *)

(* The frame tells an event of the log.                                    *)
Genuine(f, lg) == f.real /\ f.seq <= Len(lg) /\ f.kind = lg[f.seq]
(* ... or is the error the generator makes up, which ends the stream.      *)
MadeUp(f) == ~f.real /\ f.kind = "error" /\ f.seq <= MaxLog + 1

Room == ~Ended => Len(log) < MaxLog

Timeline ==
    /\ last = Len(shown)
    /\ phase \in {"absent", "mounting", "down"} => shown = <<>>
    /\ \A i \in DOMAIN shown :
           /\ shown[i].seq = i
           /\ \/ Genuine(shown[i], log)
              \/ ~shown[i].real /\ i = Len(shown) /\ phase = "settled"

(* What a reading page will get are the events after its last one; a       *)
(* stream that was not lost goes on or ends with a closing frame.          *)
Retries == IF retried THEN 1 ELSE 0
LinkOK ==
    phase = "reading" =>
        /\ \A i \in DOMAIN wire :
               /\ wire[i].seq = last + i
               /\ \/ Genuine(wire[i], log)
                  \/ MadeUp(wire[i]) /\ i = Len(wire) /\ ~server.on
        /\ server.on => server.cursor = last + Len(wire)
        /\ \/ server.on \/ faults > Retries
           \/ wire # <<>> /\ wire[Len(wire)].kind \in ClosesStream

Losses == Retries <= faults /\ OneLossIsSurvived

StreamIInv == StreamTypeOK /\ Room /\ Timeline /\ LinkOK /\ Losses

-----------------------------------------------------------------------------
(* What is in the log stays in it.                                         *)
LEMMA LogGrows ==
    ASSUME NEW lg \in Seq(Kinds), NEW kind \in Kinds, NEW f \in Frames,
           Genuine(f, lg)
    PROVE  Genuine(f, Append(lg, kind))
BY DEF Genuine, Frames

LEMMA FramesGenuine ==
    ASSUME NEW lg \in Seq(Kinds), NEW s \in Seq(Frames), NEW i \in DOMAIN s,
           NEW kind \in Kinds, Genuine(s[i], lg)
    PROVE  Genuine(s[i], Append(lg, kind))
<1>1. s[i] \in Frames
  OBVIOUS
<1> QED
  BY <1>1, LogGrows

LEMMA Facts ==
    ASSUME StreamIInv
    PROVE  /\ StreamTypeOK /\ Room /\ Timeline /\ LinkOK /\ Losses
           /\ log \in Seq(Kinds) /\ Len(log) \in Nat /\ Len(log) <= MaxLog
           /\ wire \in Seq(Frames) /\ shown \in Seq(Frames)
           /\ Len(wire) \in Nat /\ Len(shown) \in Nat /\ last \in Nat
           /\ faults \in Nat /\ MaxLog \in Nat /\ MaxLog > 0
           /\ MaxFaults \in Nat /\ MaxReloads \in Nat
           /\ server \in [on : BOOLEAN, cursor : 0 .. MaxLog]
           /\ server.cursor \in Nat /\ retried \in BOOLEAN /\ phase \in Phases
BY StreamAssumption DEF StreamIInv, StreamTypeOK

LEMMA LinkFacts ==
    ASSUME StreamIInv, phase = "reading"
    PROVE  /\ \A i \in DOMAIN wire : wire[i].seq = last + i
           /\ \A i \in DOMAIN wire :
                  Genuine(wire[i], log) \/ (MadeUp(wire[i]) /\ i = Len(wire))
           /\ server.on => /\ server.cursor = last + Len(wire)
                           /\ \A i \in DOMAIN wire : Genuine(wire[i], log)
           /\ \/ server.on \/ faults > Retries
              \/ wire # <<>> /\ wire[Len(wire)].kind \in ClosesStream
BY DEF StreamIInv, LinkOK

LEMMA StreamInitIInv == StreamInit => StreamIInv
<1> SUFFICES ASSUME StreamInit PROVE StreamIInv
  OBVIOUS
<1>1. MaxLog \in Nat \ {0} /\ MaxReloads \in Nat /\ MaxFaults \in Nat
  BY StreamAssumption
<1>2. StreamTypeOK
  <2>1. /\ log \in Seq(Kinds) /\ Len(log) <= MaxLog
        /\ wire \in Seq(Frames) /\ shown \in Seq(Frames)
    BY <1>1 DEF StreamInit
  <2>2. server \in [on : BOOLEAN, cursor : 0 .. MaxLog]
    BY <1>1 DEF StreamInit
  <2>3. /\ last \in 0 .. MaxLog + 1 /\ loads \in SUBSET Loads
        /\ detail \in 0 .. MaxLog /\ issued \in Nat
        /\ reloads \in 0 .. MaxReloads /\ faults \in 0 .. MaxFaults
    BY <1>1 DEF StreamInit
  <2>4. phase \in Phases /\ retried \in BOOLEAN /\ broken \in BOOLEAN
    BY DEF StreamInit, Phases
  <2> QED
    BY <2>1, <2>2, <2>3, <2>4 DEF StreamTypeOK
<1>3. Room
  BY <1>1 DEF StreamInit, Room
<1>4. Timeline /\ LinkOK /\ Losses
  BY DEF StreamInit, Timeline, LinkOK, Losses, Retries, OneLossIsSurvived
<1> QED
  BY <1>2, <1>3, <1>4 DEF StreamIInv

LEMMA WriteEventStep ==
    ASSUME StreamIInv, NEW kind \in Kinds, WriteEvent(kind) PROVE StreamIInv'
<1>1. /\ ~Ended /\ (kind \in Terminal \/ Len(log) < MaxLog - 1)
      /\ log' = Append(log, kind)
      /\ UNCHANGED <<linkVars, phase, streamVars, detailVars, faults>>
  BY DEF WriteEvent
<1>2. /\ log \in Seq(Kinds) /\ Len(log) \in Nat /\ Len(log) < MaxLog
      /\ MaxLog \in Nat /\ wire \in Seq(Frames) /\ shown \in Seq(Frames)
      /\ StreamTypeOK /\ Timeline /\ LinkOK /\ Losses
  BY <1>1, Facts DEF Room
<1>3. log' \in Seq(Kinds) /\ Len(log') = Len(log) + 1
      /\ log' # <<>> /\ log'[Len(log')] = kind
  <2>1. log \in Seq(Kinds) /\ Len(log) \in Nat /\ log' = Append(log, kind)
    BY <1>1, <1>2
  <2> QED
    BY <2>1
<1>4. StreamTypeOK'
  BY <1>1, <1>2, <1>3
     DEF StreamTypeOK, linkVars, streamVars, detailVars
<1>5. Room'
  BY <1>1, <1>2, <1>3 DEF Room, Ended
<1>6. /\ \A i \in DOMAIN shown : Genuine(shown[i], log) => Genuine(shown[i], log')
      /\ \A i \in DOMAIN wire : Genuine(wire[i], log) => Genuine(wire[i], log')
  BY <1>1, <1>2, FramesGenuine
<1>7. Timeline'
  BY <1>1, <1>2, <1>6 DEF Timeline, linkVars, streamVars
<1>8. LinkOK'
  BY <1>1, <1>2, <1>6 DEF LinkOK, Retries, linkVars, streamVars
<1>9. Losses'
  BY <1>1, <1>2 DEF Losses, Retries, OneLossIsSurvived, streamVars
<1> QED
  BY <1>4, <1>5, <1>7, <1>8, <1>9 DEF StreamIInv

(* The generator and the connection change the frames on their way only.   *)
LEMMA LinkOnly ==
    ASSUME StreamIInv, UNCHANGED <<runVars, phase, streamVars, detailVars>>,
           faults' \in faults .. MaxFaults,
           wire' \in Seq(Frames),
           server' \in [on : BOOLEAN, cursor : 0 .. MaxLog], LinkOK'
    PROVE  StreamIInv'
<1>1. /\ StreamTypeOK /\ Room /\ Timeline /\ Losses /\ faults \in Nat
      /\ MaxFaults \in Nat /\ retried \in BOOLEAN
  BY Facts
<1>2. StreamTypeOK'
  BY <1>1 DEF StreamTypeOK, runVars, streamVars, detailVars
<1>3. Room' /\ Timeline'
  BY <1>1 DEF Room, Ended, Timeline, runVars, streamVars
<1>4. Losses'
  <2>1. Retries \in Nat /\ Retries' = Retries
    BY <1>1 DEF Retries, streamVars
  <2> QED
    BY <1>1, <2>1 DEF Losses, OneLossIsSurvived, streamVars
<1> QED
  BY <1>2, <1>3, <1>4 DEF StreamIInv

LEMMA SendStep == ASSUME StreamIInv, Send PROVE StreamIInv'
<1> DEFINE n == server.cursor + 1
           f == [seq |-> n, kind |-> log[n], real |-> TRUE]
<1>1. /\ server.on /\ server.cursor < Len(log)
      /\ wire' = Append(wire, f)
      /\ server' = [on |-> log[n] \notin ClosesStream, cursor |-> n]
      /\ UNCHANGED <<runVars, phase, streamVars, detailVars, faults>>
  BY DEF Send
<1>2. /\ log \in Seq(Kinds) /\ Len(log) \in Nat /\ Len(log) <= MaxLog
      /\ wire \in Seq(Frames) /\ Len(wire) \in Nat /\ last \in Nat
      /\ MaxLog \in Nat /\ server.cursor \in Nat /\ LinkOK /\ StreamTypeOK
  BY Facts
<1>3. n \in 1 .. Len(log) /\ n \in Nat
  BY <1>1, <1>2
<1>4. f \in Frames /\ Genuine(f, log) /\ f.seq = n /\ f.kind = log[n]
  BY <1>2, <1>3 DEF Frames, Genuine
<1>5. (server'.on \/ log[n] \in ClosesStream) /\ server'.cursor = n
  BY <1>1
<1>6. server' \in [on : BOOLEAN, cursor : 0 .. MaxLog]
  BY <1>1, <1>2, <1>3
<1> HIDE DEF f
<1>7. /\ wire' \in Seq(Frames) /\ Len(wire') = Len(wire) + 1
      /\ wire'[Len(wire')] = f /\ DOMAIN wire' = 1 .. Len(wire) + 1
      /\ \A i \in DOMAIN wire : wire'[i] = wire[i]
      /\ \A i \in DOMAIN wire' : i \in DOMAIN wire \/ i = Len(wire) + 1
  BY <1>1, <1>2, <1>4
<1>8. LinkOK'
  <2> SUFFICES ASSUME phase = "reading" PROVE LinkOK'
    BY <1>1 DEF LinkOK
  <2>1. n = last + Len(wire')
    BY <1>1, <1>2, <1>7 DEF LinkOK
  <2>2. ASSUME NEW i \in DOMAIN wire'
        PROVE  wire'[i].seq = last + i /\ Genuine(wire'[i], log)
    <3>1. CASE i \in DOMAIN wire
      BY <1>1, <1>7, <3>1, LinkFacts
    <3>2. CASE i = Len(wire) + 1
      BY <1>4, <1>7, <2>1, <3>2
    <3> QED
      BY <1>7, <3>1, <3>2
  <2>3. server'.on \/ (wire' # <<>> /\ wire'[Len(wire')].kind \in ClosesStream)
    BY <1>4, <1>5, <1>7
  <2> QED
    BY <1>1, <1>5, <2>1, <2>2, <2>3 DEF LinkOK, runVars, streamVars
<1>9. faults' \in faults .. MaxFaults
  BY <1>1, <1>2 DEF StreamTypeOK
<1> QED
  BY <1>1, <1>6, <1>7, <1>8, <1>9, LinkOnly

LEMMA QueryFailsStep == ASSUME StreamIInv, QueryFails PROVE StreamIInv'
<1> DEFINE f == [seq |-> server.cursor + 1, kind |-> "error", real |-> FALSE]
<1>1. /\ server.on /\ faults < MaxFaults /\ faults' = faults + 1
      /\ wire' = Append(wire, f) /\ server' = [server EXCEPT !.on = FALSE]
      /\ UNCHANGED <<runVars, phase, streamVars, detailVars>>
  BY DEF QueryFails, Fault
<1>2. /\ wire \in Seq(Frames) /\ Len(wire) \in Nat /\ last \in Nat
      /\ MaxLog \in Nat /\ LinkOK /\ faults \in Nat /\ MaxFaults \in Nat
      /\ server \in [on : BOOLEAN, cursor : 0 .. MaxLog]
      /\ server.cursor \in Nat /\ server.cursor <= MaxLog
  BY Facts
<1>3. f \in Frames /\ MadeUp(f) /\ f.seq = server.cursor + 1
  BY <1>2 DEF Frames, MadeUp, Kinds, Terminal
<1>4. server' \in [on : BOOLEAN, cursor : 0 .. MaxLog] /\ ~server'.on
  BY <1>1, <1>2
<1> HIDE DEF f
<1>7. /\ wire' \in Seq(Frames) /\ Len(wire') = Len(wire) + 1
      /\ wire'[Len(wire')] = f /\ DOMAIN wire' = 1 .. Len(wire) + 1
      /\ wire' # <<>>
      /\ \A i \in DOMAIN wire : wire'[i] = wire[i]
      /\ \A i \in DOMAIN wire' : i \in DOMAIN wire \/ i = Len(wire) + 1
  BY <1>1, <1>2, <1>3
<1>8. LinkOK'
  <2> SUFFICES ASSUME phase = "reading" PROVE LinkOK'
    BY <1>1 DEF LinkOK
  <2>2. ASSUME NEW i \in DOMAIN wire'
        PROVE  /\ wire'[i].seq = last + i
               /\ \/ Genuine(wire'[i], log)
                  \/ MadeUp(wire'[i]) /\ i = Len(wire')
    <3>1. CASE i \in DOMAIN wire
      BY <1>1, <1>7, <3>1, LinkFacts
    <3>2. CASE i = Len(wire) + 1
      BY <1>1, <1>2, <1>3, <1>7, <3>2 DEF LinkOK
    <3> QED
      BY <1>7, <3>1, <3>2
  <2>3. wire'[Len(wire')].kind \in ClosesStream
    BY <1>3, <1>7 DEF MadeUp, ClosesStream, Terminal
  <2> QED
    BY <1>1, <1>4, <1>7, <2>2, <2>3 DEF LinkOK, runVars, streamVars
<1>9. faults' \in faults .. MaxFaults
  BY <1>1, <1>2
<1> QED
  BY <1>1, <1>4, <1>7, <1>8, <1>9, LinkOnly

LEMMA LoseStep == ASSUME StreamIInv, Lose PROVE StreamIInv'
<1>1. /\ phase = "reading" /\ faults < MaxFaults /\ faults' = faults + 1
      /\ server' = [server EXCEPT !.on = FALSE]
      /\ UNCHANGED <<runVars, phase, streamVars, detailVars>>
  BY DEF Lose, Fault
<1>2. /\ wire \in Seq(Frames) /\ Len(wire) \in Nat /\ last \in Nat
      /\ LinkOK /\ Losses /\ faults \in Nat /\ MaxFaults \in Nat
      /\ retried \in BOOLEAN
      /\ server \in [on : BOOLEAN, cursor : 0 .. MaxLog]
  BY Facts
<1>3. PICK n \in 0 .. Len(wire) : wire' = SubSeq(wire, 1, n)
  BY DEF Lose
<1>4. server' \in [on : BOOLEAN, cursor : 0 .. MaxLog] /\ ~server'.on
  BY <1>1, <1>2
<1>5. /\ wire' \in Seq(Frames) /\ Len(wire') = n /\ DOMAIN wire' = 1 .. n
      /\ \A i \in 1 .. n : wire'[i] = wire[i] /\ i \in DOMAIN wire
  BY <1>2, <1>3
<1>6. LinkOK'
  <2>1. ASSUME NEW i \in DOMAIN wire'
        PROVE  /\ wire'[i].seq = last + i
               /\ \/ Genuine(wire'[i], log)
                  \/ MadeUp(wire'[i]) /\ i = Len(wire')
    <3>1. /\ wire'[i] = wire[i] /\ i \in DOMAIN wire /\ i <= n
      BY <1>5
    <3>2. /\ wire[i].seq = last + i
          /\ \/ Genuine(wire[i], log)
             \/ MadeUp(wire[i]) /\ i = Len(wire)
      BY <1>1, <3>1, LinkFacts
    <3> QED
      BY <1>2, <1>5, <3>1, <3>2
  <2>2. faults' > Retries'
    BY <1>1, <1>2 DEF Losses, Retries, streamVars
  <2> QED
    BY <1>1, <1>4, <2>1, <2>2 DEF LinkOK, runVars, streamVars
<1>7. faults' \in faults .. MaxFaults
  BY <1>1, <1>2
<1> QED
  BY <1>1, <1>4, <1>5, <1>6, <1>7, LinkOnly

-----------------------------------------------------------------------------
(* The detail of the run *)

(* The stream on the page is where it was.                                 *)
LEMMA DetailOnly ==
    ASSUME StreamIInv, UNCHANGED <<runVars, linkVars, streamVars>>,
           faults' \in faults .. MaxFaults,
           loads' \in SUBSET Loads, detail' \in 0 .. MaxLog,
           broken' \in BOOLEAN, issued' \in Nat, reloads' \in 0 .. MaxReloads,
           \/ phase' = phase
           \/ phase = "absent" /\ phase' = "mounting"
           \/ phase = "mounting" /\ phase' \in {"connecting", "down"}
    PROVE  StreamIInv'
<1>1. /\ StreamTypeOK /\ Room /\ Timeline /\ LinkOK /\ Losses /\ faults \in Nat
      /\ MaxFaults \in Nat /\ retried \in BOOLEAN
  BY Facts
<1>2. phase' \in Phases
  BY <1>1 DEF StreamTypeOK, Phases
<1>3. StreamTypeOK'
  BY <1>1, <1>2 DEF StreamTypeOK, runVars, linkVars, streamVars
<1>4. Room'
  BY <1>1 DEF Room, Ended, runVars
<1>5. Timeline'
  <2>1. log' = log /\ last' = last /\ shown' = shown
    BY DEF runVars, streamVars
  <2>2. phase = "settled" => phase' = "settled"
    OBVIOUS
  <2>3. \/ phase' = phase
        \/ phase = "absent" /\ phase' = "mounting"
        \/ phase = "mounting"
    OBVIOUS
  <2>4. phase' \in {"absent", "mounting", "down"} => shown' = <<>>
    BY <1>1, <2>1, <2>3 DEF Timeline
  <2> QED
    BY <1>1, <2>1, <2>2, <2>4 DEF Timeline
<1>6. Retries \in Nat /\ Retries' = Retries
  BY <1>1 DEF Retries, streamVars
<1>7. LinkOK'
  <2> SUFFICES ASSUME phase' = "reading" PROVE LinkOK'
    BY DEF LinkOK
  <2>1. /\ phase = "reading" /\ log' = log /\ wire' = wire /\ server' = server
        /\ last' = last /\ shown' = shown
    BY DEF runVars, linkVars, streamVars
  <2>2. faults > Retries => faults' > Retries'
    BY <1>1, <1>6
  <2> QED
    BY <1>1, <2>1, <2>2 DEF LinkOK
<1>8. Losses'
  <2>1. phase' = "failed" => phase = "failed"
    OBVIOUS
  <2>2. shown' = shown
    BY DEF streamVars
  <2> QED
    BY <1>1, <1>6, <2>1, <2>2 DEF Losses, OneLossIsSurvived
<1> QED
  BY <1>3, <1>4, <1>5, <1>7, <1>8 DEF StreamIInv

LEMMA LoadType ==
    ASSUME StreamIInv, Load
    PROVE  loads' \in SUBSET Loads /\ issued' \in Nat /\ broken' \in BOOLEAN
<1>1. loads \in SUBSET Loads /\ issued \in Nat
  BY DEF StreamIInv, StreamTypeOK
<1>2. [id |-> issued, saw |-> Unserved] \in Loads
  BY <1>1 DEF Loads
<1>3. loads' \in SUBSET Loads
  BY <1>1, <1>2 DEF Load
<1>4. issued' \in Nat
  BY <1>1 DEF Load
<1>5. broken' \in BOOLEAN
  BY DEF Load
<1> QED
  BY <1>3, <1>4, <1>5

LEMMA DetailStep ==
    ASSUME StreamIInv,
           \/ Mount \/ Reload
           \/ \E l \in loads : ServeLoad(l) \/ Loaded(l) \/ LoadFails(l)
    PROVE  StreamIInv'
<1>1. /\ loads \in SUBSET Loads /\ detail \in 0 .. MaxLog /\ issued \in Nat
      /\ reloads \in 0 .. MaxReloads /\ faults \in 0 .. MaxFaults
      /\ broken \in BOOLEAN
  BY DEF StreamIInv, StreamTypeOK
<1>2. /\ MaxReloads \in Nat /\ MaxFaults \in Nat /\ MaxLog \in Nat
      /\ Len(log) \in 0 .. MaxLog /\ faults \in faults .. MaxFaults
  BY <1>1, Facts
<1>3. CASE Mount
  <2>1. /\ phase = "absent" /\ phase' = "mounting" /\ Load
        /\ UNCHANGED <<runVars, linkVars, streamVars, detail, reloads, faults>>
    BY <1>3 DEF Mount
  <2>2. loads' \in SUBSET Loads /\ issued' \in Nat /\ broken' \in BOOLEAN
    BY <2>1, LoadType
  <2>3. faults' \in faults .. MaxFaults
    BY <1>2, <2>1
  <2> QED
    BY <1>1, <2>1, <2>2, <2>3, DetailOnly
<1>4. CASE Reload
  <2>1. /\ reloads < MaxReloads /\ reloads' = reloads + 1 /\ Load
        /\ UNCHANGED <<runVars, linkVars, phase, streamVars, detail, faults>>
    BY <1>4 DEF Reload
  <2>2. loads' \in SUBSET Loads /\ issued' \in Nat /\ broken' \in BOOLEAN
    BY <2>1, LoadType
  <2>3. faults' \in faults .. MaxFaults /\ reloads' \in 0 .. MaxReloads
    BY <1>1, <1>2, <2>1
  <2> QED
    BY <1>1, <2>1, <2>2, <2>3, DetailOnly
<1>5. ASSUME NEW l \in loads, ServeLoad(l) PROVE StreamIInv'
  <2>1. /\ loads' = (loads \ {l}) \cup {[l EXCEPT !.saw = Len(log)]}
        /\ UNCHANGED <<runVars, linkVars, phase, streamVars, detail, broken,
                       issued, reloads, faults>>
    BY <1>5 DEF ServeLoad
  <2>2. l \in Loads
    BY <1>1
  <2>3. [l EXCEPT !.saw = Len(log)] \in Loads
    BY <1>2, <2>2 DEF Loads
  <2>4. loads' \in SUBSET Loads /\ faults' \in faults .. MaxFaults
    BY <1>1, <1>2, <2>1, <2>3
  <2> QED
    BY <1>1, <2>1, <2>4, DetailOnly
<1>6. ASSUME NEW l \in loads, Loaded(l) PROVE StreamIInv'
  <2>1. /\ l.saw # Unserved /\ loads' = loads \ {l} /\ detail' = l.saw
        /\ phase' = IF phase = "mounting" THEN "connecting" ELSE phase
        /\ UNCHANGED <<runVars, linkVars, streamVars, broken, issued, reloads,
                       faults>>
    BY <1>6 DEF Loaded
  <2>2. l \in Loads
    BY <1>1
  <2>3. detail' \in 0 .. MaxLog
    BY <2>1, <2>2 DEF Loads
  <2>4. loads' \in SUBSET Loads /\ faults' \in faults .. MaxFaults
    BY <1>1, <1>2, <2>1
  <2>5. phase' = phase \/ (phase = "mounting" /\ phase' \in {"connecting", "down"})
    BY <2>1
  <2> QED
    BY <1>1, <2>1, <2>3, <2>4, <2>5, DetailOnly
<1>7. ASSUME NEW l \in loads, LoadFails(l) PROVE StreamIInv'
  <2>1. /\ faults < MaxFaults /\ faults' = faults + 1
        /\ loads' = loads \ {l} /\ broken' = TRUE
        /\ phase' = IF phase = "mounting" THEN "down" ELSE phase
        /\ UNCHANGED <<runVars, linkVars, streamVars, detail, issued, reloads>>
    BY <1>7 DEF LoadFails, Fault
  <2>2. loads' \in SUBSET Loads /\ broken' \in BOOLEAN
    BY <1>1, <2>1
  <2>3. faults' \in faults .. MaxFaults
    BY <1>1, <1>2, <2>1
  <2>4. phase' = phase \/ (phase = "mounting" /\ phase' \in {"connecting", "down"})
    BY <2>1
  <2> QED
    BY <1>1, <2>1, <2>2, <2>3, <2>4, DetailOnly
<1> QED
  BY <1>3, <1>4, <1>5, <1>6, <1>7

-----------------------------------------------------------------------------
(* The stream on the page *)

(* A page that connects has nothing made up in its timeline, so its cursor *)
(* lies within the log.                                                    *)
LEMMA ShownGenuine ==
    ASSUME StreamIInv, phase # "settled"
    PROVE  /\ last <= Len(log)
           /\ \A i \in DOMAIN shown : shown[i].seq = i /\ Genuine(shown[i], log)
<1>1. /\ \A i \in DOMAIN shown : shown[i].seq = i /\ Genuine(shown[i], log)
      /\ last = Len(shown) /\ shown \in Seq(Frames) /\ Len(shown) \in Nat
      /\ Len(log) \in Nat
  BY Facts DEF Timeline
<1>2. CASE shown = <<>>
  BY <1>1, <1>2
<1>3. CASE shown # <<>>
  <2>1. Len(shown) \in DOMAIN shown
    BY <1>1, <1>3
  <2>2. Len(shown) <= Len(log)
    BY <1>1, <2>1 DEF Genuine
  <2> QED
    BY <1>1, <2>2
<1> QED
  BY <1>1, <1>2, <1>3

LEMMA ConnectStep == ASSUME StreamIInv, Connect PROVE StreamIInv'
<1>1. /\ phase = "connecting" /\ last <= Len(log) /\ phase' = "reading"
      /\ server' = [on |-> TRUE, cursor |-> last] /\ wire' = <<>>
      /\ UNCHANGED <<runVars, streamVars, detailVars, faults>>
  BY DEF Connect
<1>2. /\ StreamTypeOK /\ Room /\ Timeline /\ Losses /\ last \in Nat
      /\ Len(log) \in Nat /\ Len(log) <= MaxLog /\ MaxLog \in Nat
  BY Facts
<1>3. /\ server' \in [on : BOOLEAN, cursor : 0 .. MaxLog]
      /\ server'.on /\ server'.cursor = last
  BY <1>1, <1>2
<1>4. wire' \in Seq(Frames) /\ Len(wire') = 0 /\ DOMAIN wire' = {}
  BY <1>1
<1>5. StreamTypeOK'
  BY <1>1, <1>2, <1>3, <1>4
     DEF StreamTypeOK, Phases, runVars, streamVars, detailVars
<1>6. Room' /\ Timeline'
  BY <1>1, <1>2 DEF Room, Ended, Timeline, runVars, streamVars
<1>7. LinkOK'
  BY <1>1, <1>2, <1>3, <1>4 DEF LinkOK, streamVars
<1>8. Losses'
  BY <1>1, <1>2 DEF Losses, OneLossIsSurvived, Retries, streamVars
<1> QED
  BY <1>5, <1>6, <1>7, <1>8 DEF StreamIInv

(* A loss was paid for with a fault more than the page had reconnects.     *)
LEMMA ThrownStep ==
    ASSUME StreamIInv, phase \in {"connecting", "reading"}, Thrown,
           UNCHANGED linkVars, UNCHANGED runVars,
           faults' \in faults .. MaxFaults, faults' > Retries
    PROVE  StreamIInv'
<1>1. /\ StreamTypeOK /\ Room /\ Timeline /\ Losses /\ retried \in BOOLEAN
      /\ faults \in Nat /\ MaxFaults \in Nat
      /\ last = Len(shown) /\ shown \in Seq(Frames) /\ last \in Nat
  BY Facts DEF Timeline
<1>2. /\ last' = last /\ shown' = shown /\ UNCHANGED detailVars
      /\ \/ ~retried /\ last > 0 /\ retried' = TRUE /\ phase' = "connecting"
         \/ /\ retried \/ ~(last > 0)
            /\ retried' = retried /\ phase' = "failed"
  BY DEF Thrown
<1>3. retried' \in BOOLEAN /\ phase' \in Phases
  BY <1>1, <1>2 DEF Phases
<1>4. StreamTypeOK'
  BY <1>1, <1>2, <1>3 DEF StreamTypeOK, runVars, linkVars, detailVars
<1>5. Room' /\ LinkOK'
  BY <1>1, <1>2 DEF Room, Ended, LinkOK, runVars
<1>6. Timeline'
  BY <1>1, <1>2 DEF Timeline, runVars
<1>7. Losses'
  <2>1. CASE ~retried /\ last > 0 /\ retried' = TRUE /\ phase' = "connecting"
    BY <1>1, <2>1 DEF Losses, Retries, OneLossIsSurvived
  <2>2. CASE /\ retried \/ ~(last > 0)
             /\ retried' = retried /\ phase' = "failed"
    <3>1. Retries' <= faults'
      BY <1>1, <2>2 DEF Retries
    <3>2. retried => faults' > 1
      BY <1>1 DEF Retries
    <3>3. ~(last > 0) => shown = <<>>
      BY <1>1
    <3> QED
      BY <1>2, <2>2, <3>1, <3>2, <3>3 DEF Losses, OneLossIsSurvived
  <2> QED
    BY <1>2, <2>1, <2>2
<1> QED
  BY <1>4, <1>5, <1>6, <1>7 DEF StreamIInv

LEMMA LossStep == ASSUME StreamIInv, ConnectFails \/ EndOfStream PROVE StreamIInv'
<1>1. /\ faults \in Nat /\ MaxFaults \in Nat /\ faults <= MaxFaults
      /\ Losses /\ retried \in BOOLEAN
  BY Facts DEF StreamTypeOK
<1>2. CASE ConnectFails
  <2>1. phase = "connecting" /\ Thrown /\ UNCHANGED linkVars /\ UNCHANGED runVars
    BY <1>2 DEF ConnectFails, Thrown
  <2>2. last <= Len(log)
    BY <2>1, ShownGenuine
  <2>3. faults < MaxFaults /\ faults' = faults + 1
    BY <1>2, <2>2 DEF ConnectFails, Fault
  <2>4. faults' \in faults .. MaxFaults /\ faults' > Retries
    BY <1>1, <2>3 DEF Losses, Retries
  <2> QED
    BY <2>1, <2>4, ThrownStep
<1>3. CASE EndOfStream
  <2>1. /\ phase = "reading" /\ wire = <<>> /\ ~server.on /\ Thrown
        /\ UNCHANGED linkVars /\ UNCHANGED runVars /\ faults' = faults
    BY <1>3 DEF EndOfStream, Thrown
  <2>2. faults > Retries
    BY <2>1, LinkFacts
  <2>3. faults' \in faults .. MaxFaults /\ faults' > Retries
    BY <1>1, <2>1, <2>2
  <2> QED
    BY <2>1, <2>3, ThrownStep
<1> QED
  BY <1>2, <1>3

LEMMA ReadStep == ASSUME StreamIInv, Read PROVE StreamIInv'
<1> DEFINE f == wire[1]
<1>1. /\ StreamTypeOK /\ Room /\ Timeline /\ LinkOK /\ Losses
      /\ wire \in Seq(Frames) /\ Len(wire) \in Nat /\ last \in Nat
      /\ shown \in Seq(Frames) /\ Len(shown) \in Nat /\ last = Len(shown)
      /\ faults \in Nat /\ MaxFaults \in Nat /\ retried \in BOOLEAN
      /\ log \in Seq(Kinds) /\ Len(log) \in Nat /\ Len(log) <= MaxLog
      /\ MaxLog \in Nat
  BY Facts DEF Timeline
<1>2. /\ phase = "reading" /\ wire # <<>> /\ wire' = Tail(wire)
      /\ Head(wire) = f
      /\ UNCHANGED <<runVars, server, retried, faults>>
  BY <1>1 DEF Read
<1>3. 1 \in DOMAIN wire /\ f \in Frames
  BY <1>1, <1>2
<1>4. /\ f.seq = last + 1
      /\ \/ Genuine(f, log)
         \/ MadeUp(f) /\ 1 = Len(wire)
  BY <1>2, <1>3, LinkFacts
<1>5. /\ last' = f.seq /\ shown' = Append(shown, f)
      /\ phase' = IF StopsReader(f) THEN "settled" ELSE phase
      /\ UNCHANGED <<detail, reloads>>
      /\ Load \/ UNCHANGED <<loads, issued, broken>>
  <2>1. ~(f.seq <= last)
    BY <1>1, <1>4
  <2> QED
    BY <1>2, <2>1 DEF Read
<1>6. loads' \in SUBSET Loads /\ issued' \in Nat /\ broken' \in BOOLEAN
  BY <1>1, <1>5, LoadType DEF StreamTypeOK
<1>7. f.seq <= MaxLog + 1
  BY <1>1, <1>4 DEF Genuine, MadeUp
<1>8. MadeUp(f) => StopsReader(f)
  BY DEF MadeUp, StopsReader, ClosesStream, Terminal
<1> HIDE DEF f
<1>9. /\ wire' \in Seq(Frames) /\ Len(wire') = Len(wire) - 1
      /\ Len(wire) >= 1
      /\ \A i \in DOMAIN wire' : wire'[i] = wire[i + 1] /\ i + 1 \in DOMAIN wire
      /\ DOMAIN wire' = 1 .. Len(wire) - 1
  BY <1>1, <1>2
<1>10. /\ shown' \in Seq(Frames) /\ Len(shown') = Len(shown) + 1
       /\ DOMAIN shown' = 1 .. Len(shown) + 1
       /\ shown'[Len(shown) + 1] = f
       /\ \A i \in DOMAIN shown : shown'[i] = shown[i]
       /\ \A i \in DOMAIN shown' : i \in DOMAIN shown \/ i = Len(shown) + 1
  BY <1>1, <1>3, <1>5
<1>11. phase' \in {"settled", "reading"} /\ phase' \in Phases
       /\ (phase' = "reading" => ~StopsReader(f))
  BY <1>2, <1>5 DEF Phases
<1>12. last' \in 0 .. MaxLog + 1
  BY <1>1, <1>4, <1>5, <1>7
<1>13. StreamTypeOK'
  BY <1>1, <1>2, <1>5, <1>6, <1>9, <1>10, <1>11, <1>12 DEF StreamTypeOK, runVars
<1>14. Room'
  BY <1>1, <1>2 DEF Room, Ended, runVars
<1>15. Timeline'
  <2>1. ASSUME NEW i \in DOMAIN shown'
        PROVE  /\ shown'[i].seq = i
               /\ \/ Genuine(shown'[i], log)
                  \/ ~shown'[i].real /\ i = Len(shown') /\ phase' = "settled"
    <3>1. CASE i \in DOMAIN shown
      BY <1>2, <1>10, <3>1, ShownGenuine
    <3>2. CASE i = Len(shown) + 1
      <4>1. shown'[i] = f /\ f.seq = i
        BY <1>1, <1>4, <1>10, <3>2
      <4>2. Genuine(f, log) \/ (~f.real /\ phase' = "settled")
        BY <1>4, <1>5, <1>8 DEF MadeUp
      <4> QED
        BY <1>10, <3>2, <4>1, <4>2
    <3> QED
      BY <1>10, <3>1, <3>2
  <2>2. last' = Len(shown')
    BY <1>1, <1>4, <1>5, <1>10
  <2>3. log' = log /\ phase' \notin {"absent", "mounting", "down"}
    BY <1>2, <1>11 DEF runVars
  <2> QED
    BY <2>1, <2>2, <2>3 DEF Timeline
<1>16. LinkOK'
  <2> SUFFICES ASSUME phase' = "reading" PROVE LinkOK'
    BY DEF LinkOK
  <2>1. ~StopsReader(f) /\ log' = log /\ server' = server /\ last' = last + 1
        /\ Retries' = Retries /\ faults' = faults
    BY <1>2, <1>4, <1>5, <1>11 DEF runVars, Retries
  <2>2. ASSUME NEW i \in DOMAIN wire'
        PROVE  /\ wire'[i].seq = last' + i
               /\ \/ Genuine(wire'[i], log)
                  \/ MadeUp(wire'[i]) /\ i = Len(wire') /\ ~server.on
    <3>1. wire'[i] = wire[i + 1] /\ i + 1 \in DOMAIN wire
      BY <1>9
    <3>2. /\ wire[i + 1].seq = last + (i + 1)
          /\ \/ Genuine(wire[i + 1], log)
             \/ MadeUp(wire[i + 1]) /\ i + 1 = Len(wire)
          /\ server.on => Genuine(wire[i + 1], log)
      BY <1>2, <3>1, LinkFacts
    <3>3. i \in Nat /\ last + (i + 1) = last' + i
      <4>1. i \in 1 .. Len(wire) - 1 /\ Len(wire) \in Nat /\ last \in Nat
        BY <1>1, <1>9
      <4>2. last' = last + 1
        BY <2>1
      <4> QED
        BY <4>1, <4>2
    <3> QED
      BY <1>1, <1>9, <3>1, <3>2, <3>3
  <2>3. server.on => server.cursor = last' + Len(wire')
    <3>1. server.on => server.cursor = last + Len(wire)
      BY <1>2, LinkFacts
    <3> QED
      BY <1>1, <1>9, <2>1, <3>1
  <2>4. \/ server.on \/ faults > Retries
        \/ wire' # <<>> /\ wire'[Len(wire')].kind \in ClosesStream
    <3>1. CASE wire # <<>> /\ wire[Len(wire)].kind \in ClosesStream
      <4>1. Len(wire) # 1
        BY <2>1, <3>1 DEF StopsReader, f
      <4>2. Len(wire') \in DOMAIN wire' /\ Len(wire') + 1 = Len(wire)
        BY <1>1, <1>9, <4>1
      <4>3. wire'[Len(wire')] = wire[Len(wire)] /\ wire' # <<>>
        BY <1>9, <4>2
      <4> QED
        BY <3>1, <4>3
    <3> QED
      BY <1>2, <3>1, LinkFacts
  <2> QED
    BY <2>1, <2>2, <2>3, <2>4 DEF LinkOK
<1>17. Losses'
  BY <1>1, <1>2, <1>11 DEF Losses, OneLossIsSurvived, Retries
<1> QED
  BY <1>13, <1>14, <1>15, <1>16, <1>17 DEF StreamIInv

LEMMA StreamNextIInv == StreamIInv /\ [StreamNext]_runStreamVars => StreamIInv'
<1> SUFFICES ASSUME StreamIInv, [StreamNext]_runStreamVars PROVE StreamIInv'
  OBVIOUS
<1>1. CASE UNCHANGED runStreamVars
  <2>1. /\ UNCHANGED <<runVars, linkVars, streamVars>>
        /\ phase' = phase /\ faults' = faults /\ loads' = loads
        /\ detail' = detail /\ broken' = broken /\ issued' = issued
        /\ reloads' = reloads
    BY <1>1 DEF runStreamVars, detailVars
  <2>2. /\ loads \in SUBSET Loads /\ detail \in 0 .. MaxLog
        /\ broken \in BOOLEAN /\ issued \in Nat
        /\ reloads \in 0 .. MaxReloads /\ faults \in 0 .. MaxFaults
        /\ MaxFaults \in Nat
    BY Facts DEF StreamTypeOK
  <2>3. faults' \in faults .. MaxFaults
    BY <2>1, <2>2
  <2> QED
    BY <2>1, <2>2, <2>3, DetailOnly
<1>2. CASE \E kind \in Kinds : WriteEvent(kind)
  BY <1>2, WriteEventStep
<1>3. CASE Send \/ QueryFails \/ Lose
  BY <1>3, SendStep, QueryFailsStep, LoseStep
<1>4. CASE \/ Mount \/ Reload
           \/ \E l \in loads : ServeLoad(l) \/ Loaded(l) \/ LoadFails(l)
  BY <1>4, DetailStep
<1>5. CASE Connect \/ ConnectFails \/ EndOfStream \/ Read
  BY <1>5, ConnectStep, LossStep, ReadStep
<1> QED
  BY <1>1, <1>2, <1>3, <1>4, <1>5 DEF StreamNext

LEMMA StreamInvariance == StreamSpec => []StreamIInv
BY StreamInitIInv, StreamNextIInv, PTL DEF StreamSpec

-----------------------------------------------------------------------------
(* Events, frames and requests are such as the code makes; the cursor of   *)
(* the server stays within the log.                                        *)
THEOREM StreamTypeCorrect == StreamSpec => []StreamTypeOK
BY StreamInvariance, PTL DEF StreamIInv

(* For any log and any losses the timeline of useAgentRunStream is the log *)
(* up to its last entry, which alone may be made up, and ends the page.    *)
THEOREM TimelineIsTrue == StreamSpec => []TimelineIsLog
<1>1. StreamIInv => TimelineIsLog
  <2> SUFFICES ASSUME StreamIInv, NEW i \in DOMAIN shown
               PROVE  /\ shown[i].seq = i
                      /\ IF shown[i].real
                         THEN i <= Len(log) /\ shown[i].kind = log[i]
                         ELSE i = Len(shown) /\ phase = "settled"
    BY DEF TimelineIsLog
  <2>1. /\ shown[i].seq = i
        /\ \/ Genuine(shown[i], log)
           \/ ~shown[i].real /\ i = Len(shown) /\ phase = "settled"
    BY DEF StreamIInv, Timeline
  <2> QED
    BY <2>1 DEF Genuine
<1> QED
  BY <1>1, StreamInvariance, PTL

(* Whenever the connection is lost, and with whatever on its way, a page   *)
(* that has shown an event fails only after a second fault.                *)
THEOREM LossIsSurvived == StreamSpec => []OneLossIsSurvived
BY StreamInvariance, PTL DEF StreamIInv, Losses

-----------------------------------------------------------------------------
(* The tool gateway and its top-ups.                                       *)

(* What a call under way relies on until it commits: its run is open, the  *)
(* approval it found good still is, and the top-up it found is there.      *)
Relies(r) ==
    LET q == tx[r] IN
    /\ q # NoTx => run[r] # "closed"
    /\ q.t = "topup" =>
          /\ Approves(call[r]["topup"][q.via], q.a)
          /\ q.found => topup[q.k] # NoTopup /\ topup[q.k].arg = q.a
CallsRely == \A r \in Runs : Relies(r)

GatewayIInv == GatewayTypeOK /\ CallsRely /\ PaidByApproval /\ SuccessIsPaid

-----------------------------------------------------------------------------
(* The two ways a step can change a call: it leaves every top-up approval  *)
(* that is consumed or approved alone (Prepare, Answer), or it is a commit.*)

LEMMA RowsDiffer == NoTx \notin TxRows /\ NoTopup \notin [run : Runs, arg : Amounts]
BY AmountsAssumption DEF NoTx, TxRows, Tools, NoTopup

(* The row of a guarded call is rewritten and no approval of it is or      *)
(* becomes consumed: what was paid for is still paid for.                  *)
LEMMA UnpaidRow ==
  ASSUME GatewayTypeOK, PaidByApproval, SuccessIsPaid,
         NEW r \in Runs, NEW k \in Keys, NEW c \in CallRows,
         call[r]["topup"][k].ap # "consumed",
         c.ap # "consumed", c.st # "succeeded",
         call' = [call EXCEPT ![r]["topup"][k] = c],
         topup' = topup
  PROVE  PaidByApproval' /\ SuccessIsPaid'
<1>1. \A s \in Runs, j \in Keys :
         call'[s]["topup"][j] = IF s = r /\ j = k THEN c ELSE call[s]["topup"][j]
  BY DEF GatewayTypeOK, Tools
<1>2. \A s \in Runs, a \in Amounts :
         /\ ConsumedOf(s, a)' = ConsumedOf(s, a)
         /\ TopupsOf(s, a)' = TopupsOf(s, a)
  BY <1>1 DEF ConsumedOf, TopupsOf
<1>3. PaidByApproval'
  BY <1>2 DEF PaidByApproval
<1>4. SuccessIsPaid'
  <2> SUFFICES ASSUME NEW s \in Runs, NEW j \in Keys
               PROVE  /\ call'[s]["topup"][j].ap = "consumed"
                            <=> call'[s]["topup"][j].st = "succeeded"
                      /\ call'[s]["topup"][j].st = "succeeded" =>
                            \E i \in Keys : /\ topup[i] # NoTopup
                                            /\ topup[i].arg = call'[s]["topup"][j].arg
    BY DEF SuccessIsPaid
  <2>1. CASE s = r /\ j = k
    BY <1>1, <2>1
  <2>2. CASE ~(s = r /\ j = k)
    BY <1>1, <2>2 DEF SuccessIsPaid
  <2> QED
    BY <2>1, <2>2
<1> QED
  BY <1>3, <1>4

(* A decision or the deadline rewrites a row whose approval is pending.    *)
LEMMA AnswerFacts ==
  ASSUME GatewayTypeOK, NEW r \in Runs, NEW k \in Keys,
         NEW ap \in {"approved", "rejected", "expired"},
         NEW st \in {"awaiting_approval", "rejected", "expired"},
         Pending(r, k), Answer(r, k, ap, st)
  PROVE  \E c \in CallRows :
            /\ c.ap = ap /\ c.st = st
            /\ call' = [call EXCEPT ![r]["topup"][k] = c]
<1> DEFINE b == call[r]["topup"][k]
           c == [[b EXCEPT !.ap = ap] EXCEPT !.st = st]
<1>1. b \in CallRows
  BY DEF GatewayTypeOK, Tools
<1>2. c \in CallRows /\ c.ap = ap /\ c.st = st
  BY <1>1 DEF CallRows, CallStatus, ApprovalStatus
<1>3. call' = [call EXCEPT ![r]["topup"][k] = c]
  BY DEF Answer
<1> HIDE DEF c
<1> QED
  BY <1>2, <1>3

(* What a call relies on is not touched by one that is not a commit.       *)
LEMMA OthersRely ==
  ASSUME GatewayTypeOK, CallsRely, NEW r \in Runs, NEW k \in Keys, NEW c \in CallRows,
         tx[r] = NoTx, tx' = tx, topup' = topup,
         call' = [call EXCEPT ![r]["topup"][k] = c],
         \A s \in Runs : s # r => run'[s] = run[s]
  PROVE  CallsRely'
<1> SUFFICES ASSUME NEW s \in Runs PROVE Relies(s)'
  BY DEF CallsRely
<1>1. CASE s = r
  BY <1>1 DEF Relies, NoTx
<1>2. CASE s # r
  <2>1. call'[s] = call[s]
    BY <1>2 DEF GatewayTypeOK
  <2> QED
    BY <1>2, <2>1 DEF CallsRely, Relies, Approves
<1> QED
  BY <1>1, <1>2

LEMMA RowTyped ==
  ASSUME GatewayTypeOK, NEW r \in Runs, NEW t \in Tools, NEW k \in Keys,
         NEW c \in CallRows, call' = [call EXCEPT ![r][t][k] = c]
  PROVE  call' \in [Runs -> [Tools -> [Keys -> CallRows]]]
BY DEF GatewayTypeOK

-----------------------------------------------------------------------------
(* The actions, one by one *)

LEMMA GatewayInitIInv == GatewayInit => GatewayIInv
<1> SUFFICES ASSUME GatewayInit PROVE GatewayIInv
  OBVIOUS
<1>1. GatewayTypeOK
  BY AmountsAssumption
     DEF GatewayInit, GatewayTypeOK, NoCall, CallRows, CallStatus, ApprovalStatus, None
<1>2. CallsRely
  BY DEF GatewayInit, CallsRely, Relies, NoTx
<1>3. PaidByApproval
  <2> SUFFICES ASSUME NEW r \in Runs, NEW a \in Amounts
               PROVE  Cardinality(TopupsOf(r, a)) <= Cardinality(ConsumedOf(r, a))
    BY DEF PaidByApproval
  <2>1. \A k \in Keys : topup[k] = NoTopup /\ call[r]["topup"][k] = NoCall
    BY DEF GatewayInit, Tools
  <2>2. TopupsOf(r, a) = {}
    BY <2>1, RowsDiffer DEF TopupsOf
  <2>3. ConsumedOf(r, a) = {}
    BY <2>1 DEF ConsumedOf, NoCall
  <2> QED
    BY <2>2, <2>3, FS_EmptySet
<1>4. SuccessIsPaid
  <2>1. \A r \in Runs, k \in Keys : call[r]["topup"][k] = NoCall
    BY DEF GatewayInit, Tools
  <2> QED
    BY <2>1 DEF SuccessIsPaid, NoCall
<1> QED
  BY <1>1, <1>2, <1>3, <1>4 DEF GatewayIInv

LEMMA PrepareKeeps ==
  ASSUME GatewayIInv, NEW r \in Runs, NEW k \in Keys, NEW a \in Amounts, Prepare(r, k, a)
  PROVE  GatewayIInv'
<1> DEFINE c == [st |-> "awaiting_approval", arg |-> a, ap |-> "pending"]
<1>1. /\ c \in CallRows /\ c.ap = "pending" /\ c.st = "awaiting_approval"
      /\ "topup" \in Tools
  BY DEF CallRows, CallStatus, ApprovalStatus, Tools
<1>2. /\ call' = [call EXCEPT ![r]["topup"][k] = c]
      /\ run' = [run EXCEPT ![r] = "awaiting_approval"]
      /\ topup' = topup /\ balance' = balance /\ tx' = tx /\ work' = work + 1
      /\ tx[r] = NoTx /\ call[r]["topup"][k].ap # "consumed"
  BY DEF Prepare, Open, Begins, NoCall
<1> HIDE DEF c
<1>3. GatewayTypeOK'
  <2>1. call' \in [Runs -> [Tools -> [Keys -> CallRows]]]
    BY <1>1, <1>2, RowTyped DEF GatewayIInv
  <2> QED
    BY <1>2, <2>1 DEF GatewayIInv, GatewayTypeOK
<1>4. CallsRely'
  BY <1>1, <1>2, OthersRely DEF GatewayIInv, GatewayTypeOK
<1>5. PaidByApproval' /\ SuccessIsPaid'
  BY <1>1, <1>2, UnpaidRow DEF GatewayIInv
<1> QED
  BY <1>3, <1>4, <1>5 DEF GatewayIInv

(* The actions that write only a transaction leave both counts alone.      *)
LEMMA SameRows ==
  ASSUME PaidByApproval, SuccessIsPaid, call' = call, topup' = topup
  PROVE  PaidByApproval' /\ SuccessIsPaid'
BY DEF PaidByApproval, SuccessIsPaid, TopupsOf, ConsumedOf

LEMMA StartKeeps ==
  ASSUME GatewayIInv, NEW r \in Runs, NEW t \in Tools, NEW k \in Keys,
         NEW a \in Amounts, NEW via \in Keys, Start(r, t, k, a, via)
  PROVE  GatewayIInv'
<1> DEFINE q == [t |-> t, k |-> k, a |-> a, via |-> via, seen |-> balance,
                 found |-> FALSE, looked |-> ~Guarded(t)]
<1>1. /\ q \in TxRows /\ q.t = t /\ q.a = a /\ q.via = via /\ ~q.found
  BY DEF GatewayIInv, GatewayTypeOK, TxRows, Guarded
<1>2. /\ tx' = [tx EXCEPT ![r] = q] /\ run' = run /\ call' = call
      /\ topup' = topup /\ balance' = balance /\ work' = work + 1
      /\ run[r] # "closed"
      /\ t = "topup" => Approves(call[r]["topup"][via], a)
  BY DEF Start, Open, Begins, Guarded
<1> HIDE DEF q
<1>3. GatewayTypeOK'
  BY <1>1, <1>2 DEF GatewayIInv, GatewayTypeOK
<1>4. CallsRely'
  <2> SUFFICES ASSUME NEW s \in Runs PROVE Relies(s)'
    BY DEF CallsRely
  <2>1. CASE s = r
    <3>1. tx'[s] = q
      BY <1>2, <2>1 DEF GatewayIInv, GatewayTypeOK
    <3> QED
      BY <1>1, <1>2, <2>1, <3>1 DEF Relies, Approves
  <2>2. CASE s # r
    <3>1. tx'[s] = tx[s]
      BY <1>2, <2>2 DEF GatewayIInv, GatewayTypeOK
    <3> QED
      BY <1>2, <3>1 DEF GatewayIInv, CallsRely, Relies, Approves
  <2> QED
    BY <2>1, <2>2
<1>5. PaidByApproval' /\ SuccessIsPaid'
  BY <1>2, SameRows DEF GatewayIInv
<1> QED
  BY <1>3, <1>4, <1>5 DEF GatewayIInv

(* A call ends without a trace: of a conflict, or rolled back.             *)
LEMMA EndedKeeps ==
  ASSUME GatewayIInv, NEW r \in Runs, tx' = [tx EXCEPT ![r] = NoTx],
         UNCHANGED <<run, call, topup, balance, work>>
  PROVE  GatewayIInv'
<1>1. GatewayTypeOK'
  BY DEF GatewayIInv, GatewayTypeOK
<1>2. CallsRely'
  <2> SUFFICES ASSUME NEW s \in Runs PROVE Relies(s)'
    BY DEF CallsRely
  <2>1. tx'[s] = IF s = r THEN NoTx ELSE tx[s]
    BY DEF GatewayIInv, GatewayTypeOK
  <2>2. CASE s = r
    BY <2>1, <2>2 DEF Relies, NoTx
  <2>3. CASE s # r
    BY <2>1, <2>3 DEF GatewayIInv, CallsRely, Relies, Approves
  <2> QED
    BY <2>2, <2>3
<1>3. PaidByApproval' /\ SuccessIsPaid'
  BY SameRows DEF GatewayIInv
<1> QED
  BY <1>1, <1>2, <1>3 DEF GatewayIInv

LEMMA LookKeeps ==
  ASSUME GatewayIInv, NEW r \in Runs, Look(r)
  PROVE  GatewayIInv'
<1> DEFINE q == tx[r]
           p == [[q EXCEPT !.looked = TRUE] EXCEPT !.found = topup[q.k] # NoTopup]
<1>1. q \in TxRows
  BY DEF Look, GatewayIInv, GatewayTypeOK
<1>2. CASE topup[q.k] # NoTopup /\ topup[q.k].arg # q.a
  BY <1>2, EndedKeeps DEF Look
<1>3. CASE ~(topup[q.k] # NoTopup /\ topup[q.k].arg # q.a)
  <2>1. /\ p \in TxRows /\ p.t = q.t /\ p.k = q.k /\ p.a = q.a /\ p.via = q.via
        /\ p.found => topup[q.k] # NoTopup /\ topup[q.k].arg = q.a
    BY <1>1, <1>3 DEF TxRows
  <2>2. /\ tx' = [tx EXCEPT ![r] = p]
        /\ UNCHANGED <<run, call, topup, balance, work>>
    BY <1>3 DEF Look
  <2> HIDE DEF p
  <2>3. GatewayTypeOK'
    BY <2>1, <2>2 DEF GatewayIInv, GatewayTypeOK
  <2>4. CallsRely'
    <3> SUFFICES ASSUME NEW s \in Runs PROVE Relies(s)'
      BY DEF CallsRely
    <3>1. tx'[s] = IF s = r THEN p ELSE tx[s]
      BY <2>2 DEF GatewayIInv, GatewayTypeOK
    <3>2. CASE s = r
      <4>1. Relies(r) /\ q # NoTx
        BY DEF GatewayIInv, CallsRely, Look
      <4> QED
        BY <2>1, <2>2, <3>1, <3>2, <4>1 DEF Relies, Approves
    <3>3. CASE s # r
      BY <2>2, <3>1, <3>3 DEF GatewayIInv, CallsRely, Relies, Approves
    <3> QED
      BY <3>2, <3>3
  <2>5. PaidByApproval' /\ SuccessIsPaid'
    BY <2>2, SameRows DEF GatewayIInv
  <2> QED
    BY <2>3, <2>4, <2>5 DEF GatewayIInv
<1> QED
  BY <1>2, <1>3

-----------------------------------------------------------------------------
(* The commit *)

(* What a commit writes, by the tool.                                      *)
LEMMA CommitWrites ==
  ASSUME GatewayIInv, NEW r \in Runs, Commit(r)
  PROVE  LET q == tx[r] IN
         /\ q \in TxRows
         /\ Recorded(q) \in CallRows
         /\ call' = [call EXCEPT ![r][q.t][q.via] = Recorded(q)]
         /\ Credits(q) => /\ topup[q.k] = NoTopup
                          /\ topup' = [topup EXCEPT ![q.k] = [run |-> r, arg |-> q.a]]
         /\ ~Credits(q) => topup' = topup
         /\ balance' \in Nat \cup {None}
<1> DEFINE q == tx[r]
<1>1. q \in TxRows
  BY DEF Commit, GatewayIInv, GatewayTypeOK
<1>2. Recorded(q) \in CallRows
  BY <1>1 DEF Recorded, CallRows, CallStatus, ApprovalStatus, TxRows
<1>3. balance' \in Nat \cup {None}
  <2>1. q.a \in Nat /\ Funds(q) \in Nat /\ Simulated \in Nat
    BY <1>1, AmountsAssumption DEF Funds, TxRows, None
  <2>2. balance' = Funds(q) + q.a \/ balance' = Simulated \/ balance' = balance
    BY DEF Commit
  <2> QED
    BY <2>1, <2>2 DEF GatewayIInv, GatewayTypeOK
<1>4. Credits(q) => topup[q.k] = NoTopup
  BY DEF Credits, Commit, Collides
<1> QED
  BY <1>1, <1>2, <1>3, <1>4 DEF Commit

(* A top-up is stored exactly with the consumption of one more approval.   *)
LEMMA CommitPays ==
  ASSUME GatewayIInv, NEW r \in Runs, Commit(r)
  PROVE  PaidByApproval'
<1> DEFINE q == tx[r]
<1>1. /\ q \in TxRows
      /\ call' = [call EXCEPT ![r][q.t][q.via] = Recorded(q)]
      /\ Credits(q) => /\ topup[q.k] = NoTopup
                       /\ topup' = [topup EXCEPT ![q.k] = [run |-> r, arg |-> q.a]]
      /\ ~Credits(q) => topup' = topup
  BY CommitWrites
<1>2. q.t \in Tools /\ q.k \in Keys /\ q.via \in Keys /\ q.a \in Amounts
  BY <1>1 DEF TxRows
<1>3. \A s \in Runs, j \in Keys :
         call'[s]["topup"][j] = IF s = r /\ q.t = "topup" /\ j = q.via
                                THEN Recorded(q) ELSE call[s]["topup"][j]
  BY <1>1, <1>2 DEF GatewayIInv, GatewayTypeOK, Tools
<1>4. q.t = "topup" => Approves(call[r]["topup"][q.via], q.a)
  BY DEF GatewayIInv, CallsRely, Relies
<1> SUFFICES ASSUME NEW s \in Runs, NEW a \in Amounts
             PROVE  Cardinality(TopupsOf(s, a)') <= Cardinality(ConsumedOf(s, a)')
  BY DEF PaidByApproval
<1>5. /\ IsFiniteSet(TopupsOf(s, a)) /\ IsFiniteSet(ConsumedOf(s, a))
      /\ Cardinality(TopupsOf(s, a)) <= Cardinality(ConsumedOf(s, a))
  BY FS_Subset, AmountsAssumption DEF TopupsOf, ConsumedOf, GatewayIInv, PaidByApproval
<1>6. CASE q.t = "topup" /\ s = r /\ a = q.a
  <2>1. /\ Recorded(q).ap = "consumed" /\ Recorded(q).arg = q.a
        /\ call[r]["topup"][q.via].ap = "approved"
    BY <1>4, <1>6 DEF Recorded, Guarded, Approves
  <2>2. /\ ConsumedOf(s, a)' = ConsumedOf(s, a) \cup {q.via}
        /\ q.via \notin ConsumedOf(s, a)
    BY <1>2, <1>3, <1>6, <2>1 DEF ConsumedOf
  <2>3. \/ TopupsOf(s, a)' = TopupsOf(s, a)
        \/ TopupsOf(s, a)' = TopupsOf(s, a) \cup {q.k}
    <3>1. CASE Credits(q)
      BY <1>1, <1>2, <1>6, <3>1 DEF TopupsOf, GatewayIInv, GatewayTypeOK
    <3>2. CASE ~Credits(q)
      BY <1>1, <3>2 DEF TopupsOf
    <3> QED
      BY <3>1, <3>2
  <2>4. Cardinality(ConsumedOf(s, a)') = Cardinality(ConsumedOf(s, a)) + 1
    BY <1>5, <2>2, FS_AddElement
  <2>5. Cardinality(TopupsOf(s, a)) \in Nat /\ Cardinality(ConsumedOf(s, a)) \in Nat
    BY <1>5, FS_CardinalityType
  <2>6. \/ Cardinality(TopupsOf(s, a)') = Cardinality(TopupsOf(s, a))
        \/ Cardinality(TopupsOf(s, a)') = Cardinality(TopupsOf(s, a)) + 1
    BY <1>5, <2>3, FS_AddElement
  <2> QED
    BY <1>5, <2>4, <2>5, <2>6
<1>7. CASE ~(q.t = "topup" /\ s = r /\ a = q.a)
  <2>1. ConsumedOf(s, a)' = ConsumedOf(s, a)
    <3>1. CASE q.t = "topup" /\ s = r
      <4>1. a # q.a /\ Recorded(q).arg = q.a /\ call[r]["topup"][q.via].arg = q.a
        BY <1>4, <1>7, <3>1 DEF Recorded, Approves
      <4> QED
        BY <1>3, <4>1, <3>1 DEF ConsumedOf
    <3>2. CASE ~(q.t = "topup" /\ s = r)
      BY <1>3, <3>2 DEF ConsumedOf
    <3> QED
      BY <3>1, <3>2
  <2>2. TopupsOf(s, a)' = TopupsOf(s, a)
    <3>1. CASE Credits(q)
      <4>1. \A j \in Keys : topup'[j] = IF j = q.k THEN [run |-> r, arg |-> q.a]
                                        ELSE topup[j]
        BY <1>1, <1>2, <3>1 DEF GatewayIInv, GatewayTypeOK
      <4>2. [run |-> r, arg |-> q.a] # [run |-> s, arg |-> a]
        BY <1>7, <3>1 DEF Credits, Guarded
      <4>3. NoTopup # [run |-> s, arg |-> a]
        BY RowsDiffer
      <4> QED
        BY <1>1, <3>1, <4>1, <4>2, <4>3 DEF TopupsOf
    <3>2. CASE ~Credits(q)
      BY <1>1, <3>2 DEF TopupsOf
    <3> QED
      BY <3>1, <3>2
  <2> QED
    BY <1>5, <2>1, <2>2
<1> QED
  BY <1>6, <1>7

(* The approval consumed has its top-up: stored now, or found before.      *)
LEMMA CommitSucceeds ==
  ASSUME GatewayIInv, NEW r \in Runs, Commit(r)
  PROVE  SuccessIsPaid'
<1> DEFINE q == tx[r]
<1>1. /\ q \in TxRows
      /\ call' = [call EXCEPT ![r][q.t][q.via] = Recorded(q)]
      /\ Credits(q) => /\ topup[q.k] = NoTopup
                       /\ topup' = [topup EXCEPT ![q.k] = [run |-> r, arg |-> q.a]]
      /\ ~Credits(q) => topup' = topup
  BY CommitWrites
<1>2. q.t \in Tools /\ q.k \in Keys /\ q.via \in Keys /\ q.a \in Amounts
  BY <1>1 DEF TxRows
<1>3. \A s \in Runs, j \in Keys :
         call'[s]["topup"][j] = IF s = r /\ q.t = "topup" /\ j = q.via
                                THEN Recorded(q) ELSE call[s]["topup"][j]
  BY <1>1, <1>2 DEF GatewayIInv, GatewayTypeOK, Tools
<1>4. \A j \in Keys : topup[j] # NoTopup => topup'[j] = topup[j]
  BY <1>1, <1>2 DEF GatewayIInv, GatewayTypeOK
<1>5. q.t = "topup" => topup'[q.k] # NoTopup /\ topup'[q.k].arg = q.a
  <2>1. CASE Credits(q)
    <3>1. topup'[q.k] = [run |-> r, arg |-> q.a]
      BY <1>1, <1>2, <2>1 DEF GatewayIInv, GatewayTypeOK
    <3> QED
      BY <1>2, <3>1, RowsDiffer
  <2>2. CASE ~Credits(q)
    BY <1>1, <2>2 DEF Credits, Guarded, GatewayIInv, CallsRely, Relies
  <2> QED
    BY <2>1, <2>2
<1> SUFFICES ASSUME NEW s \in Runs, NEW j \in Keys
             PROVE  /\ call'[s]["topup"][j].ap = "consumed"
                          <=> call'[s]["topup"][j].st = "succeeded"
                    /\ call'[s]["topup"][j].st = "succeeded" =>
                          \E i \in Keys : /\ topup'[i] # NoTopup
                                          /\ topup'[i].arg = call'[s]["topup"][j].arg
  BY DEF SuccessIsPaid
<1>6. CASE s = r /\ q.t = "topup" /\ j = q.via
  <2>1. call'[s]["topup"][j] = [st |-> "succeeded", arg |-> q.a, ap |-> "consumed"]
    BY <1>3, <1>6 DEF Recorded, Guarded
  <2> QED
    BY <1>2, <1>5, <1>6, <2>1
<1>7. CASE ~(s = r /\ q.t = "topup" /\ j = q.via)
  BY <1>3, <1>4, <1>7 DEF GatewayIInv, SuccessIsPaid
<1> QED
  BY <1>6, <1>7

(* Two calls of a run do not overlap, so nobody else relied on the         *)
(* approval; and no top-up is taken away.                                  *)
LEMMA CommitLeaves ==
  ASSUME GatewayIInv, NEW r \in Runs, Commit(r)
  PROVE  CallsRely'
<1> DEFINE q == tx[r]
<1>1. /\ q \in TxRows
      /\ call' = [call EXCEPT ![r][q.t][q.via] = Recorded(q)]
      /\ Credits(q) => /\ topup[q.k] = NoTopup
                       /\ topup' = [topup EXCEPT ![q.k] = [run |-> r, arg |-> q.a]]
      /\ ~Credits(q) => topup' = topup
  BY CommitWrites
<1>2. \A j \in Keys : topup[j] # NoTopup => topup'[j] = topup[j]
  BY <1>1 DEF GatewayIInv, GatewayTypeOK, TxRows
<1> SUFFICES ASSUME NEW s \in Runs PROVE Relies(s)'
  BY DEF CallsRely
<1>3. tx'[s] = (IF s = r THEN NoTx ELSE tx[s]) /\ run' = run
  BY DEF Commit, GatewayIInv, GatewayTypeOK
<1>4. CASE s = r
  BY <1>3, <1>4 DEF Relies, NoTx
<1>5. CASE s # r
  <2>1. call'[s] = call[s] /\ tx'[s] = tx[s]
    BY <1>1, <1>3, <1>5 DEF GatewayIInv, GatewayTypeOK
  <2>2. Relies(s)
    BY DEF GatewayIInv, CallsRely
  <2>3. tx[s].t = "topup" => tx[s].k \in Keys
    BY DEF GatewayIInv, GatewayTypeOK, TxRows, NoTx
  <2> QED
    BY <1>2, <1>3, <2>1, <2>2, <2>3 DEF Relies, Approves
<1> QED
  BY <1>4, <1>5

LEMMA CommitTyped ==
  ASSUME GatewayIInv, NEW r \in Runs, Commit(r)
  PROVE  GatewayTypeOK'
<1> DEFINE q == tx[r]
<1>1. /\ q \in TxRows /\ Recorded(q) \in CallRows
      /\ call' = [call EXCEPT ![r][q.t][q.via] = Recorded(q)]
      /\ Credits(q) => topup' = [topup EXCEPT ![q.k] = [run |-> r, arg |-> q.a]]
      /\ ~Credits(q) => topup' = topup
      /\ balance' \in Nat \cup {None}
  BY CommitWrites
<1>2. q.t \in Tools /\ q.via \in Keys /\ q.k \in Keys /\ q.a \in Amounts
  BY <1>1 DEF TxRows
<1>3. call' \in [Runs -> [Tools -> [Keys -> CallRows]]]
  BY <1>1, <1>2, RowTyped DEF GatewayIInv
<1>4. topup' \in [Keys -> [run : Runs, arg : Amounts] \cup {NoTopup}]
  <2>1. [run |-> r, arg |-> q.a] \in [run : Runs, arg : Amounts]
    BY <1>2
  <2> QED
    BY <1>1, <1>2, <2>1 DEF GatewayIInv, GatewayTypeOK
<1>5. tx' = [tx EXCEPT ![r] = NoTx] /\ run' = run /\ work' = work
  BY DEF Commit
<1> QED
  BY <1>1, <1>3, <1>4, <1>5 DEF GatewayIInv, GatewayTypeOK

-----------------------------------------------------------------------------
(* Decisions, deadlines and the runtime *)

LEMMA AnswerKeeps ==
  ASSUME GatewayIInv, NEW r \in Runs, NEW k \in Keys,
         NEW ap \in {"approved", "rejected", "expired"},
         NEW st \in {"awaiting_approval", "rejected", "expired"},
         Pending(r, k), Answer(r, k, ap, st),
         run' \in [Runs -> {"running", "awaiting_approval", "closed"}],
         \A s \in Runs : s # r => run'[s] = run[s],
         UNCHANGED <<topup, balance, tx, work>>
  PROVE  GatewayIInv'
<1>1. PICK c \in CallRows : /\ c.ap = ap /\ c.st = st
                            /\ call' = [call EXCEPT ![r]["topup"][k] = c]
  BY AnswerFacts DEF GatewayIInv
<1>2. /\ "topup" \in Tools /\ tx[r] = NoTx
      /\ call[r]["topup"][k].ap # "consumed"
  BY DEF Tools, Pending
<1>3. GatewayTypeOK'
  <2>1. call' \in [Runs -> [Tools -> [Keys -> CallRows]]]
    BY <1>1, <1>2, RowTyped DEF GatewayIInv
  <2> QED
    BY <2>1 DEF GatewayIInv, GatewayTypeOK
<1>4. CallsRely'
  BY <1>1, <1>2, OthersRely DEF GatewayIInv
<1>5. PaidByApproval' /\ SuccessIsPaid'
  BY <1>1, <1>2, UnpaidRow DEF GatewayIInv
<1> QED
  BY <1>3, <1>4, <1>5 DEF GatewayIInv

(* The runtime moves a run only while no call of it is under way.          *)
LEMMA RunMovesKeep ==
  ASSUME GatewayIInv, NEW r \in Runs, tx[r] = NoTx,
         NEW s \in {"running", "awaiting_approval", "closed"},
         run' = [run EXCEPT ![r] = s],
         UNCHANGED <<call, topup, balance, tx, work>>
  PROVE  GatewayIInv'
<1>1. GatewayTypeOK'
  BY DEF GatewayIInv, GatewayTypeOK
<1>2. CallsRely'
  <2> SUFFICES ASSUME NEW o \in Runs PROVE Relies(o)'
    BY DEF CallsRely
  <2>1. CASE o = r
    BY <2>1 DEF Relies, NoTx
  <2>2. CASE o # r
    BY <2>2 DEF GatewayIInv, GatewayTypeOK, CallsRely, Relies, Approves
  <2> QED
    BY <2>1, <2>2
<1>3. PaidByApproval' /\ SuccessIsPaid'
  BY SameRows DEF GatewayIInv
<1> QED
  BY <1>1, <1>2, <1>3 DEF GatewayIInv

LEMMA DecisionsKeep ==
  ASSUME GatewayIInv, NEW r \in Runs, NEW k \in Keys,
         Approve(r, k) \/ Reject(r, k) \/ Expire(r, k)
  PROVE  GatewayIInv'
<1>1. run \in [Runs -> {"running", "awaiting_approval", "closed"}]
  BY DEF GatewayIInv, GatewayTypeOK
<1>2. CASE Approve(r, k)
  BY <1>1, <1>2, AnswerKeeps DEF Approve
<1>3. CASE Reject(r, k)
  <2>1. /\ run' \in [Runs -> {"running", "awaiting_approval", "closed"}]
        /\ \A s \in Runs : s # r => run'[s] = run[s]
    BY <1>1, <1>3 DEF Reject
  <2> QED
    BY <1>3, <2>1, AnswerKeeps DEF Reject
<1>4. CASE Expire(r, k)
  <2>1. /\ run' \in [Runs -> {"running", "awaiting_approval", "closed"}]
        /\ \A s \in Runs : s # r => run'[s] = run[s]
    BY <1>1, <1>4 DEF Expire
  <2> QED
    BY <1>4, <2>1, AnswerKeeps DEF Expire
<1> QED
  BY <1>2, <1>3, <1>4

LEMMA GatewayNextIInv == GatewayIInv /\ [GatewayNext]_gatewayVars => GatewayIInv'
<1> SUFFICES ASSUME GatewayIInv, [GatewayNext]_gatewayVars PROVE GatewayIInv'
  OBVIOUS
<1>1. CASE GatewayNext
  <2> PICK r \in Runs :
        \/ \E k \in Keys, a \in Amounts : Prepare(r, k, a)
        \/ \E t \in Tools, k \in Keys, a \in Amounts, via \in Keys :
               Start(r, t, k, a, via)
        \/ Look(r) \/ Commit(r) \/ Rollback(r)
        \/ \E k \in Keys : Approve(r, k) \/ Reject(r, k) \/ Expire(r, k)
        \/ Resume(r) \/ Close(r)
    BY <1>1 DEF GatewayNext
  <2>1. CASE \E k \in Keys, a \in Amounts : Prepare(r, k, a)
    BY <2>1, PrepareKeeps
  <2>2. CASE \E t \in Tools, k \in Keys, a \in Amounts, via \in Keys :
               Start(r, t, k, a, via)
    BY <2>2, StartKeeps
  <2>3. CASE Look(r)
    BY <2>3, LookKeeps
  <2>4. CASE Commit(r)
    BY <2>4, CommitTyped, CommitLeaves, CommitPays, CommitSucceeds DEF GatewayIInv
  <2>5. CASE Rollback(r)
    BY <2>5, EndedKeeps DEF Rollback
  <2>6. CASE \E k \in Keys : Approve(r, k) \/ Reject(r, k) \/ Expire(r, k)
    BY <2>6, DecisionsKeep
  <2>7. CASE Resume(r)
    BY <2>7, RunMovesKeep DEF Resume, Open
  <2>8. CASE Close(r)
    BY <2>8, RunMovesKeep DEF Close, Open
  <2> QED
    BY <2>1, <2>2, <2>3, <2>4, <2>5, <2>6, <2>7, <2>8
<1>2. CASE UNCHANGED gatewayVars
  BY <1>2 DEF gatewayVars, GatewayIInv, GatewayTypeOK, CallsRely, Relies, Approves, PaidByApproval,
              SuccessIsPaid, TopupsOf, ConsumedOf
<1> QED
  BY <1>1, <1>2

-----------------------------------------------------------------------------
(* The theorems *)

LEMMA GatewayInvariance == GatewaySpec => []GatewayIInv
BY GatewayInitIInv, GatewayNextIInv, PTL DEF GatewaySpec

(* Calls, approvals, top-ups and transactions hold what their columns and  *)
(* constraints admit.                                                      *)
THEOREM GatewayTypeCorrect == GatewaySpec => []GatewayTypeOK
<1>1. GatewayIInv => GatewayTypeOK
  BY DEF GatewayIInv
<1> QED
  BY <1>1, GatewayInvariance, PTL

(* Every top-up is paid for by an approval of its own.                     *)
THEOREM TopupsArePaid == GatewaySpec => []PaidByApproval
<1>1. GatewayIInv => PaidByApproval
  BY DEF GatewayIInv
<1> QED
  BY <1>1, GatewayInvariance, PTL

(* An approval is consumed exactly when its call succeeded, and its top-up *)
(* is stored.                                                              *)
THEOREM ApprovalsHaveEffect == GatewaySpec => []SuccessIsPaid
<1>1. GatewayIInv => SuccessIsPaid
  BY DEF GatewayIInv
<1> QED
  BY <1>1, GatewayInvariance, PTL

Quiet(r) == run[r] = "closed" =>
    \A k \in Keys :
        /\ call'[r]["topup"][k].st = "succeeded" => call[r]["topup"][k].st = "succeeded"
        /\ topup'[k] # topup[k] => topup'[k].run # r

LEMMA StepQuiet ==
  ASSUME GatewayIInv, GatewayNext, NEW s \in Runs
  PROVE  Quiet(s)
<1> SUFFICES ASSUME run[s] = "closed", NEW j \in Keys
             PROVE  /\ call'[s]["topup"][j].st = "succeeded" =>
                           call[s]["topup"][j].st = "succeeded"
                    /\ topup'[j] # topup[j] => topup'[j].run # s
  BY DEF Quiet
<1>1. "topup" \in Tools
  BY DEF Tools
<1> PICK r \in Runs :
        \/ \E k \in Keys, a \in Amounts : Prepare(r, k, a)
        \/ \E t \in Tools, k \in Keys, a \in Amounts, via \in Keys :
               Start(r, t, k, a, via)
        \/ Look(r) \/ Commit(r) \/ Rollback(r)
        \/ \E k \in Keys : Approve(r, k) \/ Reject(r, k) \/ Expire(r, k)
        \/ Resume(r) \/ Close(r)
  BY DEF GatewayNext
<1>2. CASE \E k \in Keys, a \in Amounts : Prepare(r, k, a)
  <2>1. PICK k \in Keys, a \in Amounts : Prepare(r, k, a)
    BY <1>2
  <2>2. r # s /\ topup' = topup
    BY <2>1 DEF Prepare, Open
  <2>3. call'[s] = call[s]
    BY <2>1, <2>2 DEF Prepare, GatewayIInv, GatewayTypeOK
  <2> QED
    BY <2>2, <2>3
<1>3. CASE \/ \E t \in Tools, k \in Keys, a \in Amounts, via \in Keys :
                  Start(r, t, k, a, via)
           \/ Look(r) \/ Rollback(r) \/ Resume(r) \/ Close(r)
  BY <1>3 DEF Start, Look, Rollback, Resume, Close
<1>4. CASE Commit(r)
  <2>1. r # s
    BY <1>4 DEF Commit, GatewayIInv, CallsRely, Relies
  <2>2. call'[s] = call[s]
    BY <1>4, <2>1 DEF Commit, GatewayIInv, GatewayTypeOK
  <2>3. topup'[j] = topup[j] \/ topup'[j] = [run |-> r, arg |-> tx[r].a]
    BY <1>4 DEF Commit, GatewayIInv, GatewayTypeOK
  <2> QED
    BY <2>1, <2>2, <2>3
<1>5. CASE \E k \in Keys : Approve(r, k) \/ Reject(r, k) \/ Expire(r, k)
  <2>1. PICK k \in Keys : Approve(r, k) \/ Reject(r, k) \/ Expire(r, k)
    BY <1>5
  <2>2. PICK ap \in {"approved", "rejected", "expired"},
             st \in {"awaiting_approval", "rejected", "expired"} :
             Pending(r, k) /\ Answer(r, k, ap, st) /\ topup' = topup
    BY <2>1 DEF Approve, Reject, Expire
  <2>3. PICK c \in CallRows : /\ c.st = st
                              /\ call' = [call EXCEPT ![r]["topup"][k] = c]
    BY <2>2, AnswerFacts DEF GatewayIInv
  <2>4. call'[s]["topup"][j] = IF s = r /\ j = k THEN c ELSE call[s]["topup"][j]
    BY <1>1, <2>3 DEF GatewayIInv, GatewayTypeOK
  <2>5. c.st # "succeeded"
    BY <2>2, <2>3
  <2> QED
    BY <2>2, <2>4, <2>5
<1> QED
  BY <1>2, <1>3, <1>4, <1>5

(* Nothing of a closed run succeeds any more, and no top-up of it is       *)
(* stored.                                                                 *)
THEOREM ClosedIsQuiet == GatewaySpec => ClosedRunIsQuiet
<1>1. GatewayIInv /\ [GatewayNext]_gatewayVars => [\A r \in Runs : Quiet(r)]_gatewayVars
  BY StepQuiet
<1> QED
  BY <1>1, GatewayInvariance, PTL DEF GatewaySpec, ClosedRunIsQuiet, Quiet

=============================================================================
