------------------------------ MODULE RunStream ------------------------------
(***************************************************************************)
(* Following a run: the event log of one run, the generator that serves it *)
(* as an SSE stream, the connection, and the run detail page of the web    *)
(* client, which replays the log into its timeline, reconnects once after  *)
(* a loss and reloads the detail of the run at its end.                    *)
(*                                                                         *)
(* The log is the one AgentRuntime writes: its last event, and no other,   *)
(* is terminal once the run is closed (ClosedByOneEvent there).            *)
(***************************************************************************)
EXTENDS Integers, Sequences, FiniteSets

CONSTANTS
    MaxLog,     \* bound: events a run writes
    MaxPauses,  \* bound: times a run asks its user for input
    MaxReloads, \* bound: loads the user causes (cancel, decide, retry)
    MaxFaults   \* bound: lost connections, failing requests and queries

ASSUME StreamAssumption ==
    /\ MaxLog \in Nat \ {0}
    /\ {MaxPauses, MaxReloads, MaxFaults} \subseteq Nat

Terminal == {"done", "error"}
Kinds == Terminal \cup {"agent_step", "approval_required", "input_required"}

(* iterate() returns, and streamAgentRun with it, after one of these.      *)
ClosesStream == Terminal \cup {"input_required"}

(* A frame on the wire; `real` is FALSE for the error frame the generator  *)
(* makes up when its query fails.                                          *)
Frames == [seq : Nat \ {0}, kind : Kinds, real : BOOLEAN]

(* A request for the detail of the run: `saw` is how much of the log was   *)
(* written when the server answered it (Unserved before), `id` its order.  *)
Unserved == -1
Loads == [id : Nat, saw : {Unserved} \cup 0 .. MaxLog]

VARIABLES
    log,      \* kinds of the committed events; position = sequence
    server,   \* the generator: is it running, and its cursor
    wire,     \* frames sent and not read yet
    phase,    \* of the page: see Phases
    last,     \* lastSequence of useAgentRunStream, and of the reader
    retried,  \* reconnectAttempted
    shown,    \* the timeline: events.value
    loads,    \* detail requests on their way
    detail,   \* what the detail shown on the page had seen of the log
    broken,   \* the page shows "detail could not be loaded"
    issued,   \* number of detail requests so far
    reloads,  \* how many of them the user caused
    faults    \* faults so far

Phases == {"absent", "mounting", "connecting", "reading", "settled",
           "failed", "down"}

runVars == <<log>>
linkVars == <<server, wire>>
streamVars == <<last, retried, shown>>
detailVars == <<loads, detail, broken, issued, reloads>>
runStreamVars == <<runVars, linkVars, phase, streamVars, detailVars, faults>>

Ended == log # <<>> /\ log[Len(log)] \in Terminal
Pauses == Cardinality({i \in DOMAIN log : log[i] = "input_required"})

StreamInit ==
    /\ log = <<>>
    /\ server = [on |-> FALSE, cursor |-> 0]
    /\ wire = <<>>
    /\ phase = "absent"
    /\ last = 0
    /\ retried = FALSE
    /\ shown = <<>>
    /\ loads = {}
    /\ detail = 0
    /\ broken = FALSE
    /\ issued = 0
    /\ reloads = 0
    /\ faults = 0

Fault == faults < MaxFaults /\ faults' = faults + 1

-----------------------------------------------------------------------------
(* The run *)

(* An event is committed together with the state of the run it announces.  *)
(* append() numbers it under the lock of the run, so what a reader finds   *)
(* committed has no gaps.                                                  *)
WriteEvent(kind) ==
    /\ ~Ended
    /\ kind \in Terminal \/ Len(log) < MaxLog - 1
    /\ kind = "input_required" => Pauses < MaxPauses
    /\ log' = Append(log, kind)
    /\ UNCHANGED <<linkVars, phase, streamVars, detailVars, faults>>

-----------------------------------------------------------------------------
(* The server side of the stream *)

(* iterate() yields the next event after its cursor; a batch of the query  *)
(* is sent one by one.                                                     *)
Send ==
    /\ server.on
    /\ server.cursor < Len(log)
    /\ LET n == server.cursor + 1 IN
        /\ wire' = Append(wire, [seq |-> n, kind |-> log[n], real |-> TRUE])
        /\ server' = [on |-> log[n] \notin ClosesStream, cursor |-> n]
    /\ UNCHANGED <<runVars, phase, streamVars, detailVars, faults>>

(* The query of iterate() fails: it sends an error frame of its own and    *)
(* ends the stream.                                                        *)
QueryFails ==
    /\ server.on
    /\ Fault
    /\ wire' = Append(wire, [seq |-> server.cursor + 1, kind |-> "error",
                             real |-> FALSE])
    /\ server' = [server EXCEPT !.on = FALSE]
    /\ UNCHANGED <<runVars, phase, streamVars, detailVars>>

(* The connection is lost, with a part of what was on its way.             *)
Lose ==
    /\ phase = "reading"
    /\ Fault
    /\ \E n \in 0 .. Len(wire) : wire' = SubSeq(wire, 1, n)
    /\ server' = [server EXCEPT !.on = FALSE]
    /\ UNCHANGED <<runVars, phase, streamVars, detailVars>>

-----------------------------------------------------------------------------
(* The detail of the run *)

(* load(): a request leaves.  Nothing orders its answer with others'.      *)
Load ==
    /\ loads' = loads \cup {[id |-> issued, saw |-> Unserved]}
    /\ issued' = issued + 1
    /\ broken' = FALSE

ServeLoad(l) ==
    /\ l.saw = Unserved
    /\ loads' = (loads \ {l}) \cup {[l EXCEPT !.saw = Len(log)]}
    /\ UNCHANGED <<runVars, linkVars, phase, streamVars, detail, broken,
                   issued, reloads, faults>>

(* The first answer lets the page start the stream.                        *)
Loaded(l) ==
    /\ l.saw # Unserved
    /\ loads' = loads \ {l}
    /\ detail' = l.saw
    /\ phase' = IF phase = "mounting" THEN "connecting" ELSE phase
    /\ UNCHANGED <<runVars, linkVars, streamVars, broken, issued, reloads,
                   faults>>

(* Without a detail the page never starts it, whatever a retry brings.     *)
LoadFails(l) ==
    /\ Fault
    /\ loads' = loads \ {l}
    /\ broken' = TRUE
    /\ phase' = IF phase = "mounting" THEN "down" ELSE phase
    /\ UNCHANGED <<runVars, linkVars, streamVars, detail, issued, reloads>>

Mount ==
    /\ phase = "absent"
    /\ phase' = "mounting"
    /\ Load
    /\ UNCHANGED <<runVars, linkVars, streamVars, detail, reloads, faults>>

(* The user cancels the run, decides an approval or retries a failed load. *)
Reload ==
    /\ phase \notin {"absent", "mounting"}
    /\ reloads < MaxReloads
    /\ reloads' = reloads + 1
    /\ Load
    /\ UNCHANGED <<runVars, linkVars, phase, streamVars, detail, faults>>

-----------------------------------------------------------------------------
(* The stream on the page *)

(* Mutants: a reconnected reader starts over; a page starts after what its *)
(* detail has seen.                                                        *)
ConnectFromStart ==
    /\ phase = "connecting"
    /\ phase' = "reading"
    /\ server' = [on |-> TRUE, cursor |-> 0]
    /\ last' = 0
    /\ wire' = <<>>
    /\ UNCHANGED <<runVars, retried, shown, detailVars, faults>>

ConnectAfterDetail ==
    /\ phase = "connecting"
    /\ phase' = "reading"
    /\ server' = [on |-> TRUE, cursor |-> detail]
    /\ wire' = <<>>
    /\ UNCHANGED <<runVars, streamVars, detailVars, faults>>

(* GET .../stream with the last sequence as Last-Event-ID; prepare()       *)
(* refuses a cursor past the log.                                          *)
Connect ==
    /\ phase = "connecting"
    /\ last <= Len(log)
    /\ phase' = "reading"
    /\ server' = [on |-> TRUE, cursor |-> last]
    /\ wire' = <<>>
    /\ UNCHANGED <<runVars, streamVars, detailVars, faults>>

(* Mutant: a loss is final.                                                *)
ThrownForGood ==
    /\ phase' = "failed"
    /\ UNCHANGED <<runVars, streamVars, detailVars>>

(* consume() throws: start() reconnects once, if it has seen an event.     *)
Thrown ==
    /\ IF ~retried /\ last > 0
       THEN retried' = TRUE /\ phase' = "connecting"
       ELSE retried' = retried /\ phase' = "failed"
    /\ UNCHANGED <<runVars, last, shown, detailVars>>

ConnectFails ==
    /\ phase = "connecting"
    /\ last <= Len(log) => Fault
    /\ last > Len(log) => UNCHANGED faults
    /\ Thrown
    /\ UNCHANGED linkVars

(* A silent end of the stream counts as a loss.                            *)
EndOfStream ==
    /\ phase = "reading"
    /\ wire = <<>>
    /\ ~server.on
    /\ Thrown
    /\ UNCHANGED <<linkVars, faults>>

StopsReader(f) == f.kind \in ClosesStream

(* A frame whose sequence was seen is skipped; a closing one settles the   *)
(* page and reloads its detail.  approval_required reloads it too, unless  *)
(* the next frame reaches the timeline before the watcher looks at it.     *)
Read ==
    /\ phase = "reading"
    /\ wire # <<>>
    /\ LET f == Head(wire) IN
        \/ /\ f.seq <= last
           /\ UNCHANGED <<phase, last, shown, detailVars>>
        \/ /\ f.seq > last
           /\ last' = f.seq
           /\ shown' = Append(shown, f)
           /\ phase' = IF StopsReader(f) THEN "settled" ELSE phase
           /\ \/ /\ StopsReader(f) \/ f.kind = "approval_required"
                 /\ Load
              \/ /\ ~StopsReader(f)
                 /\ f.kind = "approval_required" => Len(wire) > 1
                 /\ UNCHANGED <<loads, issued, broken>>
           /\ UNCHANGED <<detail, reloads>>
    /\ wire' = Tail(wire)
    /\ UNCHANGED <<runVars, server, retried, faults>>

-----------------------------------------------------------------------------
StreamNext ==
    \/ \E kind \in Kinds : WriteEvent(kind)
    \/ Send
    \/ QueryFails
    \/ Lose
    \/ Mount
    \/ Reload
    \/ \E l \in loads : ServeLoad(l) \/ Loaded(l) \/ LoadFails(l)
    \/ Connect
    \/ ConnectFails
    \/ EndOfStream
    \/ Read

StreamSpec == StreamInit /\ [][StreamNext]_runStreamVars

(* The run reaches its end (AgentRuntime, and a user who answers), the     *)
(* server serves what it is asked for and the browser's loop reads on.     *)
Fairness ==
    /\ WF_runStreamVars(\E kind \in Terminal : WriteEvent(kind))
    /\ WF_runStreamVars(Send)
    /\ WF_runStreamVars(\E l \in loads : ServeLoad(l))
    /\ WF_runStreamVars(\E l \in loads : Loaded(l))
    /\ WF_runStreamVars(Connect \/ ConnectFails)
    /\ WF_runStreamVars(EndOfStream)
    /\ WF_runStreamVars(Read)

LiveSpec == StreamSpec /\ Fairness

-----------------------------------------------------------------------------
(* Safety *)

(* Every event, frame and detail request is one the code could make.       *)
StreamTypeOK ==
    /\ log \in Seq(Kinds) /\ Len(log) <= MaxLog
    /\ server \in [on : BOOLEAN, cursor : 0 .. MaxLog]
    /\ wire \in Seq(Frames)
    /\ phase \in Phases
    /\ last \in 0 .. MaxLog + 1
    /\ retried \in BOOLEAN
    /\ shown \in Seq(Frames)
    /\ loads \in SUBSET Loads
    /\ detail \in 0 .. MaxLog
    /\ broken \in BOOLEAN
    /\ issued \in Nat
    /\ reloads \in 0 .. MaxReloads
    /\ faults \in 0 .. MaxFaults

(* The timeline is the log: over a lost connection and a reconnect, no     *)
(* event is missing, doubled or out of order.  Only a made-up error may    *)
(* end it in place of the event it was numbered after.                     *)
TimelineIsLog == \A i \in DOMAIN shown :
    /\ shown[i].seq = i
    /\ IF shown[i].real
       THEN i <= Len(log) /\ shown[i].kind = log[i]
       ELSE i = Len(shown) /\ phase = "settled"

(* A single loss does not stop a page that has seen an event.              *)
OneLossIsSurvived == phase = "failed" => faults > 1 \/ shown = <<>>

(* Liveness, under Fairness: without a fault the timeline of a page that   *)
(* streams reaches the terminal event of the run.  A run that paused for   *)
(* input is left out: a replay ends at its old pause.                      *)
TimelineReachesEnd ==
    [](phase = "reading" =>
        <>(\/ faults > 0
           \/ Pauses > 0
           \/ Ended /\ Len(shown) = Len(log)))
=============================================================================
