----------------------------- MODULE CampusEvents -----------------------------
(***************************************************************************)
(* A campus event: its organizer edits and cancels it, users take and give *)
(* back its seats, others report it and moderators decide its cases.       *)
(*                                                                         *)
(* Every operation is a transaction that first locks the event row.  Those *)
(* of the registrations are split between the lock, under which the row is *)
(* read, and the commit, which writes what was computed from that reading; *)
(* the others are one step, taken while nobody holds the lock.             *)
(***************************************************************************)
EXTENDS ModeratedContent, FiniteSets

CONSTANTS
    MaxCapacity,   \* bound: seats
    MaxEventCases, \* bound: moderation cases opened for the event
    MaxEventEdits  \* bound: updates by the organizer

ASSUME EventAssumption ==
    /\ IsFiniteSet(Users)
    /\ MaxCapacity \in Nat \ {0}
    /\ {MaxEventCases, MaxEventEdits} \subseteq Nat

EventStatus == {"absent", "pending_review", "published", "rejected",
                "cancelled"}
SeatStatus == {"none", "registered", "cancelled"}

(* Now relative to the event: registration open, deadline passed, running, *)
(* ended.                                                                  *)
Phases == <<"open", "late", "running", "over">>
BeforeStart == {"open", "late"}
PhaseNames == {Phases[i] : i \in DOMAIN Phases}

VARIABLES
    event,     \* the row as moderated content: st, case, cases
    capacity,
    registeredCount,
    reason,    \* cancellation_reason is set
    phase,     \* element of Phases
    seat,      \* seat[u]: the registration row of u
    seatTx,    \* seatTx[u]: what the transaction of u has read under the lock
    eventEdits \* updates so far

rowVars == <<event, capacity, reason>>
seatVars == <<registeredCount, seat>>
eventVars == <<rowVars, seatVars, phase, seatTx, eventEdits>>

NoSeatTx == [op |-> "none"]
Transactions == {NoSeatTx} \cup
    [op : {"register", "cancel"}, st : EventStatus, phase : PhaseNames,
     count : Nat, row : SeatStatus, full : BOOLEAN]

Taken == {u \in Users : seat[u] = "registered"}

EventInit ==
    /\ event = [st |-> "absent", case |-> 0, cases |-> <<>>]
    /\ capacity = 1
    /\ registeredCount = 0
    /\ reason = FALSE
    /\ phase = "open"
    /\ seat = [u \in Users |-> "none"]
    /\ seatTx = [u \in Users |-> NoSeatTx]
    /\ eventEdits = 0

(* Mutant: a row is read without a lock.                                   *)
UnlockedAlways == event.st # "absent"

Unlocked == event.st # "absent" /\ \A u \in Users : seatTx[u] = NoSeatTx

-----------------------------------------------------------------------------
(* The organizer *)

CreateEvent ==
    /\ event.st = "absent"
    /\ \E result \in ScanResults, n \in 1 .. MaxCapacity, p \in BeforeStart :
        /\ result # "published" => MaxEventCases > 0
        /\ event' = Scanned(event, result)
        /\ capacity' = n
        /\ phase' = p
    /\ UNCHANGED <<reason, seatVars, seatTx, eventEdits>>

(* Mutant: the organizer may take seats away.                              *)
UpdateShrinking ==
    /\ Unlocked
    /\ event.st \in {"published", "pending_review"}
    /\ eventEdits < MaxEventEdits
    /\ eventEdits' = eventEdits + 1
    /\ capacity' \in 1 .. MaxCapacity
    /\ event' = Scanned(event, "published")
    /\ UNCHANGED <<reason, seatVars, phase, seatTx>>

(* A new text is scanned, new times must lie ahead of now, and the         *)
(* capacity may not fall below the seats taken.                            *)
UpdateEvent ==
    /\ Unlocked
    /\ event.st \in {"published", "pending_review"}
    /\ eventEdits < MaxEventEdits
    /\ eventEdits' = eventEdits + 1
    /\ capacity' \in 1 .. MaxCapacity
    /\ capacity' >= registeredCount
    /\ phase' \in BeforeStart
    /\ \E result \in ScanResults :
        /\ result # "published" => Len(event.cases) < MaxEventCases
        /\ event' = Scanned(event, result)
    /\ UNCHANGED <<reason, seatVars, seatTx>>

CancelEvent ==
    /\ Unlocked
    /\ event.st \in {"pending_review", "published"}
    /\ event' = [event EXCEPT !.st = "cancelled"]
    /\ reason' = TRUE
    /\ UNCHANGED <<capacity, seatVars, phase, seatTx, eventEdits>>

-----------------------------------------------------------------------------
(* Reports and moderation *)

(* Users report a published event; its organizer reports it in any state.  *)
ReportEvent ==
    /\ Unlocked
    /\ OpenCases(event) = {} => Len(event.cases) < MaxEventCases
    /\ event' = Reported(event)
    /\ UNCHANGED <<capacity, reason, seatVars, phase, seatTx, eventEdits>>

DecideEvent ==
    /\ Unlocked
    /\ \E k \in DOMAIN event.cases, decision \in Decisions :
        /\ Decidable(event, k)
        /\ event' = Decided(event, k, decision)
    /\ UNCHANGED <<capacity, reason, seatVars, phase, seatTx, eventEdits>>

-----------------------------------------------------------------------------
(* Registrations *)

(* The row lock is taken, and the event, the registration row and the      *)
(* clock are read under it.                                                *)
LockEvent(u, op) ==
    /\ Unlocked
    /\ seatTx[u] = NoSeatTx
    /\ seatTx' = [seatTx EXCEPT ![u] =
                 [op |-> op, st |-> event.st, phase |-> phase,
                  count |-> registeredCount, row |-> seat[u],
                  full |-> registeredCount >= capacity]]
    /\ UNCHANGED <<rowVars, seatVars, phase, eventEdits>>

(* register() refuses what is not published, late or full; a user who      *)
(* already has a seat is told so and nothing changes.                      *)
MayRegister(t) ==
    /\ t.st = "published"
    /\ t.phase = "open"
    /\ t.row # "registered"
    /\ ~t.full

Register(u) ==
    /\ seatTx[u].op = "register"
    /\ MayRegister(seatTx[u])
    /\ seat' = [seat EXCEPT ![u] = "registered"]
    /\ registeredCount' = seatTx[u].count + 1
    /\ seatTx' = [seatTx EXCEPT ![u] = NoSeatTx]
    /\ UNCHANGED <<rowVars, phase, eventEdits>>

CancelSeat(u) ==
    /\ seatTx[u].op = "cancel"
    /\ seatTx[u].phase \in BeforeStart
    /\ seatTx[u].row = "registered"
    /\ seat' = [seat EXCEPT ![u] = "cancelled"]
    /\ registeredCount' = IF seatTx[u].count > 0 THEN seatTx[u].count - 1 ELSE 0
    /\ seatTx' = [seatTx EXCEPT ![u] = NoSeatTx]
    /\ UNCHANGED <<rowVars, phase, eventEdits>>

(* Refused, without effect, or rolled back after a failure.                *)
Release(u) ==
    /\ seatTx[u] # NoSeatTx
    /\ seatTx' = [seatTx EXCEPT ![u] = NoSeatTx]
    /\ UNCHANGED <<rowVars, seatVars, phase, eventEdits>>

-----------------------------------------------------------------------------
Tick ==
    /\ event.st # "absent"
    /\ \E i \in 1 .. Len(Phases) - 1 :
        phase = Phases[i] /\ phase' = Phases[i + 1]
    /\ UNCHANGED <<rowVars, seatVars, seatTx, eventEdits>>

EventNext ==
    \/ CreateEvent
    \/ UpdateEvent
    \/ CancelEvent
    \/ ReportEvent
    \/ DecideEvent
    \/ \E u \in Users :
        \/ \E op \in {"register", "cancel"} : LockEvent(u, op)
        \/ Register(u)
        \/ CancelSeat(u)
        \/ Release(u)
    \/ Tick

EventSpec == EventInit /\ [][EventNext]_eventVars

-----------------------------------------------------------------------------
(* Safety *)

(* Rows hold what their CHECK constraints admit.                           *)
EventTypeOK ==
    /\ event \in [st : EventStatus, case : Nat, cases : Seq(CaseStatus)]
    /\ event.case <= Len(event.cases)
    /\ capacity \in 1 .. MaxCapacity
    /\ registeredCount \in Nat
    /\ reason \in BOOLEAN
    /\ phase \in PhaseNames
    /\ seat \in [Users -> SeatStatus]
    /\ seatTx \in [Users -> Transactions]
    /\ eventEdits \in 0 .. MaxEventEdits

(* registered_count is written from what a transaction has read, and still *)
(* is the number of registered rows: the lock makes the two agree.         *)
CountIsExact == registeredCount = Cardinality(Taken)

(* The last seat is given once, and an organizer who reduces the capacity  *)
(* while users register never goes below the seats taken.                  *)
NoSeatBeyondCapacity == Cardinality(Taken) <= capacity

(* An event that waits for review has a case somebody can decide, or one   *)
(* that was escalated: no report, edit or decision leaves it without.      *)
ReviewHasCase == event.st = "pending_review" =>
    /\ event.case \in DOMAIN event.cases
    /\ event.cases[event.case] \in {"pending", "escalated"}

(* A seat is taken only of an event that is published at that moment,      *)
(* however long the transaction waited.                                    *)
SeatOnlyInPublished == [][\A u \in Users :
    seat'[u] = "registered" /\ seat[u] # "registered"
        => event.st = "published"]_eventVars

=============================================================================
