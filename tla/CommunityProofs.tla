---------------------------- MODULE CommunityProofs ----------------------------
(***************************************************************************)
(* Machine-checked proofs about CampusEvents, for every finite set of      *)
(* users and every bound on seats, cases and updates; about                *)
(* LostFoundClaims, for any users and items, any number of claims, cases   *)
(* and updates; and about PostThread, for any topics, comments and         *)
(* sessions, whatever rows their requests lock.                            *)
(***************************************************************************)
EXTENDS CampusEvents, LostFoundClaims, PostThread, FiniteSetTheorems,
        SequenceTheorems, TLAPS

(* Every nonempty set of natural numbers has a first element.              *)
LEMMA FirstExists ==
  ASSUME NEW S \in SUBSET Nat, S # {}
  PROVE  FirstOf(S) \in S /\ \A j \in S : FirstOf(S) <= j
<1>1. PICK k \in S : \A j \in S : ~ (<<j, k>> \in OpToRel(<, Nat))
  BY NatLessThanWellFounded, WFMin
<1>2. \A j \in S : ~ (j < k)
  BY <1>1 DEF OpToRel
<1>3. \A j \in S : k <= j
  BY <1>2
<1> QED
  BY <1>3 DEF FirstOf

-----------------------------------------------------------------------------
(* Campus events.                                                          *)

EventRows == [st : EventStatus, case : Nat, cases : Seq(CaseStatus)]

(* The current case of an event that waits for review is open or was       *)
(* escalated, and no event refers to a case that was never opened.         *)
SoundEvent(c) ==
    /\ c \in EventRows
    /\ c.case <= Len(c.cases)
    /\ c.st = "pending_review" =>
          /\ c.case \in DOMAIN c.cases
          /\ c.cases[c.case] \in {"pending", "escalated"}

-----------------------------------------------------------------------------
(* What scans, reports and decisions do to content *)

LEMMA LinkedEvent ==
  ASSUME NEW c \in EventRows
  PROVE  /\ Linked(c) \in EventRows
         /\ Linked(c).st = c.st
         /\ Linked(c).case = Len(c.cases) + 1
         /\ Linked(c).cases = Append(c.cases, "pending")
<1> DEFINE cs == Append(c.cases, "pending")
           n == Len(c.cases) + 1
<1>1. cs \in Seq(CaseStatus) /\ n \in Nat
  BY DEF EventRows, CaseStatus
<1>2. Linked(c) = [[c EXCEPT !.case = n] EXCEPT !.cases = cs]
  BY DEF Linked
<1> HIDE DEF cs, n
<1>3. /\ Linked(c) \in EventRows /\ Linked(c).st = c.st
      /\ Linked(c).case = n /\ Linked(c).cases = cs
  BY <1>1, <1>2 DEF EventRows
<1> QED
  BY <1>3 DEF cs, n

(* A new case is the current one, and open. *)
LEMMA LinkedSound ==
  ASSUME NEW c, SoundEvent(c)
  PROVE  SoundEvent(Linked(c))
<1>1. c \in EventRows /\ c.cases \in Seq(CaseStatus)
  BY DEF SoundEvent, EventRows
<1> DEFINE cs == Append(c.cases, "pending")
<1>2. /\ Len(cs) = Len(c.cases) + 1
      /\ Len(c.cases) + 1 \in DOMAIN cs
      /\ cs[Len(c.cases) + 1] = "pending"
  BY <1>1
<1> QED
  BY <1>1, <1>2, LinkedEvent DEF SoundEvent

(* A cancelled event does not wait for review. *)
LEMMA CancelledSound ==
  ASSUME NEW c, SoundEvent(c)
  PROVE  /\ SoundEvent([c EXCEPT !.st = "cancelled"])
         /\ [c EXCEPT !.st = "cancelled"].st = "cancelled"
<1> DEFINE d == [c EXCEPT !.st = "cancelled"]
<1>1. /\ d \in EventRows /\ d.st = "cancelled" /\ d.case = c.case
      /\ d.cases = c.cases
  BY DEF SoundEvent, EventRows, EventStatus
<1> HIDE DEF d
<1>2. SoundEvent(d) /\ d.st = "cancelled"
  BY <1>1 DEF SoundEvent
<1> QED
  BY <1>2 DEF d

(* _scan() leaves sound content. *)
LEMMA ScannedSound ==
  ASSUME NEW c, SoundEvent(c), NEW result \in ScanResults
  PROVE  SoundEvent(Scanned(c, result)) /\ Scanned(c, result).st = result
<1>1. c \in EventRows
  BY DEF SoundEvent
<1>2. CASE result = "published"
  <2> DEFINE d == [c EXCEPT !.st = result, !.case = 0]
  <2>1. d \in EventRows /\ d.st = "published" /\ d.case = 0
    BY <1>1, <1>2 DEF EventRows, EventStatus
  <2>2. Len(d.cases) \in Nat
    BY <2>1 DEF EventRows
  <2>3. Scanned(c, result) = d
    BY <1>2 DEF Scanned
  <2> HIDE DEF d
  <2> QED
    BY <1>2, <2>1, <2>2, <2>3 DEF SoundEvent
<1>3. CASE result # "published"
  <2> DEFINE d == [Linked(c) EXCEPT !.st = result]
  <2>1. SoundEvent(Linked(c)) /\ Linked(c) \in EventRows
    BY LinkedSound DEF SoundEvent
  <2>2. /\ d \in EventRows /\ d.st = result /\ d.case = Linked(c).case
        /\ d.cases = Linked(c).cases
    BY <2>1 DEF EventRows, EventStatus, ScanResults
  <2>3. Len(c.cases) + 1 \in DOMAIN Linked(c).cases
        /\ Linked(c).cases[Len(c.cases) + 1] = "pending"
    <3>1. c.cases \in Seq(CaseStatus)
      BY <1>1 DEF EventRows
    <3> QED
      BY <1>1, <3>1, LinkedEvent
  <2>4. Scanned(c, result) = d
    BY <1>3 DEF Scanned
  <2> HIDE DEF d
  <2> QED
    BY <1>1, <2>1, <2>2, <2>3, <2>4, LinkedEvent DEF SoundEvent
<1> QED
  BY <1>2, <1>3

(* A report leaves sound content: the case it links is open. *)
LEMMA ReportedSound ==
  ASSUME NEW c, SoundEvent(c)
  PROVE  SoundEvent(Reported(c)) /\ Reported(c).st = c.st
<1>1. CASE OpenCases(c) = {}
  BY <1>1, LinkedSound, LinkedEvent DEF Reported, SoundEvent
<1>2. CASE OpenCases(c) # {}
  <2> DEFINE k == FirstOf(OpenCases(c))
             d == [c EXCEPT !.case = k]
  <2>1. c \in EventRows /\ c.cases \in Seq(CaseStatus)
    BY DEF SoundEvent, EventRows
  <2>2. OpenCases(c) \in SUBSET Nat
    BY <2>1 DEF OpenCases
  <2>3. k \in OpenCases(c)
    BY <1>2, <2>2, FirstExists
  <2>4. /\ k \in Nat /\ k \in DOMAIN c.cases /\ k <= Len(c.cases)
        /\ c.cases[k] = "pending"
    BY <2>1, <2>3 DEF OpenCases
  <2>5. Reported(c) = d
    BY <1>2 DEF Reported
  <2> HIDE DEF k
  <2>6. /\ d \in EventRows /\ d.st = c.st /\ d.case = k
        /\ d.cases = c.cases
    BY <2>1, <2>4 DEF EventRows
  <2> QED
    BY <2>4, <2>5, <2>6 DEF SoundEvent
<1> QED
  BY <1>1, <1>2

(* So does a decision about the current case. *)
LEMMA DecidedSound ==
  ASSUME NEW c, SoundEvent(c), NEW k, Decidable(c, k), NEW decision \in Decisions
  PROVE  /\ SoundEvent(Decided(c, k, decision))
         /\ c.st # "absent" => Decided(c, k, decision).st # "absent"
<1> DEFINE cs == [c.cases EXCEPT ![k] = decision]
           st == IF c.st = "deleted" \/ decision = "escalated" THEN c.st
                 ELSE IF decision = "approved" THEN "published"
                 ELSE "rejected"
           d == Decided(c, k, decision)
<1>1. c \in EventRows /\ c.cases \in Seq(CaseStatus) /\ c.st \in EventStatus
  BY DEF SoundEvent, EventRows
<1>2. k = c.case /\ k \in DOMAIN c.cases
  BY DEF Decidable, OpenCases
<1>3. /\ cs \in Seq(CaseStatus) /\ Len(cs) = Len(c.cases)
      /\ DOMAIN cs = DOMAIN c.cases /\ cs[k] = decision
  BY <1>1, <1>2 DEF CaseStatus
<1>4. /\ st \in EventStatus
      /\ st = "pending_review" => decision = "escalated"
      /\ c.st # "absent" => st # "absent"
  BY <1>1 DEF EventStatus, Decisions
<1>5. d = [[c EXCEPT !.cases = cs] EXCEPT !.st = st]
  BY <1>1 DEF Decided, EventRows
<1> HIDE DEF cs, st
<1>6. /\ d \in EventRows /\ d.st = st /\ d.case = c.case /\ d.cases = cs
  BY <1>1, <1>3, <1>4, <1>5 DEF EventRows
<1> HIDE DEF d
<1>7. SoundEvent(d) /\ (c.st # "absent" => d.st # "absent")
  BY <1>2, <1>3, <1>4, <1>6 DEF SoundEvent
<1> QED
  BY <1>7 DEF d

-----------------------------------------------------------------------------
(* The inductive invariant *)

OneLock == \A u, v \in Users : seatTx[u] # NoSeatTx /\ seatTx[v] # NoSeatTx => u = v

(* What a transaction has read under the lock is still so when it writes. *)
ReadingStands == \A u \in Users : seatTx[u] # NoSeatTx =>
    /\ seatTx[u].st = event.st
    /\ seatTx[u].count = registeredCount
    /\ seatTx[u].row = seat[u]
    /\ seatTx[u].full = (registeredCount >= capacity)

(* Nobody registers for an event that does not exist. *)
BlankEvent == event.st = "absent" =>
    registeredCount = 0 /\ \A u \in Users : seatTx[u] = NoSeatTx

EventIInv == /\ EventTypeOK
        /\ SoundEvent(event)
        /\ OneLock
        /\ ReadingStands
        /\ BlankEvent
        /\ CountIsExact
        /\ registeredCount <= capacity

LEMMA TakenFinite == IsFiniteSet(Taken) /\ Cardinality(Taken) \in Nat
  BY EventAssumption, FS_Subset, FS_CardinalityType DEF Taken

LEMMA EventInitInv == EventInit => EventIInv
<1> SUFFICES ASSUME EventInit PROVE EventIInv
  OBVIOUS
<1> USE EventAssumption DEF EventInit
<1>1. /\ event \in EventRows /\ event.st = "absent" /\ event.case = 0
      /\ Len(event.cases) = 0 /\ event.cases \in Seq(CaseStatus)
  BY DEF EventRows, EventStatus
<1>2. SoundEvent(event)
  BY <1>1 DEF SoundEvent
<1>3. phase \in PhaseNames
  BY DEF PhaseNames, Phases
<1>4. EventTypeOK
  <2>1. event.case <= Len(event.cases)
    BY <1>1
  <2>2. 0 \in 0 .. MaxEventEdits /\ 1 \in 1 .. MaxCapacity
    OBVIOUS
  <2>3. seatTx \in [Users -> Transactions]
    BY DEF Transactions
  <2>4. seat \in [Users -> SeatStatus]
    BY DEF SeatStatus
  <2> QED
    BY <1>1, <1>3, <2>1, <2>2, <2>3, <2>4 DEF EventTypeOK, EventRows
<1>5. Taken = {}
  BY DEF Taken
<1>6. CountIsExact
  BY <1>5, FS_EmptySet DEF CountIsExact
<1> QED
  BY <1>2, <1>4, <1>6 DEF EventIInv, OneLock, ReadingStands, BlankEvent

(* The organizer, reporters and moderators change the event and its        *)
(* capacity while nobody holds the lock, and leave the seats alone.        *)
LEMMA EventStep ==
  ASSUME EventIInv, UNCHANGED <<registeredCount, seat, seatTx>>, \A u \in Users : seatTx[u] = NoSeatTx,
         SoundEvent(event'), event'.st # "absent",
         capacity' \in 1 .. MaxCapacity, capacity' >= registeredCount,
         reason' \in BOOLEAN, phase' \in PhaseNames, eventEdits' \in 0 .. MaxEventEdits
  PROVE  EventIInv'
<1>1. EventTypeOK'
  BY DEF EventIInv, EventTypeOK, SoundEvent, EventRows
<1>2. SoundEvent(event)'
  BY DEF SoundEvent, EventRows
<1>3. CountIsExact'
  BY DEF EventIInv, CountIsExact, Taken
<1> QED
  BY <1>1, <1>2, <1>3 DEF EventIInv, OneLock, ReadingStands, BlankEvent

LEMMA OrganizerInv ==
  ASSUME EventIInv, CreateEvent \/ UpdateEvent \/ CancelEvent \/ ReportEvent \/ DecideEvent
  PROVE  EventIInv'
<1> USE EventAssumption
<1>1. SoundEvent(event) /\ EventTypeOK /\ registeredCount <= capacity /\ registeredCount \in Nat
  BY DEF EventIInv, EventTypeOK
<1>2. \A result \in ScanResults :
         SoundEvent(Scanned(event, result)) /\ Scanned(event, result).st = result
  BY <1>1, ScannedSound
<1>3. "absent" \notin ScanResults
  BY DEF ScanResults
<1>4. BeforeStart \subseteq PhaseNames
  BY DEF BeforeStart, PhaseNames, Phases
<1>5. CASE CreateEvent
  <2>1. registeredCount = 0 /\ \A u \in Users : seatTx[u] = NoSeatTx
    BY <1>5 DEF EventIInv, BlankEvent, CreateEvent
  <2>2. /\ SoundEvent(event') /\ event'.st # "absent"
        /\ capacity' \in 1 .. MaxCapacity /\ phase' \in PhaseNames
    BY <1>2, <1>3, <1>4, <1>5 DEF CreateEvent
  <2>3. /\ UNCHANGED <<registeredCount, seat, seatTx>>
        /\ reason' \in BOOLEAN /\ eventEdits' \in 0 .. MaxEventEdits
    BY <1>1, <1>5 DEF CreateEvent, seatVars, EventTypeOK
  <2>4. capacity' >= registeredCount
    BY <2>1, <2>2
  <2> QED
    BY <2>1, <2>2, <2>3, <2>4, EventStep
<1>6. CASE UpdateEvent
  <2>1. \A u \in Users : seatTx[u] = NoSeatTx
    BY <1>6 DEF UpdateEvent, Unlocked
  <2>2. /\ SoundEvent(event') /\ event'.st # "absent"
        /\ capacity' \in 1 .. MaxCapacity /\ phase' \in PhaseNames
        /\ capacity' >= registeredCount
    BY <1>2, <1>3, <1>4, <1>6 DEF UpdateEvent
  <2>3. /\ UNCHANGED <<registeredCount, seat, seatTx>>
        /\ reason' \in BOOLEAN /\ eventEdits' \in 0 .. MaxEventEdits
    BY <1>1, <1>6 DEF UpdateEvent, seatVars, EventTypeOK
  <2> QED
    BY <2>1, <2>2, <2>3, EventStep
<1>7. CASE CancelEvent
  <2>1. SoundEvent(event') /\ event'.st # "absent"
    BY <1>1, <1>7, CancelledSound DEF CancelEvent
  <2>2. \A u \in Users : seatTx[u] = NoSeatTx
    BY <1>7 DEF CancelEvent, Unlocked
  <2>3. /\ UNCHANGED <<registeredCount, seat, seatTx, capacity, phase, eventEdits>>
        /\ reason' \in BOOLEAN
    BY <1>7 DEF CancelEvent, seatVars
  <2> QED
    BY <1>1, <2>1, <2>2, <2>3, EventStep DEF EventTypeOK
<1>8. CASE ReportEvent
  <2>1. event.st # "absent" /\ \A u \in Users : seatTx[u] = NoSeatTx
    BY <1>8 DEF ReportEvent, Unlocked
  <2>2. SoundEvent(event') /\ event'.st # "absent"
    BY <1>1, <1>8, <2>1, ReportedSound DEF ReportEvent
  <2>3. UNCHANGED <<registeredCount, seat, seatTx, capacity, phase, eventEdits, reason>>
    BY <1>8 DEF ReportEvent, seatVars
  <2> QED
    BY <1>1, <2>1, <2>2, <2>3, EventStep DEF EventTypeOK
<1>9. CASE DecideEvent
  <2>1. event.st # "absent" /\ \A u \in Users : seatTx[u] = NoSeatTx
    BY <1>9 DEF DecideEvent, Unlocked
  <2>2. SoundEvent(event') /\ event'.st # "absent"
    BY <1>1, <1>9, <2>1, DecidedSound DEF DecideEvent
  <2>3. UNCHANGED <<registeredCount, seat, seatTx, capacity, phase, eventEdits, reason>>
    BY <1>9 DEF DecideEvent, seatVars
  <2> QED
    BY <1>1, <2>1, <2>2, <2>3, EventStep DEF EventTypeOK
<1> QED
  BY <1>5, <1>6, <1>7, <1>8, <1>9

(* The holder of the lock writes what it computed from its reading, which  *)
(* still stands, and lets go. *)
LEMMA RegisterInv ==
  ASSUME EventIInv, NEW u \in Users, Register(u)
  PROVE  EventIInv'
<1> USE EventAssumption
<1>1. /\ seatTx[u] # NoSeatTx /\ seatTx[u].full = (registeredCount >= capacity)
      /\ seatTx[u].count = registeredCount /\ seatTx[u].row = seat[u]
      /\ seatTx[u].st = event.st /\ MayRegister(seatTx[u])
  BY DEF Register, NoSeatTx, EventIInv, ReadingStands
<1>2. /\ seat \in [Users -> SeatStatus] /\ seatTx \in [Users -> Transactions]
      /\ registeredCount \in Nat /\ capacity \in Nat /\ registeredCount = Cardinality(Taken)
  BY DEF EventIInv, EventTypeOK, CountIsExact
<1>3. /\ event.st # "absent" /\ registeredCount < capacity /\ seat[u] # "registered"
  <2>1. event.st = "published" /\ seat[u] # "registered" /\ ~ seatTx[u].full
    BY <1>1 DEF MayRegister
  <2>2. ~ (registeredCount >= capacity)
    BY <1>1, <2>1
  <2> QED
    BY <1>2, <2>1, <2>2
<1>4. /\ seat' = [seat EXCEPT ![u] = "registered"]
      /\ registeredCount' = registeredCount + 1
      /\ seatTx' = [seatTx EXCEPT ![u] = NoSeatTx]
      /\ UNCHANGED <<event, capacity, reason, phase, eventEdits>>
  BY <1>1 DEF Register, rowVars
<1>5. CountIsExact'
  <2>1. Taken' = Taken \cup {u}
    BY <1>2, <1>4 DEF Taken
  <2>2. u \notin Taken
    BY <1>3 DEF Taken
  <2>3. Cardinality(Taken \cup {u}) = Cardinality(Taken) + 1
    BY <2>2, TakenFinite, FS_AddElement
  <2> QED
    BY <1>2, <1>4, <2>1, <2>3 DEF CountIsExact
<1>6. \A v \in Users : seatTx'[v] = NoSeatTx
  BY <1>1, <1>2, <1>4 DEF EventIInv, OneLock
<1>7. EventTypeOK'
  <2>1. seatTx' \in [Users -> Transactions]
    BY <1>2, <1>4 DEF Transactions
  <2>2. seat' \in [Users -> SeatStatus]
    BY <1>2, <1>4 DEF SeatStatus
  <2> QED
    BY <1>2, <1>4, <2>1, <2>2 DEF EventIInv, EventTypeOK
<1>8. SoundEvent(event)' /\ (registeredCount <= capacity)'
  BY <1>2, <1>3, <1>4 DEF EventIInv, SoundEvent
<1> QED
  BY <1>3, <1>4, <1>5, <1>6, <1>7, <1>8
     DEF EventIInv, OneLock, ReadingStands, BlankEvent

LEMMA CancelSeatInv ==
  ASSUME EventIInv, NEW u \in Users, CancelSeat(u)
  PROVE  EventIInv'
<1> USE EventAssumption
<1>1. /\ seatTx[u] # NoSeatTx /\ seatTx[u].count = registeredCount /\ seatTx[u].row = seat[u]
      /\ seatTx[u].row = "registered"
  BY DEF CancelSeat, NoSeatTx, EventIInv, ReadingStands
<1>2. /\ seat \in [Users -> SeatStatus] /\ seatTx \in [Users -> Transactions]
      /\ registeredCount \in Nat /\ capacity \in Nat /\ registeredCount = Cardinality(Taken)
  BY DEF EventIInv, EventTypeOK, CountIsExact
<1>3. u \in Taken
  BY <1>1 DEF Taken
<1>4. registeredCount > 0
  BY <1>2, <1>3, TakenFinite, FS_EmptySet
<1>5. /\ seat' = [seat EXCEPT ![u] = "cancelled"]
      /\ registeredCount' = registeredCount - 1
      /\ seatTx' = [seatTx EXCEPT ![u] = NoSeatTx]
      /\ UNCHANGED <<event, capacity, reason, phase, eventEdits>>
  BY <1>1, <1>4 DEF CancelSeat, rowVars
<1>6. CountIsExact'
  <2>1. Taken' = Taken \ {u}
    BY <1>2, <1>5 DEF Taken
  <2>2. Cardinality(Taken \ {u}) = Cardinality(Taken) - 1
    BY <1>3, TakenFinite, FS_RemoveElement
  <2> QED
    BY <1>2, <1>5, <2>1, <2>2 DEF CountIsExact
<1>7. \A v \in Users : seatTx'[v] = NoSeatTx
  BY <1>1, <1>2, <1>5 DEF EventIInv, OneLock
<1>8. EventTypeOK'
  <2>1. seatTx' \in [Users -> Transactions]
    BY <1>2, <1>5 DEF Transactions
  <2>2. seat' \in [Users -> SeatStatus]
    BY <1>2, <1>5 DEF SeatStatus
  <2>3. registeredCount' \in Nat
    BY <1>2, <1>4, <1>5
  <2> QED
    BY <1>5, <2>1, <2>2, <2>3 DEF EventIInv, EventTypeOK
<1>9. SoundEvent(event)' /\ (registeredCount <= capacity)'
  BY <1>2, <1>5 DEF EventIInv, SoundEvent
<1>10. event.st # "absent"
  BY <1>1 DEF EventIInv, BlankEvent
<1> QED
  BY <1>5, <1>6, <1>7, <1>8, <1>9, <1>10
     DEF EventIInv, OneLock, ReadingStands, BlankEvent

(* The lock is taken while nobody has it, and given back unused. *)
LEMMA LockInv ==
  ASSUME EventIInv, NEW u \in Users,
         \/ \E op \in {"register", "cancel"} : LockEvent(u, op)
         \/ Release(u)
  PROVE  EventIInv'
<1>1. UNCHANGED <<rowVars, seatVars, phase, eventEdits>>
  BY DEF LockEvent, Release
<1>2. SoundEvent(event)' /\ (registeredCount <= capacity)' /\ CountIsExact'
  BY <1>1 DEF EventIInv, SoundEvent, CountIsExact, Taken, rowVars, seatVars
<1>3. /\ seatTx \in [Users -> Transactions] /\ seat \in [Users -> SeatStatus]
      /\ registeredCount \in Nat /\ capacity \in Nat /\ event.st \in EventStatus
      /\ phase \in PhaseNames
  BY DEF EventIInv, EventTypeOK
<1>4. CASE \E op \in {"register", "cancel"} : LockEvent(u, op)
  <2>1. PICK op \in {"register", "cancel"} : LockEvent(u, op)
    BY <1>4
  <2> DEFINE t == [op |-> op, st |-> event.st, phase |-> phase,
                   count |-> registeredCount, row |-> seat[u], full |-> registeredCount >= capacity]
  <2>2. /\ event.st # "absent" /\ seatTx' = [seatTx EXCEPT ![u] = t]
        /\ \A v \in Users : seatTx[v] = NoSeatTx
    BY <2>1 DEF LockEvent, Unlocked
  <2>3. t \in Transactions
    BY <1>3 DEF Transactions
  <2>4. /\ t.st = event.st /\ t.count = registeredCount /\ t.row = seat[u]
        /\ t.full = (registeredCount >= capacity)
    OBVIOUS
  <2> HIDE DEF t
  <2>5. seatTx' \in [Users -> Transactions]
    BY <1>3, <2>2, <2>3
  <2>6. EventTypeOK'
    BY <1>1, <2>5 DEF EventIInv, EventTypeOK, rowVars, seatVars
  <2>7. seatTx'[u] = t /\ \A v \in Users : v # u => seatTx'[v] = NoSeatTx
    BY <1>3, <2>2
  <2>8. OneLock'
    BY <2>7 DEF OneLock
  <2>9. ReadingStands'
    BY <1>1, <2>4, <2>7 DEF ReadingStands, rowVars, seatVars
  <2> QED
    BY <1>1, <1>2, <2>2, <2>6, <2>8, <2>9 DEF EventIInv, BlankEvent, rowVars
<1>5. CASE Release(u)
  <2>1. seatTx' = [seatTx EXCEPT ![u] = NoSeatTx] /\ seatTx[u] # NoSeatTx
    BY <1>5 DEF Release
  <2>2. \A v \in Users : seatTx'[v] = NoSeatTx
    BY <1>3, <2>1 DEF EventIInv, OneLock
  <2>3. seatTx' \in [Users -> Transactions]
    BY <1>3, <2>1 DEF Transactions
  <2>4. EventTypeOK'
    BY <1>1, <2>3 DEF EventIInv, EventTypeOK, rowVars, seatVars
  <2> QED
    BY <1>1, <1>2, <2>2, <2>4
       DEF EventIInv, OneLock, ReadingStands, BlankEvent, rowVars, seatVars
<1> QED
  BY <1>4, <1>5

(* Time and stuttering move none of the rows. *)
LEMMA TickInv ==
  ASSUME EventIInv, Tick \/ UNCHANGED eventVars
  PROVE  EventIInv'
<1>1. /\ UNCHANGED <<event, capacity, reason, registeredCount, seat, seatTx, eventEdits>>
      /\ phase' \in PhaseNames
  BY DEF EventIInv, EventTypeOK, Tick, eventVars, rowVars, seatVars, PhaseNames, Phases
<1> QED
  BY <1>1 DEF EventIInv, EventTypeOK, SoundEvent, OneLock, ReadingStands, BlankEvent,
              CountIsExact, Taken

LEMMA EventStepInv == EventIInv /\ [EventNext]_eventVars => EventIInv'
<1> SUFFICES ASSUME EventIInv, [EventNext]_eventVars PROVE EventIInv'
  OBVIOUS
<1>1. CASE CreateEvent \/ UpdateEvent \/ CancelEvent \/ ReportEvent \/ DecideEvent
  BY <1>1, OrganizerInv
<1>2. CASE \E u \in Users : Register(u) \/ CancelSeat(u)
  BY <1>2, RegisterInv, CancelSeatInv
<1>3. CASE \E u \in Users :
             Release(u) \/ \E op \in {"register", "cancel"} : LockEvent(u, op)
  BY <1>3, LockInv
<1>4. CASE Tick \/ UNCHANGED eventVars
  BY <1>4, TickInv
<1> QED
  BY <1>1, <1>2, <1>3, <1>4 DEF EventNext

-----------------------------------------------------------------------------
(* The theorems *)

(* The invariant holds in every reachable state. *)
THEOREM EventInvariance == EventSpec => []EventIInv
  BY EventInitInv, EventStepInv, PTL DEF EventSpec

(* Rows hold what their CHECK constraints admit. *)
THEOREM EventTypeCorrect == EventSpec => []EventTypeOK
  BY EventInvariance, PTL DEF EventIInv

(* registered_count is the number of registered rows. *)
THEOREM CountExact == EventSpec => []CountIsExact
  BY EventInvariance, PTL DEF EventIInv

(* No seat is given beyond the capacity, however many users ask for the    *)
(* last one and whatever the organizer makes of the capacity meanwhile.    *)
THEOREM CapacityKept == EventSpec => []NoSeatBeyondCapacity
<1>1. EventIInv => NoSeatBeyondCapacity
  BY DEF EventIInv, CountIsExact, NoSeatBeyondCapacity
<1> QED
  BY <1>1, EventInvariance, PTL

(* What waits for review has a case that is open or was escalated. *)
THEOREM ReviewsHaveCases == EventSpec => []ReviewHasCase
<1>1. EventIInv => ReviewHasCase
  BY DEF EventIInv, SoundEvent, ReviewHasCase
<1> QED
  BY <1>1, EventInvariance, PTL

(* A seat is taken only of an event that is published when it is written.  *)
THEOREM SeatsArePublic == EventSpec => SeatOnlyInPublished
<1> DEFINE Public == \A u \in Users :
        seat'[u] = "registered" /\ seat[u] # "registered"
            => event.st = "published"
<1>1. ASSUME EventIInv, [EventNext]_eventVars PROVE Public
  <2> SUFFICES ASSUME NEW u \in Users, seat'[u] = "registered",
                      seat[u] # "registered"
               PROVE  event.st = "published"
    OBVIOUS
  <2>1. seat \in [Users -> SeatStatus]
    BY <1>1 DEF EventIInv, EventTypeOK
  <2>2. PICK v \in Users : Register(v)
    BY <1>1, <2>1 DEF EventNext, eventVars, CreateEvent, UpdateEvent, CancelEvent, ReportEvent, DecideEvent,
                      LockEvent, CancelSeat, Release, Tick, seatVars
  <2>3. seatTx[v] # NoSeatTx /\ seatTx[v].st = "published"
    BY <2>2 DEF Register, MayRegister, NoSeatTx
  <2> QED
    BY <1>1, <2>3 DEF EventIInv, ReadingStands
<1>2. EventIInv /\ [EventNext]_eventVars => [Public]_eventVars
  BY <1>1
<1>3. EventSpec => [][Public]_eventVars
  BY <1>2, EventInvariance, PTL DEF EventSpec
<1> QED
  BY <1>3 DEF SeatOnlyInPublished

-----------------------------------------------------------------------------
(* Lost and found items and their claims.                                  *)

(* What a row promises: a refused text has no publication date, and an     *)
(* item that was not posted has no case.                                   *)
RowOK(c) ==
    /\ Admitted(c)
    /\ c.st \in {"rejected", "pending_review"} => ~c.dated
    /\ c.st = "absent" => Len(c.cases) = 0
    /\ c.st = "deleted" => c.deleted

RowsOK == \A i \in Items : RowOK(items[i])

(* The target a claim has locked stays in public view.                     *)
HeldItems == \A u \in Users : claimTx[u] # NoClaimTx =>
    Live(claimTx[u].target) /\ items[claimTx[u].target].st \in PublicStatus

ItemIInv == ItemTypeOK /\ RowsOK /\ HeldItems /\ ActiveClaimKeepsItem /\ CompletedByBoth

-----------------------------------------------------------------------------
(* What the operators make of a row. *)

LEMMA RowFields ==
  ASSUME NEW c \in ItemRows
  PROVE  /\ c.st \in ItemStatus /\ c.case \in Nat /\ c.cases \in Seq(CaseStatus)
         /\ c.owner \in Users /\ c.kind \in Kinds /\ c.deleted \in BOOLEAN
         /\ c.dated \in BOOLEAN /\ Len(c.cases) \in Nat
BY DEF ItemRows

LEMMA StatusNames ==
  /\ ScanResults \subseteq ItemStatus /\ PublicStatus \subseteq ItemStatus
  /\ {"absent", "claiming", "completed", "deleted", "rejected", "published"} \subseteq ItemStatus
  /\ "absent" \notin ScanResults /\ "completed" \notin ScanResults
  /\ "absent" \notin PublicStatus /\ "completed" \notin PublicStatus
BY DEF ScanResults, PublicStatus, ItemStatus

LEMMA LinkedRow ==
  ASSUME NEW c \in ItemRows
  PROVE  /\ Linked(c) \in ItemRows
         /\ Linked(c).st = c.st /\ Linked(c).deleted = c.deleted
         /\ Linked(c).dated = c.dated /\ Linked(c).owner = c.owner
         /\ Linked(c).case = Len(c.cases) + 1
         /\ Len(Linked(c).cases) = Len(c.cases) + 1
         /\ \A k \in DOMAIN c.cases : Linked(c).cases[k] = c.cases[k]
<1> DEFINE cs == Append(c.cases, "pending")
           n == Len(c.cases) + 1
<1>1. /\ cs \in Seq(CaseStatus) /\ n \in Nat /\ Len(cs) = n
      /\ \A k \in DOMAIN c.cases : cs[k] = c.cases[k]
  BY RowFields DEF CaseStatus
<1>2. Linked(c) = [[c EXCEPT !.case = n] EXCEPT !.cases = cs]
  BY DEF Linked
<1> HIDE DEF cs, n
<1> DEFINE a == [c EXCEPT !.case = n]
           b == [a EXCEPT !.cases = cs]
<1>3. /\ a \in ItemRows /\ a.st = c.st /\ a.deleted = c.deleted /\ a.dated = c.dated
      /\ a.owner = c.owner /\ a.case = n
  BY <1>1 DEF ItemRows
<1> HIDE DEF a
<1>4. /\ b \in ItemRows /\ b.st = c.st /\ b.deleted = c.deleted /\ b.dated = c.dated
      /\ b.owner = c.owner /\ b.case = n /\ b.cases = cs
  BY <1>1, <1>3 DEF ItemRows
<1>5. Linked(c) = b
  BY <1>2 DEF b, a
<1> HIDE DEF b
<1> QED
  BY <1>1, <1>4, <1>5 DEF n

(* _scan(), its date included.                                             *)
LEMMA ScannedRow ==
  ASSUME NEW c, Admitted(c), NEW result \in ScanResults,
         result # "published" => Len(c.cases) < MaxItemCases
  PROVE  /\ Scanned(c, result) \in ItemRows /\ Scanned(c, result).st = result
         /\ Scanned(c, result).deleted = c.deleted
         /\ Scanned(c, result).case <= Len(Scanned(c, result).cases)
         /\ Len(Scanned(c, result).cases) <= MaxItemCases
         /\ result = "pending_review" => Scanned(c, result).case # 0
<1>0. c \in ItemRows /\ Len(c.cases) \in Nat /\ c.case \in Nat /\ Len(c.cases) <= MaxItemCases
      /\ result \in ItemStatus
  BY RowFields, StatusNames DEF Admitted
<1>1. CASE result = "published"
  <2> DEFINE a == [c EXCEPT !.st = result]
             b == [a EXCEPT !.case = 0]
  <2>1. a \in ItemRows /\ a.st = result /\ a.deleted = c.deleted /\ a.cases = c.cases
    BY <1>0 DEF ItemRows
  <2>2. Scanned(c, result) = b
    BY <1>1 DEF Scanned
  <2> HIDE DEF a
  <2>3. /\ b \in ItemRows /\ b.st = result /\ b.deleted = c.deleted /\ b.case = 0
        /\ b.cases = c.cases
    BY <2>1 DEF ItemRows
  <2> HIDE DEF b
  <2> QED
    BY <1>0, <1>1, <2>2, <2>3
<1>2. CASE result # "published"
  <2>1. PICK a : a = Linked(c)
    OBVIOUS
  <2>2. /\ a \in ItemRows /\ a.deleted = c.deleted /\ a.case = Len(c.cases) + 1
        /\ Len(a.cases) = Len(c.cases) + 1
    BY <1>0, <2>1, LinkedRow
  <2> DEFINE b == [a EXCEPT !.st = result]
  <2>3. /\ b \in ItemRows /\ b.st = result /\ b.deleted = c.deleted /\ b.case = a.case
        /\ b.cases = a.cases
    BY <1>0, <2>2 DEF ItemRows
  <2>4. Scanned(c, result) = b
    BY <1>2, <2>1 DEF Scanned
  <2> HIDE DEF b
  <2>5. Len(c.cases) + 1 <= MaxItemCases /\ Len(c.cases) + 1 # 0
    BY <1>0, <1>2, LostFoundAssumption
  <2> QED
    BY <1>0, <2>2, <2>3, <2>4, <2>5
<1> QED
  BY <1>1, <1>2

LEMMA DatedRow ==
  ASSUME NEW c \in ItemRows
  PROVE  /\ Dated(c) \in ItemRows /\ Dated(c).st = c.st /\ Dated(c).deleted = c.deleted
         /\ Dated(c).case = c.case /\ Dated(c).cases = c.cases
         /\ Dated(c).dated = (c.st = "published")
BY DEF Dated, ItemRows

LEMMA Rescanned ==
  ASSUME NEW c, Admitted(c), NEW result \in ScanResults,
         result # "published" => Len(c.cases) < MaxItemCases
  PROVE  /\ RowOK(Dated(Scanned(c, result))) /\ Dated(Scanned(c, result)).st = result
         /\ Dated(Scanned(c, result)).deleted = c.deleted
<1>1. PICK s : s = Scanned(c, result)
  OBVIOUS
<1>2. /\ s \in ItemRows /\ s.st = result /\ s.deleted = c.deleted
      /\ s.case <= Len(s.cases) /\ Len(s.cases) <= MaxItemCases
      /\ result = "pending_review" => s.case # 0
  BY <1>1, ScannedRow
<1>3. PICK d : d = Dated(s)
  OBVIOUS
<1>4. /\ d \in ItemRows /\ d.st = result /\ d.deleted = c.deleted /\ d.case = s.case
      /\ d.cases = s.cases /\ d.dated = (result = "published")
  BY <1>2, <1>3, DatedRow
<1>5. result \in {"published", "pending_review", "rejected"}
  BY DEF ScanResults
<1>6. RowOK(d)
  BY <1>2, <1>4, <1>5 DEF RowOK, Admitted, PublicStatus
<1> QED
  BY <1>1, <1>3, <1>4, <1>6

LEMMA ReportedRow ==
  ASSUME NEW c, RowOK(c), c.st # "absent", OpenCases(c) = {} => Len(c.cases) < MaxItemCases
  PROVE  RowOK(Reported(c)) /\ Reported(c).st = c.st /\ Reported(c).deleted = c.deleted
<1>0. /\ c \in ItemRows /\ Len(c.cases) \in Nat /\ c.cases \in Seq(CaseStatus)
      /\ Len(c.cases) <= MaxItemCases
  BY RowFields DEF RowOK, Admitted
<1>1. CASE OpenCases(c) = {}
  <2>1. PICK a : a = Linked(c)
    OBVIOUS
  <2>2. /\ a \in ItemRows /\ a.st = c.st /\ a.deleted = c.deleted /\ a.dated = c.dated
        /\ a.case = Len(c.cases) + 1 /\ Len(a.cases) = Len(c.cases) + 1
    BY <1>0, <2>1, LinkedRow
  <2>3. Len(c.cases) + 1 <= MaxItemCases /\ Len(c.cases) + 1 # 0
    BY <1>0, <1>1, LostFoundAssumption
  <2>4. RowOK(a)
    BY <1>0, <2>2, <2>3 DEF RowOK, Admitted
  <2> QED
    BY <1>1, <2>1, <2>2, <2>4 DEF Reported
<1>2. CASE OpenCases(c) # {}
  <2> DEFINE k == FirstOf(OpenCases(c))
             a == [c EXCEPT !.case = k]
  <2>1. OpenCases(c) \in SUBSET Nat
    BY <1>0 DEF OpenCases
  <2>2. k \in OpenCases(c)
    BY <1>2, <2>1, FirstExists
  <2>3. k \in Nat /\ k <= Len(c.cases) /\ k # 0
    BY <1>0, <2>2 DEF OpenCases
  <2> HIDE DEF k
  <2>4. /\ a \in ItemRows /\ a.st = c.st /\ a.deleted = c.deleted /\ a.dated = c.dated
        /\ a.case = k /\ a.cases = c.cases
    BY <1>0, <2>3 DEF ItemRows
  <2>5. Reported(c) = a
    BY <1>2 DEF Reported, k
  <2> HIDE DEF a
  <2>6. RowOK(a)
    BY <2>3, <2>4 DEF RowOK, Admitted
  <2> QED
    BY <2>4, <2>5, <2>6
<1> QED
  BY <1>1, <1>2

(* The case alone is decided.                                              *)
LEMMA CaseDecided ==
  ASSUME NEW c, RowOK(c), NEW k \in DOMAIN c.cases, NEW decision \in Decisions
  PROVE  LET d == [c EXCEPT !.cases[k] = decision] IN
         RowOK(d) /\ d.st = c.st /\ d.deleted = c.deleted /\ d.case = c.case
<1> DEFINE cs == [c.cases EXCEPT ![k] = decision]
           d == [c EXCEPT !.cases = cs]
<1>0. c \in ItemRows /\ c.cases \in Seq(CaseStatus)
  BY RowFields DEF RowOK, Admitted
<1>1. cs \in Seq(CaseStatus) /\ Len(cs) = Len(c.cases)
  BY <1>0 DEF CaseStatus
<1>2. [c EXCEPT !.cases[k] = decision] = d
  BY <1>0 DEF ItemRows
<1> HIDE DEF cs
<1>3. /\ d \in ItemRows /\ d.st = c.st /\ d.deleted = c.deleted /\ d.dated = c.dated
      /\ d.case = c.case /\ d.cases = cs
  BY <1>0, <1>1 DEF ItemRows
<1> HIDE DEF d
<1>4. RowOK(d)
  BY <1>1, <1>3 DEF RowOK, Admitted
<1> QED
  BY <1>2, <1>3, <1>4

(* A decision other than to escalate, on an item that was not deleted.     *)
LEMMA DecidedRow ==
  ASSUME NEW c, RowOK(c), NEW k \in DOMAIN c.cases, NEW decision \in {"approved", "rejected"},
         c.st # "deleted", c.st # "absent"
  PROVE  LET d == Dated(Decided(c, k, decision)) IN
         /\ RowOK(d) /\ d.deleted = c.deleted
         /\ d.st = IF decision = "approved" THEN "published" ELSE "rejected"
<1> DEFINE a == [c EXCEPT !.cases[k] = decision]
           st == IF decision = "approved" THEN "published" ELSE "rejected"
           b == [a EXCEPT !.st = st]
<1>1. decision \in Decisions
  BY DEF Decisions
<1>2. RowOK(a) /\ a.st = c.st /\ a.deleted = c.deleted
  BY <1>1, CaseDecided
<1>3. Decided(c, k, decision) = b
  <2>1. c \in ItemRows
    BY DEF RowOK, Admitted
  <2> QED
    BY <2>1 DEF Decided, ItemRows
<1> HIDE DEF a
<1>4. a \in ItemRows /\ st \in ItemStatus /\ st \in {"published", "rejected"}
  BY <1>2, StatusNames DEF RowOK, Admitted
<1> HIDE DEF st
<1>5. /\ b \in ItemRows /\ b.st = st /\ b.deleted = c.deleted /\ b.case = a.case
      /\ b.cases = a.cases
  BY <1>2, <1>4 DEF ItemRows
<1> HIDE DEF b
<1>6. PICK d : d = Dated(b)
  OBVIOUS
<1>7. /\ d \in ItemRows /\ d.st = st /\ d.deleted = c.deleted /\ d.case = a.case
      /\ d.cases = a.cases /\ d.dated = (st = "published")
  BY <1>5, <1>6, DatedRow
<1>8. RowOK(d)
  BY <1>2, <1>4, <1>7 DEF RowOK, Admitted, PublicStatus
<1> QED
  BY <1>3, <1>6, <1>7, <1>8 DEF st

(* A status written by a claim.                                            *)
LEMMA StatusWritten ==
  ASSUME NEW c, RowOK(c), NEW st \in {"claiming", "published", "completed"},
         st # "completed" => c.dated, NEW d, d = [c EXCEPT !.st = st]
  PROVE  RowOK(d) /\ d.st = st /\ d.deleted = c.deleted
<1>1. c \in ItemRows /\ st \in ItemStatus
  BY StatusNames DEF RowOK, Admitted
<1>2. /\ d \in ItemRows /\ d.st = st /\ d.deleted = c.deleted /\ d.dated = c.dated
      /\ d.case = c.case /\ d.cases = c.cases
  BY <1>1 DEF ItemRows
<1>3. RowOK(d)
  BY <1>2 DEF RowOK, Admitted, PublicStatus
<1> QED
  BY <1>2, <1>3

LEMMA DeletedRow ==
  ASSUME NEW c, RowOK(c)
  PROVE  RowOK([[c EXCEPT !.st = "deleted"] EXCEPT !.deleted = TRUE])
<1> DEFINE a == [c EXCEPT !.st = "deleted"]
           d == [a EXCEPT !.deleted = TRUE]
<1>1. c \in ItemRows
  BY DEF RowOK, Admitted
<1>2. /\ a \in ItemRows /\ a.st = "deleted" /\ a.case = c.case /\ a.cases = c.cases
  BY <1>1, StatusNames DEF ItemRows
<1> HIDE DEF a
<1>3. /\ d \in ItemRows /\ d.st = "deleted" /\ d.deleted = TRUE /\ d.case = c.case
      /\ d.cases = c.cases
  BY <1>2 DEF ItemRows
<1> HIDE DEF d
<1>4. RowOK(d)
  BY <1>3 DEF RowOK, Admitted, PublicStatus
<1> QED
  BY <1>4 DEF d, a

-----------------------------------------------------------------------------
(* Each action keeps the invariant. *)

LEMMA ClaimTxFields ==
  ASSUME ItemIInv, NEW u \in Users, claimTx[u] # NoClaimTx
  PROVE  claimTx[u].target \in Items /\ claimTx[u].own \in Items \cup {NoItem}
<1>1. claimTx[u] \in [target : Items, own : Items \cup {NoItem}]
  BY DEF ItemIInv, ItemTypeOK
<1> QED
  BY <1>1

LEMMA ClaimFields ==
  ASSUME ItemIInv, NEW k \in DOMAIN claims
  PROVE  /\ claims[k] \in Claims /\ claims[k].target \in Items
         /\ claims[k].own \in Items \cup {NoItem}
         /\ ClaimItems(claims[k]) \subseteq Items
<1>1. claims[k] \in Claims
  BY DEF ItemIInv, ItemTypeOK
<1> QED
  BY <1>1 DEF Claims, ClaimItems

(* One item nobody holds is rewritten, by its owner, a report or a         *)
(* moderator.                                                              *)
LEMMA ItemStep ==
  ASSUME ItemIInv, NEW i \in Items, Free(i), NEW row, RowOK(row),
         items' = [items EXCEPT ![i] = row], claims' = claims, claimTx' = claimTx,
         itemEdits' \in 0 .. MaxItemEdits,
         items[i].st # "absent" => row.st # "absent",
         row.deleted => items[i].deleted \/ Active(i) = {},
         row.st = "completed" => items[i].st = "completed"
  PROVE  ItemIInv'
<1>1. /\ items' \in [Items -> ItemRows] /\ items'[i] = row
      /\ \A j \in Items \ {i} : items'[j] = items[j]
  BY DEF ItemIInv, ItemTypeOK, RowOK, Admitted
<1>2. \A j \in Items : RowOK(items'[j])
  BY <1>1 DEF ItemIInv, RowsOK
<1>3. ItemTypeOK' /\ RowsOK'
  <2>1. RowsOK' /\ (\A j \in Items : Admitted(items[j]))'
    BY <1>2 DEF RowsOK, RowOK, Admitted
  <2> QED
    BY <1>1, <2>1 DEF ItemIInv, ItemTypeOK
<1>4. HeldItems'
  <2> SUFFICES ASSUME NEW u \in Users, claimTx[u] # NoClaimTx
               PROVE  Live(claimTx[u].target)' /\ items'[claimTx[u].target].st \in PublicStatus
    BY DEF HeldItems
  <2>1. claimTx[u].target \in Items /\ claimTx[u].target # i
    BY ClaimTxFields DEF Free
  <2> QED
    BY <1>1, <2>1 DEF ItemIInv, HeldItems, Live
<1>5. ActiveClaimKeepsItem'
  <2> SUFFICES ASSUME NEW k \in DOMAIN claims, claims[k].st \in ActiveClaim
               PROVE  /\ items'[claims[k].target].st # "absent"
                      /\ ~items'[claims[k].target].deleted
    BY DEF ActiveClaimKeepsItem, Live
  <2>1. claims[k].target \in Items /\ Live(claims[k].target)
    BY ClaimFields DEF ItemIInv, ActiveClaimKeepsItem
  <2>2. CASE claims[k].target # i
    BY <1>1, <2>1, <2>2 DEF Live
  <2>3. CASE claims[k].target = i
    <3>1. k \in Active(i)
      BY <2>3 DEF Active
    <3> QED
      BY <1>1, <2>1, <2>3, <3>1 DEF Live
  <2> QED
    BY <2>2, <2>3
<1>6. CompletedByBoth'
  BY <1>1 DEF ItemIInv, CompletedByBoth
<1> QED
  BY <1>3, <1>4, <1>5, <1>6 DEF ItemIInv

LEMMA ItemFacts ==
  ASSUME ItemIInv, NEW i \in Items
  PROVE  /\ RowOK(items[i]) /\ Admitted(items[i]) /\ items[i] \in ItemRows
         /\ itemEdits \in 0 .. MaxItemEdits
BY DEF ItemIInv, RowsOK, RowOK, Admitted, ItemTypeOK

LEMMA PostItemStep ==
  ASSUME ItemIInv, NEW i \in Items, PostItem(i)
  PROVE  ItemIInv'
<1>1. PICK result \in ScanResults, u \in Users, kind \in Kinds :
        /\ result # "published" => MaxItemCases > 0
        /\ items' = [items EXCEPT ![i] =
             Dated([Scanned(items[i], result) EXCEPT !.owner = u, !.kind = kind])]
  BY DEF PostItem
<1>2. items[i].st = "absent" /\ RowOK(items[i]) /\ Admitted(items[i]) /\ Len(items[i].cases) = 0
  BY ItemFacts DEF PostItem, RowOK
<1>3. PICK s : s = Scanned(items[i], result)
  OBVIOUS
<1>4. /\ s \in ItemRows /\ s.st = result /\ s.deleted = items[i].deleted
      /\ s.case <= Len(s.cases) /\ Len(s.cases) <= MaxItemCases
      /\ result = "pending_review" => s.case # 0
  BY <1>1, <1>2, <1>3, ScannedRow
<1> DEFINE a == [s EXCEPT !.owner = u]
           b == [a EXCEPT !.kind = kind]
<1>5. /\ a \in ItemRows /\ a.st = result /\ a.case = s.case /\ a.cases = s.cases
      /\ a.deleted = items[i].deleted
  BY <1>4 DEF ItemRows
<1> HIDE DEF a
<1>6. /\ b \in ItemRows /\ b.st = result /\ b.case = s.case /\ b.cases = s.cases
      /\ b.deleted = items[i].deleted
  BY <1>5 DEF ItemRows
<1>7. items' = [items EXCEPT ![i] = Dated(b)]
  BY <1>1, <1>3 DEF b, a
<1> HIDE DEF b
<1>8. PICK d : d = Dated(b)
  OBVIOUS
<1>9. /\ d \in ItemRows /\ d.st = result /\ d.case = s.case /\ d.cases = s.cases
      /\ d.deleted = items[i].deleted /\ d.dated = (result = "published")
  BY <1>6, <1>8, DatedRow
<1>10. result \in {"published", "pending_review", "rejected"}
  BY DEF ScanResults
<1>11. RowOK(d) /\ d.st # "absent" /\ d.st # "completed"
  BY <1>4, <1>9, <1>10 DEF RowOK, Admitted, PublicStatus
<1>12. Free(i)
  <2> SUFFICES ASSUME NEW v \in Users, claimTx[v].target = i PROVE FALSE
    BY DEF Free
  <2>1. claimTx[v] # NoClaimTx
    BY LostFoundAssumption DEF NoClaimTx
  <2>2. Live(i)
    BY <2>1 DEF ItemIInv, HeldItems
  <2> QED
    BY <1>2, <2>2 DEF Live
<1> QED
  BY <1>7, <1>8, <1>9, <1>11, <1>12, ItemStep, ItemFacts DEF PostItem

LEMMA UpdateItemStep ==
  ASSUME ItemIInv, NEW i \in Items, UpdateItem(i)
  PROVE  ItemIInv'
<1>1. PICK result \in ScanResults :
        /\ result # "published" => Len(items[i].cases) < MaxItemCases
        /\ items' = [items EXCEPT ![i] = Dated(Scanned(items[i], result))]
  BY DEF UpdateItem
<1>2. PICK row : row = Dated(Scanned(items[i], result))
  OBVIOUS
<1>3. RowOK(row) /\ row.st = result /\ row.deleted = items[i].deleted
  BY <1>1, <1>2, Rescanned, ItemFacts
<1>4. row.st # "absent" /\ row.st # "completed"
  BY <1>3, StatusNames
<1>5. Free(i) /\ claims' = claims /\ claimTx' = claimTx /\ itemEdits' \in 0 .. MaxItemEdits
  BY ItemFacts, LostFoundAssumption DEF UpdateItem
<1>6. items' = [items EXCEPT ![i] = row] /\ (row.deleted => items[i].deleted)
  BY <1>1, <1>2, <1>3
<1> QED
  BY <1>3, <1>4, <1>5, <1>6, ItemStep

LEMMA DeleteItemStep ==
  ASSUME ItemIInv, NEW i \in Items, DeleteItem(i)
  PROVE  ItemIInv'
<1> DEFINE a == [items[i] EXCEPT !.st = "deleted"]
           d == [a EXCEPT !.deleted = TRUE]
<1>1. RowOK(d)
  BY DeletedRow, ItemFacts
<1>2. items' = [items EXCEPT ![i] = d]
  BY DEF DeleteItem, ItemIInv, ItemTypeOK
<1>3. d.st = "deleted"
  BY ItemFacts DEF ItemRows
<1> HIDE DEF d
<1>4. /\ Free(i) /\ Active(i) = {} /\ claims' = claims /\ claimTx' = claimTx
      /\ itemEdits' \in 0 .. MaxItemEdits
  BY ItemFacts DEF DeleteItem
<1> QED
  BY <1>1, <1>2, <1>3, <1>4, ItemStep

LEMMA ReportItemStep ==
  ASSUME ItemIInv, NEW i \in Items, ReportItem(i)
  PROVE  ItemIInv'
<1>1. PICK row : row = Reported(items[i])
  OBVIOUS
<1>2. items[i].st # "absent" /\ (OpenCases(items[i]) = {} => Len(items[i].cases) < MaxItemCases)
  BY DEF ReportItem, Live
<1>3. RowOK(row) /\ row.st = items[i].st /\ row.deleted = items[i].deleted
  BY <1>1, <1>2, ReportedRow, ItemFacts
<1>4. /\ Free(i) /\ claims' = claims /\ claimTx' = claimTx /\ itemEdits' \in 0 .. MaxItemEdits
      /\ items' = [items EXCEPT ![i] = row]
  BY <1>1, ItemFacts DEF ReportItem
<1> QED
  BY <1>3, <1>4, ItemStep

LEMMA DecideItemStep ==
  ASSUME ItemIInv, NEW i \in Items, DecideItem(i)
  PROVE  ItemIInv'
<1>1. PICK k \in DOMAIN items[i].cases, decision \in Decisions :
        /\ Decidable(items[i], k)
        /\ items' = [items EXCEPT ![i] =
             IF items[i].deleted \/ decision = "escalated"
             THEN [items[i] EXCEPT !.cases[k] = decision]
             ELSE Dated(Decided(items[i], k, decision))]
  BY DEF DecideItem
<1>2. Free(i) /\ claims' = claims /\ claimTx' = claimTx /\ itemEdits' \in 0 .. MaxItemEdits
  BY ItemFacts DEF DecideItem
<1>3. CASE items[i].deleted \/ decision = "escalated"
  <2>1. PICK row : row = [items[i] EXCEPT !.cases[k] = decision]
    OBVIOUS
  <2>2. RowOK(row) /\ row.st = items[i].st /\ row.deleted = items[i].deleted
    BY <2>1, CaseDecided, ItemFacts
  <2>3. items' = [items EXCEPT ![i] = row]
    BY <1>1, <1>3, <2>1
  <2> QED
    BY <1>2, <2>2, <2>3, ItemStep
<1>4. CASE ~(items[i].deleted \/ decision = "escalated")
  <2>1. PICK row : row = Dated(Decided(items[i], k, decision))
    OBVIOUS
  <2>2. decision \in {"approved", "rejected"}
    BY <1>4 DEF Decisions
  <2>3. items[i].st # "absent" /\ items[i].st # "deleted"
    BY <1>4, ItemFacts, RowFields DEF RowOK
  <2>4. /\ RowOK(row) /\ row.deleted = items[i].deleted
        /\ row.st = IF decision = "approved" THEN "published" ELSE "rejected"
    BY <2>1, <2>2, <2>3, DecidedRow, ItemFacts
  <2>5. items' = [items EXCEPT ![i] = row]
    BY <1>1, <1>4, <2>1
  <2> QED
    BY <1>2, <2>4, <2>5, ItemStep
<1> QED
  BY <1>3, <1>4

-----------------------------------------------------------------------------
(* Claims. *)

(* The items of S get a status; what exists goes on to exist.              *)
LEMMA Marked ==
  ASSUME ItemIInv, NEW S \in SUBSET Items, NEW st \in {"claiming", "published", "completed"},
         \A i \in S : st # "completed" => items[i].dated,
         items' = [i \in Items |-> IF i \in S THEN [items[i] EXCEPT !.st = st] ELSE items[i]]
  PROVE  /\ items' \in [Items -> ItemRows] /\ RowsOK' /\ \A i \in Items : Admitted(items'[i])
         /\ \A i \in Items : /\ Live(i) => Live(i)'
                            /\ items'[i].st = IF i \in S THEN st ELSE items[i].st
<1>1. ASSUME NEW i \in Items
      PROVE  /\ RowOK(items'[i]) /\ (Live(i) => Live(i)')
             /\ items'[i].st = IF i \in S THEN st ELSE items[i].st
  <2>1. CASE i \in S
    <3>1. PICK d : d = [items[i] EXCEPT !.st = st]
      OBVIOUS
    <3>2. RowOK(items[i]) /\ (st # "completed" => items[i].dated)
      BY <2>1, ItemFacts
    <3>3. RowOK(d) /\ d.st = st /\ d.deleted = items[i].deleted
      BY <3>1, <3>2, StatusWritten
    <3>4. items'[i] = d
      BY <2>1, <3>1
    <3> QED
      BY <2>1, <3>3, <3>4 DEF Live
  <2>2. CASE i \notin S
    BY <2>2, ItemFacts DEF Live
  <2> QED
    BY <2>1, <2>2
<1>2. \A i \in Items : items'[i] \in ItemRows /\ Admitted(items'[i])
  BY <1>1 DEF RowOK, Admitted
<1>3. items' \in [Items -> ItemRows]
  BY <1>2
<1> QED
  BY <1>1, <1>2, <1>3 DEF RowsOK

LEMMA Unmarked ==
  ASSUME ItemIInv, items' = items
  PROVE  /\ items' \in [Items -> ItemRows] /\ RowsOK' /\ \A i \in Items : Admitted(items'[i])
         /\ \A i \in Items : Live(i) => Live(i)'
BY DEF ItemIInv, ItemTypeOK, RowsOK, Live

LEMMA CheckStep ==
  ASSUME ItemIInv, NEW u \in Users, Check(u)
  PROVE  ItemIInv'
<1>1. PICK i \in Items, own \in Items \cup {NoItem} :
        /\ Claimable(u, i)
        /\ claimTx' = [claimTx EXCEPT ![u] = [target |-> i, own |-> own]]
  BY DEF Check
<1> DEFINE new == [target |-> i, own |-> own]
<1>2. new \in [target : Items, own : Items \cup {NoItem}] /\ new.target = i
  OBVIOUS
<1>3. claimTx' = [claimTx EXCEPT ![u] = new]
  BY <1>1
<1> HIDE DEF new
<1>4. /\ claimTx' \in [Users -> {NoClaimTx} \cup [target : Items, own : Items \cup {NoItem}]]
      /\ claimTx'[u] = new /\ \A v \in Users \ {u} : claimTx'[v] = claimTx[v]
  BY <1>2, <1>3 DEF ItemIInv, ItemTypeOK
<1>5. items' = items /\ claims' = claims /\ itemEdits' = itemEdits
  BY DEF Check
<1>6. ItemTypeOK' /\ RowsOK'
  BY <1>4, <1>5, Unmarked DEF ItemIInv, ItemTypeOK
<1>7. Live(i) /\ items[i].st \in PublicStatus
  BY <1>1 DEF Claimable
<1>8. HeldItems'
  <2> SUFFICES ASSUME NEW v \in Users, claimTx'[v] # NoClaimTx
               PROVE  Live(claimTx[v].target)' /\ items'[claimTx'[v].target].st \in PublicStatus
    BY DEF HeldItems
  <2>1. CASE v = u
    BY <1>2, <1>4, <1>5, <1>7, <2>1 DEF Live
  <2>2. CASE v # u
    BY <1>4, <1>5, <2>2 DEF ItemIInv, HeldItems, Live
  <2> QED
    BY <2>1, <2>2
<1>9. ActiveClaimKeepsItem' /\ CompletedByBoth'
  BY <1>5 DEF ItemIInv, ActiveClaimKeepsItem, CompletedByBoth, Live
<1> QED
  BY <1>6, <1>8, <1>9 DEF ItemIInv

(* A request ends, and claims and items change.                            *)
LEMMA ClaimStep ==
  ASSUME ItemIInv, itemEdits' = itemEdits,
         claimTx' \in [Users -> {NoClaimTx} \cup [target : Items, own : Items \cup {NoItem}]],
         \A u \in Users : claimTx'[u] = claimTx[u] \/ claimTx'[u] = NoClaimTx,
         items' \in [Items -> ItemRows], RowsOK', \A i \in Items : Admitted(items'[i]),
         \A i \in Items : Live(i) => Live(i)',
         \A u \in Users : claimTx'[u] # NoClaimTx => items'[claimTx[u].target].st \in PublicStatus,
         claims' \in Seq(Claims),
         \A k \in DOMAIN claims' :
            claims'[k].st \in ActiveClaim =>
               claims'[k].target \in Items /\ Live(claims'[k].target),
         \A i \in Items : items'[i].st = "completed" =>
            \E k \in DOMAIN claims' :
               /\ i \in ClaimItems(claims'[k])
               /\ claims'[k].st = "completed"
               /\ claims'[k].byClaimant /\ claims'[k].byOwner
  PROVE  ItemIInv'
<1>1. ItemTypeOK'
  BY DEF ItemIInv, ItemTypeOK
<1>2. HeldItems'
  <2> SUFFICES ASSUME NEW u \in Users, claimTx'[u] # NoClaimTx
               PROVE  Live(claimTx[u].target)' /\ items'[claimTx'[u].target].st \in PublicStatus
    BY DEF HeldItems
  <2>1. claimTx'[u] = claimTx[u] /\ claimTx[u].target \in Items /\ Live(claimTx[u].target)
    BY ClaimTxFields DEF ItemIInv, HeldItems
  <2> QED
    BY <2>1 DEF Live
<1>3. ActiveClaimKeepsItem'
  BY DEF ActiveClaimKeepsItem, Live
<1>4. CompletedByBoth'
  BY DEF CompletedByBoth, ClaimItems
<1> QED
  BY <1>1, <1>2, <1>3, <1>4 DEF ItemIInv

LEMMA SubmitStep ==
  ASSUME ItemIInv, NEW u \in Users, Submit(u)
  PROVE  ItemIInv'
<1> DEFINE i == claimTx[u].target
           new == [target |-> i, own |-> claimTx[u].own, by |-> u,
                   st |-> "pending", byClaimant |-> FALSE, byOwner |-> FALSE]
<1>1. /\ claimTx[u] # NoClaimTx /\ claims' = Append(claims, new) /\ claimTx' = [claimTx EXCEPT ![u] = NoClaimTx]
      /\ items' = [items EXCEPT ![i].st = "claiming"] /\ itemEdits' = itemEdits
  BY DEF Submit
<1>2. i \in Items /\ claimTx[u].own \in Items \cup {NoItem} /\ Live(i) /\ items[i].st \in PublicStatus
  BY <1>1, ClaimTxFields DEF ItemIInv, HeldItems
<1>3. new \in Claims /\ new.target = i /\ new.st = "pending"
  BY <1>2 DEF Claims, ActiveClaim
<1> HIDE DEF new, i
<1>4. claims \in Seq(Claims)
  BY DEF ItemIInv, ItemTypeOK
<1>5. /\ claims' \in Seq(Claims) /\ \A k \in DOMAIN claims : k \in DOMAIN claims' /\ claims'[k] = claims[k]
      /\ \A k \in DOMAIN claims' : k \in DOMAIN claims \/ claims'[k] = new
  BY <1>1, <1>3, <1>4
<1>6. items' = [j \in Items |-> IF j \in {i} THEN [items[j] EXCEPT !.st = "claiming"] ELSE items[j]]
  BY <1>1, <1>2 DEF ItemIInv, ItemTypeOK
<1>7. items[i].dated
  BY <1>2, ItemFacts DEF Admitted
<1>8. /\ items' \in [Items -> ItemRows] /\ RowsOK' /\ \A j \in Items : Admitted(items'[j])
      /\ \A j \in Items : /\ Live(j) => Live(j)'
                         /\ items'[j].st = IF j \in {i} THEN "claiming" ELSE items[j].st
  <2>1. PICK S : S = {i}
    OBVIOUS
  <2>2. S \in SUBSET Items /\ \A j \in S : items[j].dated
    BY <1>2, <1>7, <2>1
  <2> QED
    BY <1>6, <2>1, <2>2, Marked
<1>9. /\ claimTx' \in [Users -> {NoClaimTx} \cup [target : Items, own : Items \cup {NoItem}]]
      /\ \A v \in Users : claimTx'[v] = claimTx[v] \/ claimTx'[v] = NoClaimTx
  BY <1>1 DEF ItemIInv, ItemTypeOK
<1>10. \A v \in Users : claimTx'[v] # NoClaimTx => items'[claimTx[v].target].st \in PublicStatus
  BY <1>8, <1>9, ClaimTxFields DEF ItemIInv, HeldItems, PublicStatus
<1>11. \A k \in DOMAIN claims' : claims'[k].st \in ActiveClaim =>
               claims'[k].target \in Items /\ Live(claims'[k].target)
  BY <1>2, <1>3, <1>5, ClaimFields DEF ItemIInv, ActiveClaimKeepsItem
<1>12. \A j \in Items : items'[j].st = "completed" =>
            \E k \in DOMAIN claims' :
               /\ j \in ClaimItems(claims'[k])
               /\ claims'[k].st = "completed"
               /\ claims'[k].byClaimant /\ claims'[k].byOwner
  BY <1>5, <1>8 DEF ItemIInv, CompletedByBoth
<1> QED
  BY <1>1, <1>5, <1>8, <1>9, <1>10, <1>11, <1>12, ClaimStep

LEMMA RollbackClaimStep ==
  ASSUME ItemIInv, NEW u \in Users, Rollback(u)
  PROVE  ItemIInv'
<1>1. /\ claimTx' \in [Users -> {NoClaimTx} \cup [target : Items, own : Items \cup {NoItem}]]
      /\ \A v \in Users : claimTx'[v] = claimTx[v] \/ claimTx'[v] = NoClaimTx
  BY DEF Rollback, ItemIInv, ItemTypeOK
<1>2. items' = items /\ claims' = claims /\ itemEdits' = itemEdits
  BY DEF Rollback
<1>3. \A v \in Users : claimTx'[v] # NoClaimTx => items'[claimTx[v].target].st \in PublicStatus
  BY <1>1, <1>2 DEF ItemIInv, HeldItems
<1>4. \A k \in DOMAIN claims' : claims'[k].st \in ActiveClaim =>
               claims'[k].target \in Items /\ Live(claims'[k].target)
  BY <1>2, ClaimFields DEF ItemIInv, ActiveClaimKeepsItem
<1>5. \A j \in Items : items'[j].st = "completed" =>
            \E k \in DOMAIN claims' :
               /\ j \in ClaimItems(claims'[k])
               /\ claims'[k].st = "completed"
               /\ claims'[k].byClaimant /\ claims'[k].byOwner
  BY <1>2 DEF ItemIInv, CompletedByBoth
<1>6. claims' \in Seq(Claims)
  BY <1>2 DEF ItemIInv, ItemTypeOK
<1> QED
  BY <1>1, <1>2, <1>3, <1>4, <1>5, <1>6, ClaimStep, Unmarked

(* A claim that is not done gets another status or another confirmation.   *)
LEMMA ClaimRewritten ==
  ASSUME ItemIInv, NEW k \in DOMAIN claims, claims[k].st \in ActiveClaim,
         NEW row \in Claims, row.target = claims[k].target,
         claims' = [claims EXCEPT ![k] = row]
  PROVE  /\ claims' \in Seq(Claims) /\ DOMAIN claims' = DOMAIN claims /\ claims'[k] = row
         /\ \A j \in DOMAIN claims \ {k} : claims'[j] = claims[j]
         /\ \A j \in DOMAIN claims' : claims'[j].st \in ActiveClaim =>
               claims'[j].target \in Items /\ Live(claims'[j].target)
         /\ \A i \in Items : items[i].st = "completed" =>
            \E j \in DOMAIN claims' :
               /\ i \in ClaimItems(claims'[j])
               /\ claims'[j].st = "completed"
               /\ claims'[j].byClaimant /\ claims'[j].byOwner
<1>1. claims \in Seq(Claims)
  BY DEF ItemIInv, ItemTypeOK
<1>2. /\ claims' \in Seq(Claims) /\ DOMAIN claims' = DOMAIN claims /\ claims'[k] = row
      /\ \A j \in DOMAIN claims \ {k} : claims'[j] = claims[j]
  BY <1>1
<1>3. \A j \in DOMAIN claims' : claims'[j].st \in ActiveClaim =>
               claims'[j].target \in Items /\ Live(claims'[j].target)
  BY <1>2, ClaimFields DEF ItemIInv, ActiveClaimKeepsItem
<1>4. claims[k].st # "completed"
  BY DEF ActiveClaim
<1>5. \A i \in Items : items[i].st = "completed" =>
            \E j \in DOMAIN claims' :
               /\ i \in ClaimItems(claims'[j])
               /\ claims'[j].st = "completed"
               /\ claims'[j].byClaimant /\ claims'[j].byOwner
  BY <1>2, <1>4 DEF ItemIInv, CompletedByBoth
<1> QED
  BY <1>2, <1>3, <1>5

LEMMA TxSame ==
  ASSUME ItemIInv, claimTx' = claimTx
  PROVE  /\ claimTx' \in [Users -> {NoClaimTx} \cup [target : Items, own : Items \cup {NoItem}]]
         /\ \A v \in Users : claimTx'[v] = claimTx[v] \/ claimTx'[v] = NoClaimTx
BY DEF ItemIInv, ItemTypeOK

LEMMA VerifyStep ==
  ASSUME ItemIInv, NEW k \in DOMAIN claims, Verify(k)
  PROVE  ItemIInv'
<1> DEFINE row == [claims[k] EXCEPT !.st = "verified"]
<1>1. row \in Claims /\ row.target = claims[k].target /\ row.st = "verified"
  BY ClaimFields DEF Claims, ActiveClaim
<1>2. /\ claims' = [claims EXCEPT ![k] = row] /\ claims[k].st \in ActiveClaim
      /\ items' = items /\ claimTx' = claimTx /\ itemEdits' = itemEdits
  BY DEF Verify, ActiveClaim
<1> HIDE DEF row
<1>3. \A v \in Users : claimTx'[v] # NoClaimTx => items'[claimTx[v].target].st \in PublicStatus
  BY <1>2 DEF ItemIInv, HeldItems
<1> QED
  BY <1>1, <1>2, <1>3, ClaimRewritten, ClaimStep, Unmarked, TxSame

LEMMA RejectStep ==
  ASSUME ItemIInv, NEW k \in DOMAIN claims, Reject(k)
  PROVE  ItemIInv'
<1> DEFINE i == claims[k].target
           row == [claims[k] EXCEPT !.st = "rejected"]
<1>1. row \in Claims /\ row.target = i /\ i \in Items
  BY ClaimFields DEF Claims, FinalClaim
<1>2. /\ claims' = [claims EXCEPT ![k] = row] /\ claims[k].st \in ActiveClaim
      /\ claimTx' = claimTx /\ itemEdits' = itemEdits /\ Free(i)
      /\ Active(i) = {k} => items[i].dated
      /\ items' = IF Active(i) = {k} THEN [items EXCEPT ![i].st = "published"] ELSE items
  BY DEF Reject, Rejectable, ActiveClaim
<1> HIDE DEF row, i
<1>3. /\ claims' \in Seq(Claims)
      /\ \A j \in DOMAIN claims' : claims'[j].st \in ActiveClaim =>
            claims'[j].target \in Items /\ Live(claims'[j].target)
      /\ \A j \in Items : items[j].st = "completed" =>
            \E c \in DOMAIN claims' :
               /\ j \in ClaimItems(claims'[c])
               /\ claims'[c].st = "completed"
               /\ claims'[c].byClaimant /\ claims'[c].byOwner
  BY <1>1, <1>2, ClaimRewritten DEF i
<1>4. CASE Active(i) = {k}
  <2>1. items' = [j \in Items |-> IF j \in {i} THEN [items[j] EXCEPT !.st = "published"] ELSE items[j]]
    BY <1>1, <1>2, <1>4 DEF ItemIInv, ItemTypeOK
  <2>2. /\ items' \in [Items -> ItemRows] /\ RowsOK' /\ \A j \in Items : Admitted(items'[j])
        /\ \A j \in Items : /\ Live(j) => Live(j)'
                           /\ items'[j].st = IF j \in {i} THEN "published" ELSE items[j].st
    <3>1. PICK S : S = {i}
      OBVIOUS
    <3>2. S \in SUBSET Items /\ \A j \in S : items[j].dated
      BY <1>1, <1>2, <1>4, <3>1
    <3> QED
      BY <2>1, <3>1, <3>2, Marked
  <2>3. \A v \in Users : claimTx'[v] # NoClaimTx => items'[claimTx[v].target].st \in PublicStatus
    BY <1>2, <2>2, ClaimTxFields DEF ItemIInv, HeldItems, PublicStatus
  <2> QED
    <3>1. \A j \in Items : items'[j].st = "completed" => items[j].st = "completed"
      BY <2>2
    <3>2. \A j \in Items : items'[j].st = "completed" =>
            \E c \in DOMAIN claims' :
               /\ j \in ClaimItems(claims'[c])
               /\ claims'[c].st = "completed"
               /\ claims'[c].byClaimant /\ claims'[c].byOwner
      BY <1>3, <3>1
    <3> QED
      BY <1>2, <1>3, <2>2, <2>3, <3>2, ClaimStep, TxSame
<1>5. CASE Active(i) # {k}
  <2>1. \A v \in Users : claimTx'[v] # NoClaimTx => items'[claimTx[v].target].st \in PublicStatus
    BY <1>2, <1>5 DEF ItemIInv, HeldItems
  <2> QED
    BY <1>2, <1>3, <1>5, <2>1, ClaimStep, Unmarked, TxSame
<1> QED
  BY <1>4, <1>5

LEMMA CompleteStep ==
  ASSUME ItemIInv, NEW u \in Users, NEW k \in DOMAIN claims, Complete(u, k)
  PROVE  ItemIInv'
<1> DEFINE c == claims[k]
           a == [c EXCEPT !.byClaimant = @ \/ u = c.by]
           confirmed == [a EXCEPT !.byOwner = @ \/ u = items[c.target].owner]
           row == IF Confirmed(confirmed) THEN [confirmed EXCEPT !.st = "completed"] ELSE confirmed
<1>1. /\ c \in Claims /\ c.target \in Items /\ ClaimItems(c) \subseteq Items
      /\ c.st \in ActiveClaim /\ c.own \in Items \cup {NoItem}
  BY ClaimFields DEF Complete, ActiveClaim
<1>2. /\ confirmed \in Claims /\ confirmed.target = c.target /\ confirmed.own = c.own
      /\ confirmed.st = c.st
  BY <1>1 DEF Claims
<1>3. /\ \A i \in ClaimItems(c) : Free(i)
      /\ claims' = [claims EXCEPT ![k] = row]
      /\ claimTx' = claimTx /\ itemEdits' = itemEdits
      /\ items' = IF Confirmed(confirmed)
                  THEN [i \in Items |-> IF i \in ClaimItems(c)
                          THEN [items[i] EXCEPT !.st = "completed"] ELSE items[i]]
                  ELSE items
  BY <1>1 DEF Complete, Claims
<1> HIDE DEF confirmed, a
<1>4. /\ row \in Claims /\ row.target = c.target /\ row.own = c.own
      /\ Confirmed(confirmed) => row.st = "completed" /\ row.byClaimant /\ row.byOwner
  <2>1. CASE Confirmed(confirmed)
    BY <1>2, <2>1 DEF Claims, FinalClaim, Confirmed
  <2>2. CASE ~Confirmed(confirmed)
    BY <1>2, <2>2
  <2> QED
    BY <2>1, <2>2
<1> HIDE DEF row
<1>5. /\ claims' \in Seq(Claims) /\ DOMAIN claims' = DOMAIN claims /\ claims'[k] = row
      /\ \A j \in DOMAIN claims' : claims'[j].st \in ActiveClaim =>
            claims'[j].target \in Items /\ Live(claims'[j].target)
      /\ \A i \in Items : items[i].st = "completed" =>
            \E j \in DOMAIN claims' :
               /\ i \in ClaimItems(claims'[j])
               /\ claims'[j].st = "completed"
               /\ claims'[j].byClaimant /\ claims'[j].byOwner
  BY <1>1, <1>3, <1>4, ClaimRewritten
<1>6. ClaimItems(row) = ClaimItems(c)
  BY <1>4 DEF ClaimItems
<1> HIDE DEF c
<1>7. CASE Confirmed(confirmed)
  <2>1. items' = [i \in Items |-> IF i \in ClaimItems(c)
                    THEN [items[i] EXCEPT !.st = "completed"] ELSE items[i]]
    BY <1>3, <1>7
  <2>2. /\ items' \in [Items -> ItemRows] /\ RowsOK' /\ \A i \in Items : Admitted(items'[i])
        /\ \A i \in Items : /\ Live(i) => Live(i)'
                           /\ items'[i].st = IF i \in ClaimItems(c) THEN "completed" ELSE items[i].st
    <3>1. PICK S : S = ClaimItems(c)
      OBVIOUS
    <3> QED
      BY <1>1, <2>1, <3>1, Marked
  <2>3. \A v \in Users : claimTx'[v] # NoClaimTx => items'[claimTx[v].target].st \in PublicStatus
    <3> SUFFICES ASSUME NEW v \in Users, claimTx'[v] # NoClaimTx
                 PROVE  items'[claimTx[v].target].st \in PublicStatus
      OBVIOUS
    <3>1. claimTx[v].target \in Items /\ claimTx[v].target \notin ClaimItems(c)
      BY <1>3, ClaimTxFields DEF Free
    <3> QED
      BY <1>3, <2>2, <3>1 DEF ItemIInv, HeldItems
  <2>4. \A i \in Items : items'[i].st = "completed" =>
            \E j \in DOMAIN claims' :
               /\ i \in ClaimItems(claims'[j])
               /\ claims'[j].st = "completed"
               /\ claims'[j].byClaimant /\ claims'[j].byOwner
    BY <1>4, <1>5, <1>6, <1>7, <2>2
  <2> QED
    BY <1>3, <1>5, <2>2, <2>3, <2>4, ClaimStep, TxSame
<1>8. CASE ~Confirmed(confirmed)
  <2>1. items' = items
    BY <1>3, <1>8
  <2>2. \A v \in Users : claimTx'[v] # NoClaimTx => items'[claimTx[v].target].st \in PublicStatus
    BY <1>3, <2>1 DEF ItemIInv, HeldItems
  <2> QED
    BY <1>3, <1>5, <2>1, <2>2, ClaimStep, Unmarked, TxSame
<1> QED
  BY <1>7, <1>8

-----------------------------------------------------------------------------
LEMMA ItemInitIInv == ItemInit => ItemIInv
<1> SUFFICES ASSUME ItemInit PROVE ItemIInv
  OBVIOUS
<1>1. PICK u \in Users :
        items = [i \in Items |->
                   [st |-> "absent", case |-> 0, cases |-> <<>>, owner |-> u,
                    kind |-> "lost", deleted |-> FALSE, dated |-> FALSE]]
  BY DEF ItemInit
<1>2. PICK row : row = [st |-> "absent", case |-> 0, cases |-> <<>>, owner |-> u,
                        kind |-> "lost", deleted |-> FALSE, dated |-> FALSE]
  OBVIOUS
<1>3. /\ row \in ItemRows /\ row.st = "absent" /\ row.case = 0 /\ Len(row.cases) = 0
      /\ ~row.deleted
  BY <1>2 DEF ItemRows, ItemStatus, Kinds
<1>4. RowOK(row)
  BY <1>3, LostFoundAssumption DEF RowOK, Admitted, PublicStatus
<1>5. items = [i \in Items |-> row]
  BY <1>1, <1>2
<1>6. items \in [Items -> ItemRows] /\ RowsOK /\ \A i \in Items : Admitted(items[i])
  BY <1>3, <1>4, <1>5 DEF RowsOK, RowOK
<1>7. claims \in Seq(Claims) /\ DOMAIN claims = {}
  BY DEF ItemInit
<1>8. /\ claimTx \in [Users -> {NoClaimTx} \cup [target : Items, own : Items \cup {NoItem}]]
      /\ \A v \in Users : claimTx[v] = NoClaimTx
  BY DEF ItemInit
<1>9. itemEdits \in 0 .. MaxItemEdits
  BY LostFoundAssumption DEF ItemInit
<1>10. ItemTypeOK
  BY <1>6, <1>7, <1>8, <1>9 DEF ItemTypeOK
<1>11. HeldItems /\ ActiveClaimKeepsItem
  BY <1>7, <1>8 DEF HeldItems, ActiveClaimKeepsItem
<1>12. CompletedByBoth
  BY <1>3, <1>5 DEF CompletedByBoth
<1> QED
  BY <1>6, <1>10, <1>11, <1>12 DEF ItemIInv

LEMMA ItemNextIInv == ItemIInv /\ [ItemNext]_itemVars => ItemIInv'
<1> SUFFICES ASSUME ItemIInv, [ItemNext]_itemVars PROVE ItemIInv'
  OBVIOUS
<1>1. CASE UNCHANGED itemVars
  BY <1>1 DEF itemVars, ItemIInv, ItemTypeOK, RowsOK, HeldItems, ActiveClaimKeepsItem, CompletedByBoth, Live
<1>2. ASSUME NEW i \in Items, PostItem(i) \/ UpdateItem(i) \/ DeleteItem(i) \/ ReportItem(i) \/ DecideItem(i)
      PROVE  ItemIInv'
  BY <1>2, PostItemStep, UpdateItemStep, DeleteItemStep, ReportItemStep, DecideItemStep
<1>3. ASSUME NEW u \in Users, Check(u) \/ Submit(u) \/ Rollback(u) PROVE ItemIInv'
  BY <1>3, CheckStep, SubmitStep, RollbackClaimStep
<1>4. ASSUME NEW k \in DOMAIN claims,
             Verify(k) \/ Reject(k) \/ \E u \in Users : Complete(u, k)
      PROVE  ItemIInv'
  BY <1>4, VerifyStep, RejectStep, CompleteStep
<1> QED
  BY <1>1, <1>2, <1>3, <1>4 DEF ItemNext

LEMMA ItemInvariance == ItemSpec => []ItemIInv
BY ItemInitIInv, ItemNextIInv, PTL DEF ItemSpec

(* Rows hold what their constraints admit: the status a claim, a scan or a *)
(* decision writes never leaves a public item without a publication date.  *)
THEOREM ItemTypeCorrect == ItemSpec => []ItemTypeOK
BY ItemInvariance, PTL DEF ItemIInv

(* The owner cannot delete an item from under a claim: the claim holds the *)
(* item from its checks to its insert, and delete() counts the active ones.*)
THEOREM ClaimsKeepTheirItems == ItemSpec => []ActiveClaimKeepsItem
BY ItemInvariance, PTL DEF ItemIInv

(* An item is completed only by a claim both sides confirmed, whichever    *)
(* confirmed first and whatever moderation did in between.                 *)
THEOREM BothConfirm == ItemSpec => []CompletedByBoth
BY ItemInvariance, PTL DEF ItemIInv

-----------------------------------------------------------------------------
(* What a decision writes on its case.                                     *)
LEMMA DecidedCase ==
  ASSUME NEW c \in ItemRows, NEW k \in DOMAIN c.cases, NEW decision \in Decisions,
         NEW d, d = Dated(Decided(c, k, decision))
  PROVE  d.cases[k] = decision
<1> DEFINE cs == [c.cases EXCEPT ![k] = decision]
<1>1. PICK b : b = Decided(c, k, decision)
  OBVIOUS
<1>2. c.cases \in Seq(CaseStatus)
  BY RowFields
<1>3. cs[k] = decision
  BY <1>2
<1>4. b.cases = cs
  BY <1>1 DEF Decided, ItemRows
<1>5. d.cases = b.cases
  BY <1>1 DEF Dated, Decided, ItemRows
<1> QED
  BY <1>3, <1>4, <1>5

(* An item that is refused, or waits for review, comes back into public    *)
(* view only with a new text or by an approval of its open case: a claim   *)
(* on it that is submitted or rejected does not bring it back.             *)
THEOREM RefusedStaysRefused == ItemSpec => RefusedReturnsByReview
<1>1. ASSUME ItemIInv, [ItemNext]_itemVars
      PROVE  [\A i \in Items :
                /\ items[i].st \in {"rejected", "pending_review"}
                /\ items'[i].st \in PublicStatus
                => \/ itemEdits' > itemEdits
                   \/ \E k \in OpenCases(items[i]) : items'[i].cases[k] = "approved"]_itemVars
  <2> SUFFICES ASSUME ItemNext, NEW i \in Items,
                      items[i].st \in {"rejected", "pending_review"},
                      items'[i].st \in PublicStatus
               PROVE  \/ itemEdits' > itemEdits
                      \/ \E k \in OpenCases(items[i]) : items'[i].cases[k] = "approved"
    BY <1>1
  <2> USE <1>1
  <2>0. items[i].st \notin PublicStatus /\ ~items[i].dated /\ items \in [Items -> ItemRows]
    BY ItemFacts DEF RowOK, PublicStatus, ItemIInv, ItemTypeOK
  <2>1. ASSUME NEW j \in Items, PostItem(j) PROVE FALSE
    <3>1. i # j
      BY <2>1 DEF PostItem
    <3> QED
      BY <2>0, <2>1, <3>1 DEF PostItem
  <2>2. ASSUME NEW j \in Items, UpdateItem(j) PROVE itemEdits' > itemEdits
    BY <2>2, ItemFacts DEF UpdateItem
  <2>3. ASSUME NEW j \in Items, DeleteItem(j) PROVE FALSE
    <3>1. j = i => items'[i].st = "deleted"
      BY <2>0, <2>3 DEF DeleteItem, ItemRows
    <3>2. j # i => items'[i] = items[i]
      BY <2>0, <2>3 DEF DeleteItem
    <3> QED
      BY <2>0, <3>1, <3>2 DEF PublicStatus
  <2>4. ASSUME NEW j \in Items, ReportItem(j) PROVE FALSE
    <3>1. j = i => items'[i] = Reported(items[i])
      BY <2>0, <2>4 DEF ReportItem
    <3>2. j # i => items'[i] = items[i]
      BY <2>0, <2>4 DEF ReportItem
    <3>3. j = i => Reported(items[i]).st = items[i].st
      BY <2>4, ReportedRow, ItemFacts DEF ReportItem, Live
    <3> QED
      BY <2>0, <3>1, <3>2, <3>3
  <2>5. ASSUME NEW j \in Items, DecideItem(j)
        PROVE  \E k \in OpenCases(items[i]) : items'[i].cases[k] = "approved"
    <3>1. PICK k \in DOMAIN items[j].cases, decision \in Decisions :
            /\ Decidable(items[j], k)
            /\ items' = [items EXCEPT ![j] =
                 IF items[j].deleted \/ decision = "escalated"
                 THEN [items[j] EXCEPT !.cases[k] = decision]
                 ELSE Dated(Decided(items[j], k, decision))]
      BY <2>5 DEF DecideItem
    <3>2. j = i
      BY <2>0, <3>1
    <3>3. ASSUME items[i].deleted \/ decision = "escalated" PROVE FALSE
      <4>1. items'[i] = [items[i] EXCEPT !.cases[k] = decision]
        BY <2>0, <3>1, <3>2, <3>3
      <4>2. items'[i].st = items[i].st
        BY <2>0, <4>1 DEF ItemRows
      <4> QED
        BY <2>0, <4>2
    <3>4. PICK d : d = Dated(Decided(items[i], k, decision))
      OBVIOUS
    <3>5. items'[i] = d
      BY <2>0, <3>1, <3>2, <3>3, <3>4
    <3>6. d.cases[k] = decision
      BY <2>0, <3>1, <3>2, <3>4, DecidedCase
    <3>7. decision # "rejected"
      <4> SUFFICES ASSUME decision = "rejected" PROVE FALSE
        OBVIOUS
      <4>1. /\ RowOK(items[i]) /\ k \in DOMAIN items[i].cases
            /\ items[i].st # "deleted" /\ items[i].st # "absent"
        BY <3>1, <3>2, ItemFacts
      <4>2. d.st = "rejected"
        BY <3>4, <4>1, DecidedRow
      <4> QED
        BY <3>5, <4>2 DEF PublicStatus
    <3>8. decision = "approved"
      BY <3>3, <3>7 DEF Decisions
    <3> QED
      BY <3>1, <3>2, <3>5, <3>6, <3>8 DEF Decidable
  <2>6. ASSUME NEW u \in Users, Check(u) \/ Rollback(u) PROVE FALSE
    BY <2>0, <2>6 DEF Check, Rollback
  <2>7. ASSUME NEW u \in Users, Submit(u) PROVE FALSE
    <3>1. claimTx[u].target # i
      BY <2>0, <2>7 DEF Submit, ItemIInv, HeldItems
    <3> QED
      BY <2>0, <2>7, <3>1 DEF Submit
  <2>8. ASSUME NEW k \in DOMAIN claims, Verify(k) PROVE FALSE
    BY <2>0, <2>8 DEF Verify
  <2>9. ASSUME NEW k \in DOMAIN claims, Reject(k) PROVE FALSE
    <3>1. Active(claims[k].target) = {k} => claims[k].target # i
      BY <2>0, <2>9 DEF Reject, Rejectable
    <3> QED
      BY <2>0, <2>9, <3>1 DEF Reject
  <2>10. ASSUME NEW u \in Users, NEW k \in DOMAIN claims, Complete(u, k) PROVE FALSE
    <3>1. \/ items' = items
          \/ items' = [j \in Items |-> IF j \in ClaimItems(claims[k])
                          THEN [items[j] EXCEPT !.st = "completed"] ELSE items[j]]
      BY <2>10 DEF Complete
    <3>2. [items[i] EXCEPT !.st = "completed"].st = "completed"
      BY <2>0 DEF ItemRows
    <3>3. items'[i] = items[i] \/ items'[i] = [items[i] EXCEPT !.st = "completed"]
      BY <3>1
    <3> QED
      BY <2>0, <3>2, <3>3 DEF PublicStatus
  <2> QED
    BY <2>1, <2>2, <2>3, <2>4, <2>5, <2>6, <2>7, <2>8, <2>9, <2>10 DEF ItemNext
<1> QED
  BY <1>1, ItemInvariance, PTL DEF ItemSpec, RefusedReturnsByReview

-----------------------------------------------------------------------------
(* A post with its comments, reactions and reports.                        *)

(* A row is held by one request, and a request locks its rows in the order *)
(* of its statements: it holds what comes before the row it has or wants.  *)
Wants(q, row) ==
    \/ /\ q.op \in {"topic_archive", "topic_delete", "post_create"}
       /\ row = TopicRow(q.t)
    \/ /\ q.op \in {"post_delete", "reaction_put", "reaction_delete"}
       /\ row = Row(0)
    \/ /\ q.op = "post_update"
       /\ \/ row = Row(0)
          \/ row = TopicRow(q.t) /\ Row(0) \in q.held
    \/ /\ q.op = "comment_create"
       /\ \/ row = Row(0)
          \/ q.k # 0 /\ row = Row(q.k) /\ Row(0) \in q.held
    \/ /\ q.op \in {"comment_update", "comment_delete"}
       /\ \/ row = Row(q.x)
          \/ row = Row(0) /\ Row(q.x) \in q.held
    \/ /\ q.op = "report"
       /\ \/ row = Row(q.x)
          \/ (\E k \in Nat : row = CaseRow(q.x, k)) /\ Row(q.x) \in q.held
    \/ /\ q.op = "decide"
       /\ \/ row = CaseRow(q.x, q.k)
          \/ row = Row(q.x) /\ CaseRow(q.x, q.k) \in q.held
          \/ row = Row(0) /\ {CaseRow(q.x, q.k), Row(q.x)} \subseteq q.held

InOrder == \A s \in Sessions : \A row \in tx[s].held : Wants(tx[s], row)
OneHolder ==
    \A s, r \in Sessions : s # r => tx[s].held \cap tx[r].held = {}

(* What a request asks for fits its operation: a comment to be written is  *)
(* still unused, what is changed, reported or decided exists or existed.   *)
Fits(q, b) ==
    /\ q.op \in {"post_create", "post_update", "topic_archive", "topic_delete"}
           => q.t \in Topics
    /\ q.op \in {"comment_create", "comment_update", "comment_delete"}
           => q.x \in Comments
    /\ q.op \in {"reaction_put", "reaction_delete", "report"} => q.u \in Users
    /\ q.op = "decide" => q.d \in Decisions
    /\ q.op \in {"comment_update", "comment_delete", "report", "decide"}
           => b[q.x].st # "none"
    /\ q.op = "comment_create" => b[q.x].st = "none" /\ q.k \in Contents
AllFit == \A s \in Sessions : Fits(tx[s], body)
OneCreator ==
    \A s, r \in Sessions :
        /\ tx[s].op = "comment_create" /\ tx[r].op = "comment_create"
        /\ tx[s].x = tx[r].x
        => s = r

Unused == \A x \in Contents : body[x].st = "none" => body[x].cases = <<>>

PublishedComments == {x \in Comments : Published(x)}
PostReporters == {u \in Users : <<u, 0>> \in reports}
FiniteRows ==
    IsFiniteSet(PublishedComments) /\ IsFiniteSet(likes) /\ IsFiniteSet(PostReporters)

(* The parts about the requests, about the contents and about the counters. *)
Locks == InOrder /\ OneHolder
Requested == tx \in [Sessions -> TxFields] /\ AllFit /\ OneCreator
Bodies ==
    /\ body \in [Contents -> [st : ScanResults \cup {"none", "deleted"},
                              case : Nat, cases : Seq(CaseStatus), ver : Nat]]
    /\ Unused
Counters ==
    /\ FiniteRows /\ CountsAreExact
    /\ likes \subseteq Users /\ reports \subseteq Users \X Contents
Places ==
    /\ topic \in [Topics -> {"active", "archived", "deleted"}]
    /\ place \in Topics /\ NoPostInDeletedTopic
ThreadIInv == Locks /\ Requested /\ Bodies /\ Counters /\ Places /\ work \in Nat

(* Rows of different kinds or numbers are different rows. *)
LEMMA RowsDiffer ==
  /\ \A x, y : Row(x) = Row(y) => x = y
  /\ \A t, x : TopicRow(t) # Row(x)
  /\ \A t, u : TopicRow(t) = TopicRow(u) => t = u
  /\ \A x, k, y, j : CaseRow(x, k) = CaseRow(y, j) => x = y /\ k = j
  /\ \A x, k, y : CaseRow(x, k) # Row(y) /\ CaseRow(x, k) # TopicRow(y)
  BY DEF Row, TopicRow, CaseRow

(* The first of the rows a request still misses: it does not hold it, and  *)
(* it holds those before.                                                  *)
LEMMA WantedIs ==
  ASSUME NEW s \in Sessions, DOMAIN Rows(tx[s]) \subseteq Nat, Missing(s) # {}
  PROVE  \E i \in DOMAIN Rows(tx[s]) :
           /\ Wanted(s) = Rows(tx[s])[i]
           /\ Wanted(s) \notin tx[s].held
           /\ \A j \in DOMAIN Rows(tx[s]) : j < i => Rows(tx[s])[j] \in tx[s].held
<1>1. Missing(s) \in SUBSET Nat
  BY DEF Missing
<1>2. FirstOf(Missing(s)) \in Missing(s) /\ \A j \in Missing(s) : FirstOf(Missing(s)) <= j
  BY <1>1, FirstExists
<1>3. FirstOf(Missing(s)) \in DOMAIN Rows(tx[s]) /\ Wanted(s) \notin tx[s].held
  BY <1>2 DEF Missing, Wanted
<1>4. ASSUME NEW j \in DOMAIN Rows(tx[s]), j < FirstOf(Missing(s))
      PROVE  Rows(tx[s])[j] \in tx[s].held
  <2>1. j \in Nat /\ FirstOf(Missing(s)) \in Nat
    BY <1>1, <1>2
  <2>2. j \notin Missing(s)
    BY <1>2, <1>4, <2>1
  <2> QED
    BY <2>2 DEF Missing
<1> QED
  BY <1>3, <1>4 DEF Wanted

(* The rows of a decision, one by one. *)
LEMMA DecideRowsAre ==
  ASSUME NEW q
  PROVE  /\ DOMAIN DecideRows(q) \subseteq Nat
         /\ {1, 2} \subseteq DOMAIN DecideRows(q)
         /\ DecideRows(q)[1] = CaseRow(q.x, q.k) /\ DecideRows(q)[2] = Row(q.x)
         /\ \A i \in DOMAIN DecideRows(q) :
              i = 1 \/ i = 2 \/ (i > 2 /\ DecideRows(q)[i] = Row(0))
<1>1. CASE Republishes(q)
  <2> DEFINE first == <<CaseRow(q.x, q.k), Row(q.x)>>
             last == <<Row(0)>>
             S == {CaseRow(q.x, q.k), Row(q.x), Row(0)}
  <2>1. first \in Seq(S) /\ last \in Seq(S) /\ Len(first) = 2 /\ Len(last) = 1
    OBVIOUS
  <2>2. DecideRows(q) = first \o last
    BY <1>1 DEF DecideRows
  <2>3. /\ DecideRows(q) \in Seq(S) /\ Len(DecideRows(q)) = 3
        /\ \A i \in 1 .. 3 : DecideRows(q)[i] = IF i <= 2 THEN first[i] ELSE last[i - 2]
    BY <2>1, <2>2, ConcatProperties
  <2>4. DOMAIN DecideRows(q) = 1 .. 3
    BY <2>3
  <2> QED
    BY <2>3, <2>4
<1>2. CASE ~Republishes(q)
  <2>1. DecideRows(q) = <<CaseRow(q.x, q.k), Row(q.x)>>
    BY <1>2 DEF DecideRows
  <2> QED
    BY <2>1
<1> QED
  BY <1>1, <1>2

(* Whatever a request wants next comes after the rows it holds. *)
LEMMA WantsNext ==
  ASSUME ThreadIInv, NEW s \in Sessions, tx[s].op # "idle", Missing(s) # {}
  PROVE  Wants(tx[s], Wanted(s)) /\ Wanted(s) \notin tx[s].held
<1> DEFINE q == tx[s]
<1>1. q \in TxFields /\ q.op \in Operations
  BY DEF ThreadIInv, Requested, TxFields
<1>2. q.x \in Contents /\ body[q.x].cases \in Seq(CaseStatus)
  BY <1>1 DEF TxFields, ThreadIInv, Bodies
<1>3. OpenCases(body[q.x]) \in SUBSET Nat
  BY <1>2 DEF OpenCases
<1>4. CASE q.op \in {"topic_archive", "topic_delete", "post_create"}
  <2>1. Rows(q) = <<TopicRow(q.t)>>
    BY <1>4 DEF Rows, TopicRows, PostRows
  <2> QED
    BY <1>4, <2>1, WantedIs DEF Wants
<1>5. CASE q.op = "post_update"
  <2>1. Rows(q) = IF q.t # place THEN <<Row(0), TopicRow(q.t)>> ELSE <<Row(0)>>
    BY <1>5 DEF Rows, PostRows
  <2>2. CASE q.t # place
    <3>1. Rows(q) = <<Row(0), TopicRow(q.t)>>
      BY <2>1, <2>2
    <3> QED
      BY <1>5, <3>1, WantedIs DEF Wants
  <2>3. CASE q.t = place
    <3>1. Rows(q) = <<Row(0)>>
      BY <2>1, <2>3
    <3> QED
      BY <1>5, <3>1, WantedIs DEF Wants
  <2> QED
    BY <2>2, <2>3
<1>6. CASE q.op \in {"post_delete", "reaction_put", "reaction_delete"}
  <2>1. Rows(q) = <<Row(0)>>
    BY <1>6 DEF Rows, PostRows
  <2> QED
    BY <1>6, <2>1, WantedIs DEF Wants
<1>7. CASE q.op = "comment_create"
  <2>1. CASE q.k = 0
    <3>1. Rows(q) = <<Row(0)>>
      BY <1>7, <2>1 DEF Rows, CreateRows
    <3> QED
      BY <1>7, <3>1, WantedIs DEF Wants
  <2>2. CASE q.k # 0
    <3>1. Rows(q) = <<Row(0), Row(q.k)>>
      BY <1>7, <2>2 DEF Rows, CreateRows
    <3> QED
      BY <1>7, <2>2, <3>1, WantedIs DEF Wants
  <2> QED
    BY <2>1, <2>2
<1>8. CASE q.op \in {"comment_update", "comment_delete"}
  <2>1. Rows(q) = <<Row(q.x), Row(0)>> \/ Rows(q) = <<Row(q.x)>>
    BY <1>8 DEF Rows, ChangeRows
  <2>2. CASE Rows(q) = <<Row(q.x), Row(0)>>
    BY <1>8, <2>2, WantedIs DEF Wants
  <2>3. CASE Rows(q) = <<Row(q.x)>>
    BY <1>8, <2>3, WantedIs DEF Wants
  <2> QED
    BY <2>1, <2>2, <2>3
<1>9. CASE q.op = "report"
  <2>1. CASE <<q.u, q.x>> \in reports \/ OpenCases(body[q.x]) = {}
    <3>1. Rows(q) = <<Row(q.x)>>
      BY <1>9, <2>1 DEF Rows, ReportRows
    <3> QED
      BY <1>9, <3>1, WantedIs DEF Wants
  <2>2. CASE ~(<<q.u, q.x>> \in reports \/ OpenCases(body[q.x]) = {})
    <3> DEFINE k == FirstOf(OpenCases(body[q.x]))
    <3>1. Rows(q) = <<Row(q.x), CaseRow(q.x, k)>>
      BY <1>9, <2>2 DEF Rows, ReportRows
    <3>2. k \in Nat
      BY <1>3, <2>2, FirstExists
    <3> HIDE DEF k
    <3> QED
      BY <1>9, <3>1, <3>2, WantedIs DEF Wants
  <2> QED
    BY <2>1, <2>2
<1>10. CASE q.op = "decide"
  <2>1. Rows(q) = DecideRows(q)
    BY <1>10 DEF Rows
  <2>2. PICK i \in DOMAIN DecideRows(q) :
          /\ Wanted(s) = DecideRows(q)[i]
          /\ Wanted(s) \notin tx[s].held
          /\ \A j \in DOMAIN DecideRows(q) : j < i => DecideRows(q)[j] \in tx[s].held
    BY <2>1, WantedIs, DecideRowsAre
  <2>3. CASE i = 1
    BY <1>10, <2>2, <2>3, DecideRowsAre DEF Wants
  <2>4. CASE i = 2
    BY <1>10, <2>2, <2>4, DecideRowsAre DEF Wants
  <2>5. CASE i > 2 /\ DecideRows(q)[i] = Row(0)
    BY <1>10, <2>2, <2>5, DecideRowsAre DEF Wants
  <2> QED
    BY <2>3, <2>4, <2>5, DecideRowsAre
<1> QED
  BY <1>1, <1>4, <1>5, <1>6, <1>7, <1>8, <1>9, <1>10 DEF Operations

(* Two requests that wait for each other: each wants a row after those it  *)
(* holds, and holds what the other wants.                                  *)
LEMMA WaitFacts ==
  ASSUME ThreadIInv, NEW s \in Sessions, NEW r \in Sessions, Deadlocked(s, r)
  PROVE  \E a, b :
           /\ Wants(tx[s], a) /\ Wants(tx[s], b) /\ Wants(tx[r], a) /\ Wants(tx[r], b)
           /\ a \in tx[r].held /\ b \in tx[s].held
           /\ a \notin tx[s].held /\ b \notin tx[r].held
<1>1. /\ tx[s].op # "idle" /\ Missing(s) # {} /\ Wanted(s) \in tx[r].held
      /\ tx[r].op # "idle" /\ Missing(r) # {} /\ Wanted(r) \in tx[s].held
  BY DEF Deadlocked, WaitsFor, Waits
<1>2. /\ Wants(tx[s], Wanted(s)) /\ Wanted(s) \notin tx[s].held
      /\ Wants(tx[r], Wanted(r)) /\ Wanted(r) \notin tx[r].held
  BY <1>1, WantsNext
<1>3. Wants(tx[r], Wanted(s)) /\ Wants(tx[s], Wanted(r))
  BY <1>1 DEF ThreadIInv, Locks, InOrder
<1> QED
  BY <1>1, <1>2, <1>3

(* The fields of a request that the argument about pairs needs. *)
LEMMA QueryFields ==
  ASSUME ThreadIInv, NEW s \in Sessions
  PROVE  /\ tx[s] \in TxFields
         /\ tx[s].op \in {"comment_create", "comment_update", "comment_delete"}
              => tx[s].x # 0
         /\ \A r \in Sessions : s # r => tx[s].held \cap tx[r].held = {}
<1>1. tx[s] \in TxFields /\ Fits(tx[s], body)
  BY DEF ThreadIInv, Requested, AllFit
<1>2. 0 \notin Comments
  BY CommentsAssumption
<1>3. \A r \in Sessions : s # r => tx[s].held \cap tx[r].held = {}
  BY DEF ThreadIInv, Locks, OneHolder
<1> QED
  BY <1>1, <1>2, <1>3 DEF Fits

(* s holds b and wants a: the two are rows of an operation that locks more *)
(* than one, in its order.                                                 *)
Before(q, b, a) ==
    \/ q.op = "post_update" /\ b = Row(0) /\ a = TopicRow(q.t)
    \/ q.op = "comment_create" /\ q.k # 0 /\ b = Row(0) /\ a = Row(q.k)
    \/ /\ q.op \in {"comment_update", "comment_delete"}
       /\ b = Row(q.x) /\ a = Row(0) /\ q.x # 0
    \/ /\ q.op = "report" /\ Row(q.x) \in q.held
       /\ \E k \in Nat : a = CaseRow(q.x, k)
       /\ \/ b = Row(q.x)
          \/ \E k \in Nat : b = CaseRow(q.x, k)
    \/ /\ q.op = "decide" /\ CaseRow(q.x, q.k) \in q.held
       /\ \/ a = Row(q.x) /\ b = CaseRow(q.x, q.k)
          \/ /\ a = Row(0) /\ q.x # 0 /\ Row(q.x) \in q.held
             /\ b \in {Row(q.x), CaseRow(q.x, q.k)}

LEMMA HoldsBefore ==
  ASSUME ThreadIInv, NEW s \in Sessions, NEW a, NEW b,
         Wants(tx[s], a), Wants(tx[s], b), b \in tx[s].held, a \notin tx[s].held
  PROVE  Before(tx[s], b, a)
<1> DEFINE q == tx[s]
<1>1. q \in TxFields /\ a # b
  BY QueryFields
<1>2. q.op \in {"comment_create", "comment_update", "comment_delete"} => q.x # 0
  BY QueryFields
<1> HIDE DEF q
<1>3. Wants(q, a) /\ Wants(q, b) /\ b \in q.held /\ a \notin q.held
  BY DEF q
<1> SUFFICES Before(q, b, a)
  BY DEF q
<1>4. q.op \notin {"topic_archive", "topic_delete", "post_create",
                   "post_delete", "reaction_put", "reaction_delete"}
  BY <1>1, <1>3 DEF Wants
<1>5. CASE q.op = "post_update"
  BY <1>1, <1>3, <1>5, RowsDiffer DEF Wants, Before
<1>6. CASE q.op = "comment_create"
  BY <1>1, <1>3, <1>6, RowsDiffer DEF Wants, Before
<1>7. CASE q.op \in {"comment_update", "comment_delete"}
  BY <1>1, <1>2, <1>3, <1>7, RowsDiffer DEF Wants, Before
<1>8. CASE q.op = "report"
  BY <1>1, <1>3, <1>8, RowsDiffer DEF Wants, Before
<1>9. CASE q.op = "decide"
  <2>1. a # CaseRow(q.x, q.k)
    BY <1>1, <1>3, <1>9, RowsDiffer DEF Wants
  <2>2. CASE a = Row(q.x)
    BY <1>1, <1>3, <1>9, <2>2, RowsDiffer DEF Wants, Before
  <2>3. CASE a = Row(0) /\ a # Row(q.x)
    BY <1>1, <1>3, <1>9, <2>3, RowsDiffer DEF Wants, Before
  <2> QED
    BY <1>3, <1>9, <2>1, <2>2, <2>3 DEF Wants
<1> QED
  BY <1>3, <1>4, <1>5, <1>6, <1>7, <1>8, <1>9 DEF Wants

(* The pairs of operations that can be in each other's way. *)
LEMMA PairsThatDeadlock ==
  ASSUME ThreadIInv, NEW s \in Sessions, NEW r \in Sessions, NEW a, NEW b, s # r,
         Before(tx[s], b, a), Before(tx[r], a, b),
         a \in tx[r].held, b \in tx[s].held
  PROVE  \/ tx[s].op = "report" /\ tx[r].op = "decide"
         \/ tx[s].op = "decide" /\ tx[r].op = "report"
         \/ /\ tx[s].op = "comment_create"
            /\ tx[r].op \in {"comment_update", "comment_delete", "decide"}
         \/ /\ tx[r].op = "comment_create"
            /\ tx[s].op \in {"comment_update", "comment_delete", "decide"}
<1> DEFINE q == tx[s]
           p == tx[r]
<1>1. q.held \cap p.held = {}
  BY QueryFields
<1> HIDE DEF q, p
<1>2. Before(q, b, a) /\ Before(p, a, b) /\ a \in p.held /\ b \in q.held
  BY DEF q, p
<1> SUFFICES \/ q.op = "report" /\ p.op = "decide"
             \/ q.op = "decide" /\ p.op = "report"
             \/ /\ q.op = "comment_create"
                /\ p.op \in {"comment_update", "comment_delete", "decide"}
             \/ /\ p.op = "comment_create"
                /\ q.op \in {"comment_update", "comment_delete", "decide"}
  BY DEF q, p
<1>3. CASE q.op = "post_update"
  BY <1>1, <1>2, <1>3, RowsDiffer DEF Before
<1>4. CASE q.op = "comment_create"
  BY <1>1, <1>2, <1>4, RowsDiffer DEF Before
<1>5. CASE q.op \in {"comment_update", "comment_delete"}
  BY <1>1, <1>2, <1>5, RowsDiffer DEF Before
<1>6. CASE q.op = "report"
  BY <1>1, <1>2, <1>6, RowsDiffer DEF Before
<1>7. CASE q.op = "decide"
  BY <1>1, <1>2, <1>7, RowsDiffer DEF Before
<1> QED
  BY <1>2, <1>3, <1>4, <1>5, <1>6, <1>7 DEF Before

LEMMA FewDeadlock == ThreadIInv => OnlyThesePairsDeadlock
<1> SUFFICES ASSUME ThreadIInv, NEW s \in Sessions, NEW r \in Sessions, Deadlocked(s, r)
             PROVE  \/ Pair(s, r) = {"report", "decide"}
                    \/ /\ "comment_create" \in Pair(s, r)
                       /\ Pair(s, r) \cap {"comment_update", "comment_delete", "decide"} # {}
  BY DEF OnlyThesePairsDeadlock
<1>1. PICK a, b :
        /\ Wants(tx[s], a) /\ Wants(tx[s], b) /\ Wants(tx[r], a) /\ Wants(tx[r], b)
        /\ a \in tx[r].held /\ b \in tx[s].held
        /\ a \notin tx[s].held /\ b \notin tx[r].held
  BY WaitFacts
<1>2. Before(tx[s], b, a) /\ Before(tx[r], a, b)
  BY <1>1, HoldsBefore
<1>3. s # r
  BY DEF Deadlocked, WaitsFor
<1> HIDE DEF Before
<1>4. \/ tx[s].op = "report" /\ tx[r].op = "decide"
      \/ tx[s].op = "decide" /\ tx[r].op = "report"
      \/ /\ tx[s].op = "comment_create"
         /\ tx[r].op \in {"comment_update", "comment_delete", "decide"}
      \/ /\ tx[r].op = "comment_create"
         /\ tx[s].op \in {"comment_update", "comment_delete", "decide"}
  BY <1>1, <1>2, <1>3, PairsThatDeadlock
<1> QED
  BY <1>4 DEF Pair

-------------------------------------------------------------------------------
(* What the writes do to a content. *)

ThreadRows == [st : ScanResults \cup {"none", "deleted"}, case : Nat,
               cases : Seq(CaseStatus), ver : Nat]

(* A content that was written once. *)
Written(c) == c \in ThreadRows /\ c.st # "none"

LEMMA LinkedContent ==
  ASSUME NEW c \in ThreadRows
  PROVE  Linked(c) \in ThreadRows /\ Linked(c).st = c.st
<1>1. c.cases \in Seq(CaseStatus) /\ "pending" \in CaseStatus
  BY DEF ThreadRows, CaseStatus
<1>2. Append(c.cases, "pending") \in Seq(CaseStatus) /\ Len(c.cases) + 1 \in Nat
  BY <1>1
<1> QED
  BY <1>2 DEF Linked, ThreadRows

LEMMA ScannedContent ==
  ASSUME NEW c \in ThreadRows, NEW r \in ScanResults
  PROVE  Written(Scanned(c, r)) /\ Scanned(c, r).st = r
<1>1. CASE r = "published"
  BY <1>1 DEF Scanned, ThreadRows, Written, ScanResults
<1>2. CASE r # "published"
  BY <1>2, LinkedContent DEF Scanned, ThreadRows, Written, ScanResults
<1> QED
  BY <1>1, <1>2

LEMMA NewerContent ==
  ASSUME NEW c, Written(c)
  PROVE  Written(Newer(c)) /\ Newer(c).st = c.st
  BY DEF Newer, Written, ThreadRows

LEMMA RemovedContent ==
  ASSUME NEW c \in ThreadRows
  PROVE  Written([c EXCEPT !.st = "deleted"]) /\ [c EXCEPT !.st = "deleted"].st = "deleted"
  BY DEF Written, ThreadRows

LEMMA ReportedContent ==
  ASSUME NEW c, Written(c)
  PROVE  Written(Reported(c)) /\ Reported(c).st = c.st
<1>1. c \in ThreadRows
  BY DEF Written
<1>2. CASE OpenCases(c) # {}
  <2>1. OpenCases(c) \in SUBSET Nat
    BY <1>1 DEF OpenCases, ThreadRows
  <2>2. FirstOf(OpenCases(c)) \in Nat
    BY <1>2, <2>1, FirstExists
  <2> QED
    BY <1>2, <2>2 DEF Reported, Written, ThreadRows
<1>3. CASE OpenCases(c) = {}
  BY <1>1, <1>3, LinkedContent DEF Reported, Written
<1> QED
  BY <1>2, <1>3

LEMMA DecidedContent ==
  ASSUME NEW c, Written(c), NEW k, NEW d \in Decisions
  PROVE  /\ Written(Decided(c, k, d))
         /\ Decided(c, k, d).st = IF c.st = "deleted" \/ d = "escalated" THEN c.st
                                  ELSE IF d = "approved" THEN "published" ELSE "rejected"
<1>1. c.cases \in Seq(CaseStatus) /\ d \in CaseStatus
  BY DEF Written, ThreadRows, CaseStatus
<1>2. [c.cases EXCEPT ![k] = d] \in Seq(CaseStatus)
  <2>1. CASE k \in DOMAIN c.cases
    BY <1>1, <2>1
  <2>2. CASE k \notin DOMAIN c.cases
    <3>1. [c.cases EXCEPT ![k] = d] = [i \in DOMAIN c.cases |-> c.cases[i]]
      BY <2>2
    <3>2. c.cases \in [1 .. Len(c.cases) -> CaseStatus]
      BY <1>1
    <3>3. c.cases = [i \in DOMAIN c.cases |-> c.cases[i]]
      BY <3>2
    <3> QED
      BY <1>1, <3>1, <3>3
  <2> QED
    BY <2>1, <2>2
<1> DEFINE st == IF c.st = "deleted" \/ d = "escalated" THEN c.st
                 ELSE IF d = "approved" THEN "published" ELSE "rejected"
           cases == [c.cases EXCEPT ![k] = d]
<1>3. Decided(c, k, d) = [c EXCEPT !.cases = cases, !.st = st]
  BY DEF Decided
<1>4. st \in ScanResults \cup {"none", "deleted"} /\ st # "none"
  BY DEF Written, ThreadRows, ScanResults
<1> HIDE DEF st, cases
<1>5. [c EXCEPT !.cases = cases, !.st = st].st = st
  BY DEF Written, ThreadRows
<1>6. Written([c EXCEPT !.cases = cases, !.st = st])
  BY <1>2, <1>4 DEF Written, ThreadRows, cases
<1> QED
  BY <1>3, <1>5, <1>6 DEF st

(* One content is written. *)
LEMMA BodyStep ==
  ASSUME Bodies, NEW x \in Contents, NEW c, Written(c), body' = [body EXCEPT ![x] = c]
  PROVE  /\ Bodies'
         /\ \A y \in Contents : body'[y] = IF y = x THEN c ELSE body[y]
<1>1. body \in [Contents -> ThreadRows]
  BY DEF Bodies, ThreadRows
<1>2. \A y \in Contents : body'[y] = IF y = x THEN c ELSE body[y]
  BY <1>1
<1>3. body' \in [Contents -> ThreadRows]
  BY <1>1 DEF Written
<1>4. Unused'
  BY <1>2 DEF Bodies, Unused, Written
<1> QED
  BY <1>2, <1>3, <1>4 DEF Bodies, ThreadRows

(* The number of published comments after one comment was written. *)
LEMMA PublishedStep ==
  ASSUME IsFiniteSet(PublishedComments), NEW x \in Comments, NEW c,
         \A y \in Comments : body'[y] = IF y = x THEN c ELSE body[y]
  PROVE  /\ IsFiniteSet(PublishedComments')
         /\ Cardinality(PublishedComments') =
              Cardinality(PublishedComments) + One(c.st = "published") - One(Published(x))
<1>1. PublishedComments' = IF c.st = "published" THEN PublishedComments \cup {x}
                           ELSE PublishedComments \ {x}
  BY DEF PublishedComments, Published
<1>2. x \in PublishedComments <=> Published(x)
  BY DEF PublishedComments
<1>3. Cardinality(PublishedComments) \in Nat
  BY FS_CardinalityType
<1>4. CASE c.st = "published"
  BY <1>1, <1>2, <1>3, <1>4, FS_AddElement DEF One
<1>5. CASE c.st # "published"
  BY <1>1, <1>2, <1>3, <1>5, FS_RemoveElement DEF One
<1> QED
  BY <1>4, <1>5

LEMMA PublishedSame ==
  ASSUME \A y \in Comments : Published(y)' = Published(y)
  PROVE  PublishedComments' = PublishedComments
  BY DEF PublishedComments

-------------------------------------------------------------------------------
(* The requests: what a session asks for, locks and leaves. *)

LEMMA TxStep ==
  ASSUME ThreadIInv, NEW s \in Sessions, NEW q \in TxFields, tx' = [tx EXCEPT ![s] = q],
         \A row \in q.held : Wants(q, row),
         \A r \in Sessions : r # s => q.held \cap tx[r].held = {},
         Fits(q, body'),
         \A r \in Sessions : r # s => Fits(tx[r], body'),
         \A r \in Sessions :
           r # s /\ q.op = "comment_create" /\ tx[r].op = "comment_create" => tx[r].x # q.x
  PROVE  Locks' /\ Requested'
<1>1. tx \in [Sessions -> TxFields]
  BY DEF ThreadIInv, Requested
<1>2. tx' \in [Sessions -> TxFields]
      /\ \A r \in Sessions : tx'[r] = IF r = s THEN q ELSE tx[r]
  BY <1>1
<1>3. InOrder'
  BY <1>2 DEF ThreadIInv, Locks, InOrder
<1>4. OneHolder'
  BY <1>2 DEF ThreadIInv, Locks, OneHolder
<1>5. AllFit'
  BY <1>2 DEF AllFit
<1>6. OneCreator'
  BY <1>2 DEF ThreadIInv, Requested, OneCreator
<1> QED
  BY <1>2, <1>3, <1>4, <1>5, <1>6 DEF Locks, Requested

(* A content is written that nobody is about to create. *)
LEMMA OthersFit ==
  ASSUME ThreadIInv, NEW s \in Sessions, NEW x \in Contents, NEW c, Written(c),
         \A y \in Contents : body'[y] = IF y = x THEN c ELSE body[y],
         \A r \in Sessions : r # s /\ tx[r].op = "comment_create" => tx[r].x # x
  PROVE  \A r \in Sessions : r # s => Fits(tx[r], body')
<1> SUFFICES ASSUME NEW r \in Sessions, r # s
             PROVE  Fits(tx[r], body')
  OBVIOUS
<1>1. tx[r] \in TxFields /\ Fits(tx[r], body)
  BY DEF ThreadIInv, Requested, AllFit
<1>2. tx[r].x \in Contents
  BY <1>1 DEF TxFields
<1> QED
  BY <1>1, <1>2 DEF Fits, Written

LEMMA IdleTyped == Idle \in TxFields /\ Idle.held = {} /\ Idle.op = "idle"
  BY DEF Idle, TxFields, Contents

(* The end of a request. *)
LEMMA EndsKeeps ==
  ASSUME ThreadIInv, NEW s \in Sessions, Ends(s),
         \A r \in Sessions : r # s => Fits(tx[r], body')
  PROVE  Locks' /\ Requested'
<1>1. Fits(Idle, body')
  BY IdleTyped DEF Fits
<1>2. tx' = [tx EXCEPT ![s] = Idle]
  BY DEF Ends
<1> QED
  BY <1>1, <1>2, IdleTyped, TxStep

LEMMA EndsAlone ==
  ASSUME ThreadIInv, NEW s \in Sessions, Ends(s), UNCHANGED body
  PROVE  Locks' /\ Requested'
<1>1. \A r \in Sessions : Fits(tx[r], body')
  BY DEF ThreadIInv, Requested, AllFit
<1> QED
  BY <1>1, EndsKeeps

LEMMA EndsWriting ==
  ASSUME ThreadIInv, NEW s \in Sessions, Ends(s), NEW x \in Contents, NEW c, Written(c),
         \A y \in Contents : body'[y] = IF y = x THEN c ELSE body[y],
         \A r \in Sessions : r # s /\ tx[r].op = "comment_create" => tx[r].x # x
  PROVE  Locks' /\ Requested'
  BY OthersFit, EndsKeeps

(* Nobody is about to create what is there, or the post. *)
LEMMA NobodyCreates ==
  ASSUME ThreadIInv, NEW x \in Contents, x = 0 \/ body[x].st # "none"
  PROVE  \A r \in Sessions : tx[r].op = "comment_create" => tx[r].x # x
<1>1. \A r \in Sessions : Fits(tx[r], body)
  BY DEF ThreadIInv, Requested, AllFit
<1> QED
  BY <1>1, CommentsAssumption DEF Fits

(* A request that arrives. *)
LEMMA AsksKeeps ==
  ASSUME ThreadIInv, NEW s \in Sessions, NEW op \in Operations, NEW x \in Contents,
         NEW t \in Topics \cup {0}, NEW k \in Nat, NEW u \in Users \cup {0},
         NEW d \in Decisions \cup {"none"}, NEW seen \in Nat,
         Asks(s, op, x, t, k, u, d, seen),
         Fits([op |-> op, x |-> x, t |-> t, k |-> k, u |-> u, d |-> d, seen |-> seen,
               held |-> {}], body),
         op = "comment_create" =>
           \A r \in Sessions : ~(tx[r].op = "comment_create" /\ tx[r].x = x)
  PROVE  Locks' /\ Requested'
<1> DEFINE q == [op |-> op, x |-> x, t |-> t, k |-> k, u |-> u, d |-> d, seen |-> seen,
                 held |-> {}]
<1>1. q \in TxFields /\ q.held = {} /\ q.op = op /\ q.x = x
  BY DEF TxFields
<1>2. tx' = [tx EXCEPT ![s] = q] /\ body' = body
  BY DEF Asks
<1>3. \A r \in Sessions : Fits(tx[r], body')
  BY <1>2 DEF ThreadIInv, Requested, AllFit
<1>4. Fits(q, body')
  BY <1>2
<1> HIDE DEF q
<1> QED
  BY <1>1, <1>2, <1>3, <1>4, TxStep

(* Nothing but the requests changes when one arrives or locks. *)
LEMMA RequestsOnly ==
  ASSUME ThreadIInv, UNCHANGED <<topic, body, place, count, counters>>,
         Locks', Requested', work' \in Nat
  PROVE  ThreadIInv'
<1>1. Bodies'
  BY DEF ThreadIInv, Bodies, Unused
<1>2. Counters'
  BY DEF ThreadIInv, Counters, counters, FiniteRows, CountsAreExact, PublishedComments,
         PostReporters, Published
<1>3. Places'
  BY DEF ThreadIInv, Places, NoPostInDeletedTopic, Exists
<1> QED
  BY <1>1, <1>2, <1>3 DEF ThreadIInv

LEMMA BeginKeeps == ASSUME ThreadIInv, NEW s \in Sessions, Begin(s) PROVE ThreadIInv'
<1>1. \A x \in Contents : body[x] \in ThreadRows
  BY DEF ThreadIInv, Bodies, ThreadRows
<1>2. 0 \in Contents /\ Contents \subseteq Nat /\ Comments \subseteq Contents
  BY CommentsAssumption DEF Contents
<1>3. \A x \in Contents : body[x].ver \in Nat
  BY <1>1 DEF ThreadRows
<1>4. Locks' /\ Requested'
  <2>1. CASE BeginPost(s)
    <3>1. PICK t \in Topics : Asks(s, "post_create", 0, t, 0, 0, "none", 0)
      BY <2>1 DEF BeginPost
    <3> QED
      BY <3>1, <1>2, AsksKeeps DEF Fits, Operations
  <2>2. CASE BeginPostChange(s)
    <3>1. CASE \E t \in Topics : Asks(s, "post_update", 0, t, 0, 0, "none", body[0].ver)
      BY <3>1, <1>2, <1>3, AsksKeeps DEF Fits, Operations
    <3>2. CASE Asks(s, "post_delete", 0, 0, 0, 0, "none", 0)
      BY <3>2, <1>2, AsksKeeps DEF Fits, Operations
    <3> QED
      BY <2>2, <3>1, <3>2 DEF BeginPostChange
  <2>3. CASE BeginTopic(s)
    <3>1. PICK t \in Topics, op \in {"topic_archive", "topic_delete"} :
            Asks(s, op, 0, t, 0, 0, "none", 0)
      BY <2>3 DEF BeginTopic
    <3> QED
      BY <3>1, <1>2, AsksKeeps DEF Fits, Operations
  <2>4. CASE BeginComment(s)
    <3>1. PICK x \in Comments, k \in Contents :
            /\ body[x].st = "none"
            /\ \A r \in Sessions : ~(tx[r].op = "comment_create" /\ tx[r].x = x)
            /\ Asks(s, "comment_create", x, 0, k, 0, "none", 0)
      BY <2>4 DEF BeginComment
    <3> QED
      BY <3>1, <1>2, AsksKeeps DEF Fits, Operations
  <2>5. CASE BeginCommentChange(s)
    <3>1. PICK x \in Comments, op \in {"comment_update", "comment_delete"} :
            Exists(x) /\ Asks(s, op, x, 0, 0, 0, "none", body[x].ver)
      BY <2>5 DEF BeginCommentChange
    <3> QED
      BY <3>1, <1>2, <1>3, AsksKeeps DEF Fits, Operations, Exists
  <2>6. CASE BeginReaction(s)
    <3>1. PICK u \in Users, op \in {"reaction_put", "reaction_delete"} :
            Asks(s, op, 0, 0, 0, u, "none", 0)
      BY <2>6 DEF BeginReaction
    <3> QED
      BY <3>1, <1>2, AsksKeeps DEF Fits, Operations
  <2>7. CASE BeginReport(s)
    <3>1. PICK u \in Users, x \in Contents :
            Exists(x) /\ Asks(s, "report", x, 0, 0, u, "none", 0)
      BY <2>7 DEF BeginReport
    <3> QED
      BY <3>1, <1>2, AsksKeeps DEF Fits, Operations, Exists
  <2>8. CASE BeginDecision(s)
    <3>1. PICK x \in Contents, d \in Decisions : \E k \in OpenCases(body[x]) :
            Asks(s, "decide", x, 0, k, 0, d, 0)
      BY <2>8 DEF BeginDecision
    <3>2. PICK k \in OpenCases(body[x]) : Asks(s, "decide", x, 0, k, 0, d, 0)
      BY <3>1
    <3>3. k \in DOMAIN body[x].cases /\ body[x].cases \in Seq(CaseStatus)
      BY <1>1 DEF OpenCases, ThreadRows
    <3>4. k \in Nat /\ body[x].cases # <<>>
      BY <3>3
    <3>5. body[x].st # "none"
      BY <3>4 DEF ThreadIInv, Bodies, Unused
    <3> QED
      BY <3>2, <3>4, <3>5, AsksKeeps DEF Fits, Operations
  <2> QED
    BY <2>1, <2>2, <2>3, <2>4, <2>5, <2>6, <2>7, <2>8 DEF Begin
<1>5. UNCHANGED <<topic, body, place, count, counters>> /\ work' = work + 1
  BY DEF Begin, BeginPost, BeginPostChange, BeginTopic, BeginComment, BeginCommentChange,
         BeginReaction, BeginReport, BeginDecision, Asks
<1> QED
  BY <1>4, <1>5, RequestsOnly DEF ThreadIInv

(* A request that locks more rows still wants what it held, in order. *)
LEMMA WantsMore ==
  ASSUME NEW q \in TxFields, NEW w, NEW row, Wants(q, row)
  PROVE  Wants([q EXCEPT !.held = q.held \cup {w}], row)
<1> DEFINE p == [q EXCEPT !.held = q.held \cup {w}]
<1>1. /\ p.op = q.op /\ p.x = q.x /\ p.t = q.t /\ p.k = q.k
      /\ q.held \subseteq p.held
  BY DEF TxFields
<1> HIDE DEF p
<1>2. Wants(p, row)
  BY <1>1 DEF Wants
<1> QED
  BY <1>2 DEF p

LEMMA LockKeeps == ASSUME ThreadIInv, NEW s \in Sessions, Lock(s) PROVE ThreadIInv'
<1>1. /\ tx[s].op # "idle" /\ Missing(s) # {}
      /\ UNCHANGED <<topic, body, place, count, counters, work>>
  BY DEF Lock
<1>2. CASE Ends(s)
  BY <1>1, <1>2, EndsAlone, RequestsOnly DEF ThreadIInv
<1>3. CASE tx' = [tx EXCEPT ![s].held = @ \cup {Wanted(s)}]
  <2> DEFINE w == Wanted(s)
             q == [tx[s] EXCEPT !.held = tx[s].held \cup {w}]
  <2>1. tx[s] \in TxFields /\ Fits(tx[s], body)
    BY DEF ThreadIInv, Requested, AllFit
  <2>2. Wants(tx[s], w)
    BY <1>1, WantsNext
  <2>3. w \in {"topic", "content", "case"} \X (Topics \cup Contents) \X Nat
    <3>1. tx[s].x \in Contents /\ tx[s].k \in Nat /\ 0 \in Contents
      BY <2>1 DEF TxFields, Contents
    <3> QED
      BY <2>1, <2>2, <3>1 DEF Wants, Fits, Row, TopicRow, CaseRow
  <2>4. tx' = [tx EXCEPT ![s] = q]
    BY <1>3
  <2>5. \A r \in Sessions : r # s => w \notin tx[r].held
    BY DEF Lock, Holder
  <2> HIDE DEF w
  <2>6. q \in TxFields /\ q.held = tx[s].held \cup {w}
        /\ q.op = tx[s].op /\ q.x = tx[s].x /\ q.k = tx[s].k /\ q.t = tx[s].t
        /\ q.u = tx[s].u /\ q.d = tx[s].d
    BY <2>1, <2>3 DEF TxFields
  <2>7. \A row \in q.held : Wants(q, row)
    <3>1. \A row \in tx[s].held : Wants(tx[s], row)
      BY DEF ThreadIInv, Locks, InOrder
    <3> QED
      BY <2>1, <2>2, <2>6, <3>1, WantsMore
  <2> HIDE DEF q
  <2>8. Fits(q, body')
    BY <1>1, <2>1, <2>6 DEF Fits
  <2>9. \A r \in Sessions : Fits(tx[r], body')
    BY <1>1 DEF ThreadIInv, Requested, AllFit
  <2>10. \A r \in Sessions : r # s => q.held \cap tx[r].held = {}
    BY <2>5, <2>6 DEF ThreadIInv, Locks, OneHolder
  <2>11. \A r \in Sessions :
           r # s /\ q.op = "comment_create" /\ tx[r].op = "comment_create" => tx[r].x # q.x
    BY <2>6 DEF ThreadIInv, Requested, OneCreator
  <2>12. Locks' /\ Requested'
    BY <2>4, <2>6, <2>7, <2>8, <2>9, <2>10, <2>11, TxStep
  <2> QED
    BY <1>1, <2>12, RequestsOnly DEF ThreadIInv
<1> QED
  BY <1>2, <1>3 DEF Lock

LEMMA AbortKeeps == ASSUME ThreadIInv, NEW s \in Sessions, Abort(s) PROVE ThreadIInv'
  BY EndsAlone, RequestsOnly DEF Abort, ThreadIInv

-------------------------------------------------------------------------------
(* The writes of each request. *)

LEMMA CountersSame ==
  ASSUME Counters, UNCHANGED <<count, counters>>,
         \A y \in Comments : Published(y)' = Published(y)
  PROVE  Counters'
<1>1. PublishedComments' = PublishedComments
  BY DEF PublishedComments
<1>2. PostReporters' = PostReporters
  BY DEF PostReporters, counters
<1> QED
  BY <1>1, <1>2 DEF Counters, FiniteRows, CountsAreExact, PublishedComments, PostReporters,
     counters

LEMMA CommentCounted ==
  ASSUME Counters, UNCHANGED counters, NEW x \in Comments, NEW c,
         \A y \in Comments : body'[y] = IF y = x THEN c ELSE body[y],
         count' = count + One(c.st = "published") - One(Published(x))
  PROVE  Counters'
<1>1. /\ IsFiniteSet(PublishedComments')
      /\ Cardinality(PublishedComments') =
           Cardinality(PublishedComments) + One(c.st = "published") - One(Published(x))
  BY PublishedStep DEF Counters, FiniteRows
<1>2. count = Cardinality(PublishedComments)
  BY DEF Counters, CountsAreExact, PublishedComments
<1>3. count' = Cardinality(PublishedComments')
  BY <1>1, <1>2
<1>4. PostReporters' = PostReporters
  BY DEF PostReporters, counters
<1> QED
  BY <1>1, <1>3, <1>4 DEF Counters, FiniteRows, CountsAreExact, PublishedComments,
     PostReporters, counters

LEMMA PlacesSame ==
  ASSUME Places, UNCHANGED <<topic, place>>, Exists(0)' => Exists(0)
  PROVE  Places'
  BY DEF Places, NoPostInDeletedTopic

(* A write to the post. *)
LEMMA PostWritten ==
  ASSUME ThreadIInv, NEW s \in Sessions, Ends(s), NEW c, Written(c),
         body' = [body EXCEPT ![0] = c], UNCHANGED <<count, counters, work>>, Places'
  PROVE  ThreadIInv'
<1>1. 0 \in Contents /\ 0 \notin Comments /\ Comments \subseteq Contents
  BY CommentsAssumption DEF Contents
<1>2. Bodies' /\ \A y \in Contents : body'[y] = IF y = 0 THEN c ELSE body[y]
  BY <1>1, BodyStep DEF ThreadIInv
<1>3. Locks' /\ Requested'
  BY <1>1, <1>2, NobodyCreates, EndsWriting
<1>4. Counters'
  BY <1>1, <1>2, CountersSame DEF ThreadIInv, Published
<1> QED
  BY <1>2, <1>3, <1>4 DEF ThreadIInv

(* A write to a comment, counted. *)
LEMMA CommentWritten ==
  ASSUME ThreadIInv, NEW s \in Sessions, Ends(s), NEW x \in Comments, NEW c, Written(c),
         body' = [body EXCEPT ![x] = c], UNCHANGED <<topic, place, counters, work>>,
         count' = count + One(c.st = "published") - One(Published(x)),
         body[x].st # "none" \/ (tx[s].op = "comment_create" /\ tx[s].x = x)
  PROVE  ThreadIInv'
<1>1. x \in Contents /\ 0 \in Contents /\ x # 0 /\ Comments \subseteq Contents
  BY CommentsAssumption DEF Contents
<1>2. Bodies' /\ \A y \in Contents : body'[y] = IF y = x THEN c ELSE body[y]
  BY <1>1, BodyStep DEF ThreadIInv
<1>3. \A r \in Sessions : r # s /\ tx[r].op = "comment_create" => tx[r].x # x
  BY <1>1, NobodyCreates DEF ThreadIInv, Requested, OneCreator
<1>4. Locks' /\ Requested'
  BY <1>1, <1>2, <1>3, EndsWriting
<1>5. Counters'
  BY <1>1, <1>2, CommentCounted DEF ThreadIInv
<1>6. Places'
  BY <1>1, <1>2, PlacesSame DEF ThreadIInv, Exists
<1> QED
  BY <1>2, <1>4, <1>5, <1>6 DEF ThreadIInv

(* No content is written. *)
LEMMA NothingWritten ==
  ASSUME ThreadIInv, NEW s \in Sessions, Ends(s), UNCHANGED <<body, work>>, Counters', Places'
  PROVE  ThreadIInv'
<1>1. Bodies'
  BY DEF ThreadIInv, Bodies, Unused
<1> QED
  BY <1>1, EndsAlone DEF ThreadIInv

LEMMA PostKeeps ==
  ASSUME ThreadIInv, NEW s \in Sessions, PostCreate(s) \/ PostUpdate(s) \/ PostDelete(s)
  PROVE  ThreadIInv'
<1>1. tx[s] \in TxFields /\ Fits(tx[s], body) /\ Ends(s)
      /\ UNCHANGED <<topic, count, counters, work>>
  BY DEF ThreadIInv, Requested, AllFit, PostCreate, PostUpdate, PostDelete, Ready
<1>2. 0 \in Contents /\ body \in [Contents -> ThreadRows] /\ body[0] \in ThreadRows
  BY DEF ThreadIInv, Bodies, ThreadRows, Contents
<1>3. CASE (PostCreate(s) \/ PostUpdate(s)) /\ ~TopicThere(tx[s].t)
  <2>1. UNCHANGED <<topic, body, place, count, counters, work>>
    BY <1>1, <1>3 DEF PostCreate, PostUpdate
  <2> QED
    BY <1>1, <2>1, EndsAlone, RequestsOnly DEF ThreadIInv
<1>4. CASE (PostCreate(s) \/ PostUpdate(s)) /\ TopicThere(tx[s].t)
  <2>1. place' = tx[s].t /\ tx[s].t \in Topics
    BY <1>1, <1>4 DEF PostCreate, PostUpdate, Ready, Fits
  <2>2. Places'
    BY <1>1, <1>4, <2>1 DEF ThreadIInv, Places, NoPostInDeletedTopic, TopicThere
  <2>3. PICK r \in ScanResults :
          \/ body' = [body EXCEPT ![0] = Scanned(body[0], r)]
          \/ body' = [body EXCEPT ![0] = Newer(Scanned(body[0], r))]
    BY <1>2, <1>4 DEF PostCreate, PostUpdate
  <2>4. Written(Scanned(body[0], r)) /\ Written(Newer(Scanned(body[0], r)))
    BY <1>2, ScannedContent, NewerContent
  <2> QED
    BY <1>1, <2>2, <2>3, <2>4, PostWritten
<1>5. CASE PostDelete(s)
  <2> DEFINE c == Newer([body[0] EXCEPT !.st = "deleted"])
  <2>1. Written(c) /\ c.st = "deleted"
    BY <1>2, RemovedContent, NewerContent
  <2>2. body' = [body EXCEPT ![0] = c] /\ UNCHANGED place
    BY <1>2, <1>5 DEF PostDelete
  <2> HIDE DEF c
  <2>3. body'[0] = c
    BY <1>2, <2>2
  <2>4. Places'
    BY <1>1, <2>1, <2>2, <2>3, PlacesSame DEF ThreadIInv, Exists
  <2> QED
    BY <1>1, <2>1, <2>2, <2>4, PostWritten
<1> QED
  BY <1>3, <1>4, <1>5

LEMMA TopicKeeps ==
  ASSUME ThreadIInv, NEW s \in Sessions, TopicArchive(s) \/ TopicDelete(s)
  PROVE  ThreadIInv'
<1>1. tx[s] \in TxFields /\ Fits(tx[s], body) /\ Ends(s) /\ tx[s].t \in Topics
      /\ UNCHANGED <<body, place, count, counters, work>>
  BY DEF ThreadIInv, Requested, AllFit, TopicArchive, TopicDelete, Ready, Fits
<1>2. Counters'
  BY <1>1, CountersSame DEF ThreadIInv, Published
<1>3. Places'
  <2>1. CASE TopicArchive(s)
    BY <1>1, <2>1 DEF ThreadIInv, Places, NoPostInDeletedTopic, Exists, TopicArchive
  <2>2. CASE TopicDelete(s)
    BY <1>1, <2>2 DEF ThreadIInv, Places, NoPostInDeletedTopic, Exists, TopicDelete
  <2> QED
    BY <2>1, <2>2
<1> QED
  BY <1>1, <1>2, <1>3, NothingWritten

LEMMA CommentKeeps ==
  ASSUME ThreadIInv, NEW s \in Sessions,
         CommentCreate(s) \/ CommentUpdate(s) \/ CommentDelete(s)
  PROVE  ThreadIInv'
<1> DEFINE x == tx[s].x
<1>1. Fits(tx[s], body) /\ Ends(s) /\ UNCHANGED <<topic, place, counters, work>>
  BY DEF ThreadIInv, Requested, AllFit, CommentCreate, CommentUpdate, CommentDelete, Ready
<1>2. x \in Comments /\ (body[x].st # "none" \/ tx[s].op = "comment_create")
  BY <1>1 DEF CommentCreate, CommentUpdate, CommentDelete, Ready, Fits
<1>3. x \in Contents /\ body \in [Contents -> ThreadRows] /\ body[x] \in ThreadRows
  BY <1>2 DEF ThreadIInv, Bodies, ThreadRows, Contents
<1>4. count \in Int
  BY FS_CardinalityType DEF ThreadIInv, Counters, CountsAreExact, FiniteRows,
     PublishedComments
<1>5. CASE CommentCreate(s)
  <2>1. PICK r \in ScanResults :
          /\ body' = [body EXCEPT ![x] = Scanned(body[x], r)]
          /\ count' = count + One(r = "published")
    BY <1>3, <1>5 DEF CommentCreate
  <2>2. Written(Scanned(body[x], r)) /\ Scanned(body[x], r).st = r
    BY <1>3, ScannedContent
  <2>3. One(Published(x)) = 0 /\ One(r = "published") \in Int
    BY <1>1, <1>5 DEF CommentCreate, Ready, Fits, One, Published
  <2>4. count' = count + One(Scanned(body[x], r).st = "published") - One(Published(x))
    BY <1>4, <2>1, <2>2, <2>3
  <2> HIDE DEF x
  <2> QED
    BY <1>1, <1>2, <2>1, <2>2, <2>4, CommentWritten DEF x
<1>6. CASE CommentUpdate(s)
  <2>1. PICK r \in ScanResults :
          /\ body' = [body EXCEPT ![x] = Newer(Scanned(body[x], r))]
          /\ count' = count + One(r = "published") - One(Published(x))
    BY <1>3, <1>6 DEF CommentUpdate
  <2> DEFINE c == Newer(Scanned(body[x], r))
  <2>2. Written(c) /\ c.st = r
    BY <1>3, ScannedContent, NewerContent
  <2> HIDE DEF c
  <2>3. body' = [body EXCEPT ![x] = c]
        /\ count' = count + One(c.st = "published") - One(Published(x))
    BY <2>1, <2>2 DEF c
  <2> QED
    BY <1>1, <1>2, <2>2, <2>3, CommentWritten
<1>7. CASE CommentDelete(s)
  <2> DEFINE c == Newer([body[x] EXCEPT !.st = "deleted"])
  <2>1. Written(c) /\ c.st = "deleted"
    BY <1>3, RemovedContent, NewerContent
  <2>2. body' = [body EXCEPT ![x] = c] /\ count' = count - One(Published(x))
    BY <1>3, <1>7 DEF CommentDelete
  <2> HIDE DEF c
  <2>3. One(c.st = "published") = 0 /\ One(Published(x)) \in Int
    BY <2>1 DEF One
  <2>4. count' = count + One(c.st = "published") - One(Published(x))
    BY <1>4, <2>2, <2>3
  <2> QED
    BY <1>1, <1>2, <2>1, <2>2, <2>4, CommentWritten
<1> QED
  BY <1>5, <1>6, <1>7

LEMMA ReactionKeeps ==
  ASSUME ThreadIInv, NEW s \in Sessions, ReactionPut(s) \/ ReactionDelete(s)
  PROVE  ThreadIInv'
<1> DEFINE u == tx[s].u
<1>1. /\ Fits(tx[s], body) /\ Ends(s)
      /\ UNCHANGED <<topic, body, place, count, reports, reportCount, work>>
  BY DEF ThreadIInv, Requested, AllFit, ReactionPut, ReactionDelete, Ready
<1>2. u \in Users
  BY <1>1 DEF ReactionPut, ReactionDelete, Ready, Fits
<1>3. IsFiniteSet(likes) /\ likeCount = Cardinality(likes) /\ likeCount \in Nat
      /\ likes \subseteq Users
  BY FS_CardinalityType DEF ThreadIInv, Counters, FiniteRows, CountsAreExact
<1>4. IsFiniteSet(likes') /\ likeCount' = Cardinality(likes') /\ likes' \subseteq Users
  <2>1. CASE ReactionPut(s)
    <3>1. likes' = likes \cup {u} /\ likeCount' = likeCount + One(u \notin likes)
      BY <2>1 DEF ReactionPut
    <3>2. /\ IsFiniteSet(likes \cup {u})
          /\ Cardinality(likes \cup {u}) =
               IF u \in likes THEN Cardinality(likes) ELSE Cardinality(likes) + 1
      BY <1>3, FS_AddElement
    <3> QED
      BY <1>2, <1>3, <3>1, <3>2 DEF One
  <2>2. CASE ReactionDelete(s)
    <3>1. likes' = likes \ {u} /\ likeCount' = likeCount - One(u \in likes)
      BY <2>2 DEF ReactionDelete
    <3>2. /\ IsFiniteSet(likes \ {u})
          /\ Cardinality(likes \ {u}) =
               IF u \in likes THEN Cardinality(likes) - 1 ELSE Cardinality(likes)
      BY <1>3, FS_RemoveElement
    <3> QED
      BY <1>2, <1>3, <3>1, <3>2 DEF One
  <2> QED
    BY <2>1, <2>2
<1>5. PublishedComments' = PublishedComments /\ PostReporters' = PostReporters
  BY <1>1 DEF PublishedComments, PostReporters, Published
<1>6. Counters'
  BY <1>1, <1>4, <1>5 DEF ThreadIInv, Counters, FiniteRows, CountsAreExact,
     PublishedComments, PostReporters
<1>7. Places'
  BY <1>1, PlacesSame DEF ThreadIInv, Exists
<1> QED
  BY <1>1, <1>6, <1>7, NothingWritten

LEMMA ReportKeeps ==
  ASSUME ThreadIInv, NEW s \in Sessions, ReportContent(s)
  PROVE  ThreadIInv'
<1> DEFINE x == tx[s].x
           u == tx[s].u
<1>1. /\ tx[s] \in TxFields /\ Fits(tx[s], body) /\ Ends(s)
      /\ UNCHANGED <<topic, place, count, likes, likeCount, work>>
  BY DEF ThreadIInv, Requested, AllFit, ReportContent, Ready
<1>2. u \in Users /\ x \in Contents /\ body[x].st # "none"
  BY <1>1 DEF ReportContent, Ready, Fits, TxFields
<1>3. body \in [Contents -> ThreadRows] /\ Written(body[x])
  BY <1>2 DEF ThreadIInv, Bodies, ThreadRows, Written
<1>4. CASE <<u, x>> \in reports
  <2>1. UNCHANGED <<topic, body, place, count, counters, work>>
    BY <1>1, <1>4 DEF ReportContent, counters
  <2> QED
    BY <1>1, <2>1, EndsAlone, RequestsOnly DEF ThreadIInv
<1>5. CASE <<u, x>> \notin reports
  <2> DEFINE c == Reported(body[x])
  <2>1. Written(c) /\ c.st = body[x].st
    BY <1>3, ReportedContent
  <2>2. /\ body' = [body EXCEPT ![x] = c] /\ reports' = reports \cup {<<u, x>>}
        /\ reportCount' = reportCount + One(x = 0)
    BY <1>3, <1>5 DEF ReportContent
  <2> HIDE DEF c, x, u
  <2>3. Bodies' /\ \A y \in Contents : body'[y] = IF y = x THEN c ELSE body[y]
    BY <1>2, <2>1, <2>2, BodyStep DEF ThreadIInv
  <2>4. Locks' /\ Requested'
    BY <1>1, <1>2, <2>1, <2>3, NobodyCreates, EndsWriting
  <2>5. 0 \in Contents /\ Comments \subseteq Contents
    BY DEF Contents
  <2>6. \A y \in Contents : body'[y].st = body[y].st
    BY <2>1, <2>3
  <2>7. PublishedComments' = PublishedComments
    BY <2>5, <2>6 DEF PublishedComments, Published
  <2>8. IsFiniteSet(PostReporters) /\ reportCount = Cardinality(PostReporters)
        /\ reportCount \in Nat
    BY FS_CardinalityType DEF ThreadIInv, Counters, FiniteRows, CountsAreExact, PostReporters
  <2>9. IsFiniteSet(PostReporters') /\ reportCount' = Cardinality(PostReporters')
    <3>1. CASE x = 0
      <4>1. PostReporters' = PostReporters \cup {u} /\ u \notin PostReporters
        BY <1>2, <1>5, <2>2, <3>1 DEF PostReporters, x, u
      <4> QED
        BY <2>2, <2>8, <3>1, <4>1, FS_AddElement DEF One
    <3>2. CASE x # 0
      <4>1. PostReporters' = PostReporters
        BY <2>2, <3>2 DEF PostReporters
      <4> QED
        BY <2>2, <2>8, <3>2, <4>1 DEF One
    <3> QED
      BY <3>1, <3>2
  <2>10. reports' \subseteq Users \X Contents
    BY <1>2, <2>2 DEF ThreadIInv, Counters
  <2>11. Counters'
    BY <1>1, <2>7, <2>9, <2>10 DEF ThreadIInv, Counters, FiniteRows, CountsAreExact,
       PublishedComments, PostReporters
  <2>12. Places'
    BY <1>1, <2>5, <2>6, PlacesSame DEF ThreadIInv, Exists
  <2> QED
    BY <1>1, <2>3, <2>4, <2>11, <2>12 DEF ThreadIInv
<1> QED
  BY <1>4, <1>5

LEMMA DecideKeeps ==
  ASSUME ThreadIInv, NEW s \in Sessions, DecideContent(s)
  PROVE  ThreadIInv'
<1> DEFINE q == tx[s]
           x == tx[s].x
           c == Decided(body[x], tx[s].k, tx[s].d)
<1>1. /\ tx[s] \in TxFields /\ Fits(tx[s], body) /\ Ends(s)
      /\ UNCHANGED <<topic, place, counters, work>>
  BY DEF ThreadIInv, Requested, AllFit, DecideContent, Ready
<1>2. tx[s].d \in Decisions /\ x \in Contents /\ body[x].st # "none"
  BY <1>1 DEF DecideContent, Ready, Fits, TxFields
<1>3. body \in [Contents -> ThreadRows] /\ Written(body[x])
  BY <1>2 DEF ThreadIInv, Bodies, ThreadRows, Written
<1>4. /\ Written(c)
      /\ c.st = IF body[x].st = "deleted" \/ tx[s].d = "escalated" THEN body[x].st
                ELSE IF tx[s].d = "approved" THEN "published" ELSE "rejected"
  BY <1>2, <1>3, DecidedContent
<1>5. body' = [body EXCEPT ![x] = c]
  BY <1>3 DEF DecideContent
<1>6. count' = IF ~Republishes(q) THEN count
               ELSE IF tx[s].d = "approved" THEN count + 1 ELSE count - 1
  BY DEF DecideContent
<1>7. count \in Int
  BY FS_CardinalityType DEF ThreadIInv, Counters, CountsAreExact, FiniteRows,
     PublishedComments
<1> HIDE DEF c
<1>8. CASE x # 0
  <2>1. x \in Comments
    BY <1>2, <1>8 DEF Contents
  <2>2. Published(x) <=> body[x].st = "published"
    BY DEF Published
  <2>3. count' = count + One(c.st = "published") - One(Published(x))
    <3>1. CASE Republishes(q)
      <4>1. /\ tx[s].d # "escalated" /\ body[x].st # "deleted"
            /\ Published(x) <=> tx[s].d # "approved"
        BY <3>1 DEF Republishes, Published
      <4>2. CASE tx[s].d = "approved"
        BY <1>4, <1>6, <1>7, <2>2, <3>1, <4>1, <4>2 DEF One
      <4>3. CASE tx[s].d # "approved"
        BY <1>4, <1>6, <1>7, <2>2, <3>1, <4>1, <4>3 DEF One
      <4> QED
        BY <4>2, <4>3
    <3>2. CASE ~Republishes(q)
      <4>1. \/ tx[s].d = "escalated" \/ body[x].st = "deleted"
            \/ Published(x) = (tx[s].d = "approved")
        BY <1>8, <3>2 DEF Republishes
      <4>2. (c.st = "published") <=> Published(x)
        BY <1>4, <2>2, <4>1
      <4> QED
        BY <1>6, <1>7, <3>2, <4>2 DEF One
    <3> QED
      BY <3>1, <3>2
  <2> QED
    BY <1>1, <1>2, <1>4, <1>5, <2>1, <2>3, CommentWritten
<1>9. CASE x = 0
  <2>1. body'[0] = c
    BY <1>2, <1>3, <1>5, <1>9
  <2>2. Exists(0)' => Exists(0)
    BY <1>2, <1>4, <1>9, <2>1 DEF Exists
  <2>3. Places'
    BY <1>1, <2>2, PlacesSame DEF ThreadIInv
  <2>4. UNCHANGED count
    BY <1>6, <1>9 DEF Republishes
  <2> QED
    BY <1>1, <1>4, <1>5, <1>9, <2>3, <2>4, PostWritten
<1> QED
  BY <1>8, <1>9

-------------------------------------------------------------------------------

LEMMA ThreadInitIInv == ThreadInit => ThreadIInv
<1> SUFFICES ASSUME ThreadInit PROVE ThreadIInv
  OBVIOUS
<1>1. Locks
  BY IdleTyped DEF ThreadInit, Locks, InOrder, OneHolder
<1>2. Requested
  BY IdleTyped DEF ThreadInit, Requested, AllFit, OneCreator, Fits
<1>3. Bodies
  <2>1. Nothing \in ThreadRows /\ Nothing.cases = <<>>
    BY DEF Nothing, ThreadRows
  <2> QED
    BY <2>1 DEF ThreadInit, Bodies, Unused, ThreadRows
<1>4. PublishedComments = {} /\ PostReporters = {} /\ likes = {}
  BY DEF ThreadInit, PublishedComments, PostReporters, Published, Nothing, Contents
<1>5. Counters
  BY <1>4, FS_EmptySet DEF ThreadInit, Counters, FiniteRows, CountsAreExact,
     PublishedComments, PostReporters
<1>6. Places
  BY DEF ThreadInit, Places, NoPostInDeletedTopic
<1> QED
  BY <1>1, <1>2, <1>3, <1>5, <1>6 DEF ThreadIInv, ThreadInit

LEMMA ThreadNextIInv == ThreadIInv /\ [ThreadNext]_threadVars => ThreadIInv'
<1> SUFFICES ASSUME ThreadIInv, [ThreadNext]_threadVars PROVE ThreadIInv'
  OBVIOUS
<1>1. ASSUME NEW s \in Sessions, Serve(s) PROVE ThreadIInv'
  BY <1>1, PostKeeps, TopicKeeps, CommentKeeps, ReactionKeeps, ReportKeeps, DecideKeeps
     DEF Serve
<1>2. CASE ThreadNext
  BY <1>1, <1>2, BeginKeeps, LockKeeps, AbortKeeps DEF ThreadNext
<1>3. CASE UNCHANGED threadVars
  <2>1. Locks' /\ Requested'
    BY <1>3 DEF threadVars, ThreadIInv, Locks, InOrder, OneHolder, Requested, AllFit,
       OneCreator
  <2> QED
    BY <1>3, <2>1, RequestsOnly DEF threadVars, counters, ThreadIInv
<1> QED
  BY <1>2, <1>3

LEMMA ThreadInvariance == ThreadSpec => []ThreadIInv
<1>1. ThreadInit => ThreadIInv
  BY ThreadInitIInv
<1>2. ThreadIInv /\ [ThreadNext]_threadVars => ThreadIInv'
  BY ThreadNextIInv
<1> QED
  BY <1>1, <1>2, PTL DEF ThreadSpec

(* Topics, contents, counters and requests hold what their columns admit;  *)
(* above all the counters never go below zero.                             *)
THEOREM ThreadTypeCorrect == ThreadSpec => []ThreadTypeOK
<1>1. ThreadIInv => ThreadTypeOK
  BY FS_CardinalityType DEF ThreadIInv, Requested, Bodies, Counters, Places, FiniteRows,
     CountsAreExact, PublishedComments, PostReporters, ThreadTypeOK
<1> QED
  BY <1>1, ThreadInvariance, PTL

(* The counters of the post are those of its rows after every commit, for  *)
(* any number of requests in flight (adjust_post_comment_count(),          *)
(* adjust_count(), _apply()).                                              *)
THEOREM CountersAgree == ThreadSpec => []CountsAreExact
<1>1. ThreadIInv => CountsAreExact
  BY DEF ThreadIInv, Counters
<1> QED
  BY <1>1, ThreadInvariance, PTL

(* A post that is not removed is in a topic that is not, whatever removal  *)
(* and moving, insertion or approval come between (_hydrate()).            *)
THEOREM PostsKeepTheirTopic == ThreadSpec => []NoPostInDeletedTopic
<1>1. ThreadIInv => NoPostInDeletedTopic
  BY DEF ThreadIInv, Places
<1> QED
  BY <1>1, ThreadInvariance, PTL

(* Only a reply, or a report, can be one of two requests that wait for     *)
(* each other, whatever they are about.                                    *)
THEOREM FewPairsDeadlock == ThreadSpec => []OnlyThesePairsDeadlock
  BY FewDeadlock, ThreadInvariance, PTL

=============================================================================
