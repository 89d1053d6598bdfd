--------------------------- MODULE ModeratedContent ---------------------------
(***************************************************************************)
(* Community content under moderation: what a scan of its text, a report   *)
(* and the decision of a moderator do to a row and to its cases.  Events   *)
(* and lost-and-found items share it; a content is a record of             *)
(*   st     its status,                                                    *)
(*   case   its moderation_case_id (0: none),                              *)
(*   cases  the status of the cases opened for it, oldest first.           *)
(***************************************************************************)
EXTENDS Integers, Sequences

CONSTANT Users  \* who posts, registers, claims, comments and reports

(* The status _scan() gives to allowed or masked, to doubtful and to       *)
(* blocked text.                                                           *)
ScanResults == {"published", "pending_review", "rejected"}
Decisions == {"approved", "rejected", "escalated"}
CaseStatus == {"pending"} \cup Decisions

OpenCases(c) == {k \in DOMAIN c.cases : c.cases[k] = "pending"}
FirstOf(S) == CHOOSE k \in S : \A j \in S : k <= j

(* A new case opened and linked.                                           *)
Linked(c) == [c EXCEPT !.case = Len(c.cases) + 1,
                       !.cases = Append(@, "pending")]

(* _scan(): text that is not allowed opens a case; allowed text unlinks    *)
(* the current one and leaves it as it is.                                 *)
Scanned(c, result) ==
    IF result = "published"
    THEN [c EXCEPT !.st = result, !.case = 0]
    ELSE [Linked(c) EXCEPT !.st = result]

(* A first report by a user: an open case of the content is linked to it,  *)
(* or else a new one.                                                      *)
Reported(c) ==
    IF OpenCases(c) # {}
    THEN [c EXCEPT !.case = FirstOf(OpenCases(c))]
    ELSE Linked(c)

(* A case can be decided while it is open and its content refers to it.    *)
Decidable(c, k) == k \in OpenCases(c) /\ k = c.case

(* Mutant: a decision forgets the content.                                 *)
DecidedAlone(c, k, decision) == [c EXCEPT !.cases[k] = decision]

(* decide() and the handler's _apply(): whatever the status of the content *)
(* is, unless it was deleted, the decision replaces it.                    *)
Decided(c, k, decision) ==
    [c EXCEPT !.cases[k] = decision,
              !.st = IF @ = "deleted" \/ decision = "escalated" THEN @
                     ELSE IF decision = "approved" THEN "published"
                     ELSE "rejected"]
=============================================================================
