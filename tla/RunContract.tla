----------------------------- MODULE RunContract -----------------------------
(***************************************************************************)
(* What the agent runtime promises about a run, whatever happens to the    *)
(* workers, commands and checkpoints that drive it: the statuses a client  *)
(* of the API can see it go through, one closing notice, and every guarded *)
(* tool call performed at most once, only when the run leaves a wait for   *)
(* an approval.                                                            *)
(***************************************************************************)
EXTENDS Integers

CONSTANTS Runs,   \* the runs
          Calls   \* the guarded tool calls a run can make

VARIABLE contract  \* contract[r]: what is promised of run r

Waiting == {"awaiting_input", "awaiting_approval"}
Final == {"succeeded", "partial", "failed", "cancelled"}

Init == contract = [r \in Runs |->
            [status |-> "absent", notices |-> 0, performed |-> {}]]

(* p is the promise before the step and q after it. *)
Opens(p, q) ==
    /\ p.status = "absent"
    /\ q = [p EXCEPT !.status = "created"]

Performs(p, q) ==
    \/ q.performed = p.performed
    \/ /\ p.status = "awaiting_approval"
       /\ q.status # "cancelled"
       /\ \E c \in Calls \ p.performed : q.performed = p.performed \cup {c}

Pauses(p, q) ==
    /\ p.status \in Waiting \cup {"created"}
    /\ q.status \in Waiting
    /\ q.notices = p.notices
    /\ Performs(p, q)

Ends(p, q) ==
    /\ p.status \in Waiting \cup {"created"}
    /\ q.status \in Final
    /\ q.notices = p.notices + 1
    /\ Performs(p, q)

(* A step may close several runs at once: one poll expires all that is due. *)
Next == \A r \in Runs :
    LET p == contract[r]
        q == contract'[r]
    IN  p = q \/ Opens(p, q) \/ Pauses(p, q) \/ Ends(p, q)

Spec == Init /\ [][Next]_contract
=============================================================================
