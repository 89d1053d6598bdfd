------------------------- MODULE AgentRuntimeContract -------------------------
(* AgentRuntime implements RunContract. *)
EXTENDS AgentRuntime

(* The closing notices of a run are the terminal events in its log. *)
Notices(e) == Cardinality({i \in DOMAIN e : e[i] \in TerminalEvents})

Promise(r) == [status |-> run[r],
               notices |-> Notices(events[r]),
               performed |-> {n \in Steps : effects[r][n] > 0}]

Contract == INSTANCE RunContract WITH
    Calls <- Steps,
    contract <- [r \in Runs |-> Promise(r)]

(* Every behaviour of the runtime keeps the promise made of each run. *)
KeepsContract == Contract!Spec
=============================================================================
