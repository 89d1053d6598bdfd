--------------------------- MODULE MCAgentRuntime ---------------------------
(* A small instance of the runtime and its contract for TLC.  Liveness is  *)
(* checked in the same run, so neither workers nor runs are declared       *)
(* symmetric.                                                              *)
EXTENDS AgentRuntimeContract, TLC
=============================================================================
