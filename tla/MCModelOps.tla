------------------------------ MODULE MCModelOps ------------------------------
(* Small instances of ModelOps for TLC. *)
EXTENDS ModelOps, TLC

(* A second generator, one that may not be activated, and an adapter.      *)
SomeKinds == {<<"complex_generation", "deepseek">>, <<"complex_generation", "local">>,
              <<"agent_router", "local">>}
=============================================================================
