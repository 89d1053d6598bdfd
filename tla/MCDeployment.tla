---------------------------- MODULE MCDeployment ----------------------------
(* The seeded order that is being processed, and an event with one user    *)
(* more than the seeded one.                                               *)
EXTENDS Deployment

MCPath == <<"submitted", "accepted", "processing">>
==============================================================================
