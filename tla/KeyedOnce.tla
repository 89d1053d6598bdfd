------------------------------- MODULE KeyedOnce -------------------------------
(***************************************************************************)
(* What the Idempotency-Key of a request promises its client: whatever is  *)
(* sent under one key, and however often, has at most one effect, and      *)
(* every successful answer to that key tells of that effect.               *)
(***************************************************************************)
CONSTANTS Keys, Effects

VARIABLES
    done,  \* done[k]: the effects of the requests with key k
    told   \* the successful answers: pairs of a key and an effect

vars == <<done, told>>

Init == done = [k \in Keys |-> {}] /\ told = {}

Do(k, e) ==
    /\ done[k] = {}
    /\ done' = [done EXCEPT ![k] = {e}]
    /\ told' \in {told, told \cup {<<k, e>>}}

Tell(k) ==
    /\ \E e \in done[k] : told' = told \cup {<<k, e>>}
    /\ UNCHANGED done

Next == \E k \in Keys : Tell(k) \/ \E e \in Effects : Do(k, e)

Spec == Init /\ [][Next]_vars
=============================================================================
