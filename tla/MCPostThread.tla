----------------------------- MODULE MCPostThread -----------------------------
(* PostThread for TLC: two requests at a time, two topics, two comments.   *)
EXTENDS PostThread, TLC

CONSTANTS t1, t2, u1, s1, s2
MCTopics == {t1, t2}
MCUsers == {u1}
MCComments == 1..2
MCSessions == {s1, s2}
Symmetry == Permutations(MCTopics) \cup Permutations(MCSessions)
===============================================================================
