------------------------------- MODULE MC_Router -------------------------------
EXTENDS Router, TLC

CONSTANTS i1, i2, i3, t1, t2

MCIds == {i1, i2, i3}
MCTopics == {t1, t2}

(* Three participants, two of three ids, and a configuration that repeats *)
(* an id (add_participant_ throws on the third).                            *)
MCPlans == {<<i1, i2, i3>>, <<i2, i3>>, <<i1, i2, i1>>}
=============================================================================
