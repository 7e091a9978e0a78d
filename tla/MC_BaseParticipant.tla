------------------------ MODULE MC_BaseParticipant ------------------------
(* Two topics, and up to five endpoints created over the life of the      *)
(* participant: enough to create, delete and re-create a writer for one   *)
(* topic while a stale pointer to the first one is still passed around.   *)
EXTENDS BaseParticipant, TLC

CONSTANTS t1, t2

MCTopics == {t1, t2}
=============================================================================
