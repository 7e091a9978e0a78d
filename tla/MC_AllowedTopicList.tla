------------------------ MODULE MC_AllowedTopicList ------------------------
(* Two evaluator threads, two topics and three filters: f1 and f3 match   *)
(* one topic each, f2 (a wildcard) both.  The constructible lists are     *)
(* {}, {f1}, {f2}, {f3} and {f1, f3}.                                      *)
EXTENDS AllowedTopicList, TLC

CONSTANTS t1, t2, f1, f2, f3, e1, e2

MCTopics == {t1, t2}

MCFilters == {f1, f2, f3}

MCMatch == (f1 :> {t1}) @@ (f2 :> {t1, t2}) @@ (f3 :> {t2})

MCEvaluators == {e1, e2}

(* Three configurations: allow only t1; allow everything but t1; a        *)
(* wildcard allowlist with t2 blocked (the same verdicts as the first,    *)
(* built differently).                                                    *)
MCLoaded == {<<{f1}, {}>>, <<{}, {f1}>>, <<{f2}, {f3}>>}
=============================================================================
