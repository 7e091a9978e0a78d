------------------------- MODULE MC_FilterReduction -------------------------
(* Five filters over three topics: two filters with the same pattern      *)
(* (f1, f2: two YAML entries for one exact topic), a wildcard containing  *)
(* them (f3), one overlapping f3 without containment (f4) and a pattern   *)
(* that matches nothing (f5).  Every input set is an initial state.       *)
EXTENDS FilterReduction, TLC

CONSTANTS t1, t2, t3, f1, f2, f3, f4, f5

MCTopics == {t1, t2, t3}

MCFilters == {f1, f2, f3, f4, f5}

MCMatch == (f1 :> {t1}) @@ (f2 :> {t1}) @@ (f3 :> {t1, t2})
             @@ (f4 :> {t2, t3}) @@ (f5 :> {})
=============================================================================
