-------------------------- MODULE ReductionContract --------------------------
(***************************************************************************)
(* What get_topic_list_without_repetition_ promises its caller, the       *)
(* AllowedTopicList constructor (spec section 3): the call returns, in one *)
(* step, some list drawn from the operator's list that has no redundant   *)
(* filter and still covers every filter of the operator's list.  Which    *)
(* such list is left open: it depends on the std::set pointer order.      *)
(***************************************************************************)
EXTENDS TopicFilter

VARIABLES list,      \* the operator's list passed to the call
          returned,  \* whether the call has returned
          out        \* the list it returned ({} while it runs)

vars == <<list, returned, out>>

(* The lists the call may return for the operator's list l.               *)
Reductions(l) ==
    {S \in ReducedLists :
        /\ S \subseteq l
        /\ \A f \in l : \E g \in S : Contains(g, f)}

Init ==
    /\ list \in SUBSET Filters
    /\ returned = (list = {})
    /\ out = {}

(* The call returns one of the admissible reductions.                      *)
Return ==
    /\ ~returned
    /\ returned' = TRUE
    /\ out' \in Reductions(list)
    /\ UNCHANGED list

Spec == Init /\ [][Return]_vars /\ WF_vars(Return)

-----------------------------------------------------------------------------
(* Once the call returned, its list is an admissible reduction.            *)
ReturnsReduction == returned => out \in Reductions(list)
=============================================================================
