--------------------------- MODULE FilterReduction ---------------------------
(***************************************************************************)
(* AllowedTopicList::get_topic_list_without_repetition_, one outer-loop    *)
(* iteration per step.                                                     *)
(*                                                                         *)
(* The input is a std::set<shared_ptr<DdsFilterTopic>>, iterated in       *)
(* pointer order, which the code does not control: each step processes    *)
(* any candidate still pending.  The inner loop over non_repeated_list is *)
(* in pointer order too, and it breaks at the first stored filter that    *)
(* contains the candidate; the stored filters the candidate contains that *)
(* were scanned before that break are still erased.  Which ones were      *)
(* scanned is the nondeterministic choice `scanned`.  In a list free of   *)
(* redundancy that choice is always empty: a stored filter containing the *)
(* candidate would contain every stored filter the candidate contains.    *)
(***************************************************************************)
EXTENDS TopicFilter

VARIABLES input,    \* the list passed in (fixed during the call)
          pending,  \* candidates the outer loop has not reached yet
          result    \* non_repeated_list

vars == <<input, pending, result>>

(* Stored filters that contain the candidate: any of them sets add_it to   *)
(* FALSE and breaks.                                                       *)
Containers(n, S) == {s \in S : Contains(s, n)}

(* Stored filters that reach the `else if` branch and are contained by    *)
(* the candidate: they go into `repeated`.                                *)
Subsumed(n, S) == {s \in S : ~Contains(s, n) /\ Contains(n, s)}

Init ==
    /\ input \in SUBSET Filters
    /\ pending = input
    /\ result = {}

(* Mutant: the outer loop does not advance past the candidate.            *)
ProcessCandidateNoAdvance(n) ==
    /\ n \in pending
    /\ UNCHANGED pending
    /\ \/ /\ Containers(n, result) = {}
          /\ result' = (result \ Subsumed(n, result)) \cup {n}
       \/ /\ Containers(n, result) # {}
          /\ \E scanned \in SUBSET Subsumed(n, result) :
                result' = result \ scanned
    /\ UNCHANGED input

(* Mutant: the containment check of the stored filters is dropped, so     *)
(* add_it stays TRUE and a contained candidate is inserted.                *)
ProcessCandidateAlwaysAdd(n) ==
    /\ n \in pending
    /\ pending' = pending \ {n}
    /\ result' = (result \ Subsumed(n, result)) \cup {n}
    /\ UNCHANGED input

(* Mutant: when the scan breaks, every stored filter the candidate        *)
(* contains is erased, the container that made it break included: a       *)
(* stored filter equal to the candidate is erased and the candidate        *)
(* discarded, so the pattern leaves the list.                              *)
ProcessCandidateNoElse(n) ==
    /\ n \in pending
    /\ pending' = pending \ {n}
    /\ \/ /\ Containers(n, result) = {}
          /\ result' = (result \ Subsumed(n, result)) \cup {n}
       \/ /\ Containers(n, result) # {}
          /\ result' = result \ {s \in result : Contains(n, s)}
    /\ UNCHANGED input

(* Mutant: the candidate is inserted only when it replaced nothing         *)
(* (`if (add_it && repeated.empty())`).                                    *)
ProcessCandidateOnlyIfNoRepeated(n) ==
    /\ n \in pending
    /\ pending' = pending \ {n}
    /\ \/ /\ Containers(n, result) = {}
          /\ result' = IF Subsumed(n, result) = {}
                       THEN result \cup {n}
                       ELSE result \ Subsumed(n, result)
       \/ /\ Containers(n, result) # {}
          /\ \E scanned \in SUBSET Subsumed(n, result) :
                result' = result \ scanned
    /\ UNCHANGED input

(* One iteration of the outer for loop: scan, erase `repeated`, insert    *)
(* the candidate when add_it.                                              *)
ProcessCandidate(n) ==
    /\ n \in pending
    /\ pending' = pending \ {n}
    /\ \/ /\ Containers(n, result) = {}
          /\ result' = (result \ Subsumed(n, result)) \cup {n}
       \/ /\ Containers(n, result) # {}
          /\ \E scanned \in SUBSET Subsumed(n, result) :
                result' = result \ scanned
    /\ UNCHANGED input

Next == \E n \in Filters : ProcessCandidate(n)

Spec == Init /\ [][Next]_vars

-----------------------------------------------------------------------------
(* Type invariant; the kept filters are among the candidates the loop has *)
(* already processed (the loop moves past each candidate it handles).     *)
TypeOK ==
    /\ input \in SUBSET Filters
    /\ pending \in SUBSET input
    /\ result \in SUBSET (input \ pending)

(* The list is free of redundancy: no kept filter contains another one,   *)
(* whatever order the two std::set iterations take (spec section 3).      *)
NoRedundancy == NoContainment(result)

(* No candidate is lost: every filter already processed is contained by  *)
(* a filter kept in non_repeated_list, even when an erase of `repeated`   *)
(* and a break of the scan happen in the same iteration.                  *)
Coverage ==
    \A f \in input \ pending : \E g \in result : Contains(g, f)

(* Reducing a list never changes a routing decision: on every topic, the  *)
(* kept filters admit (as an allowlist, with the empty-list default) and   *)
(* block (as a blocklist) exactly what the processed part of the          *)
(* operator's list does.                                                   *)
PreservesVerdict ==
    \A t \in Topics :
        /\ PassesAllowlist(result, t) = PassesAllowlist(input \ pending, t)
        /\ Blocked(result, t) = Blocked(input \ pending, t)

-----------------------------------------------------------------------------
(* Refinement mapping: the call has returned once the outer loop has no    *)
(* candidate left; until then the caller sees no list.                     *)
Contract == INSTANCE ReductionContract
               WITH list <- input,
                    returned <- pending = {},
                    out <- IF pending = {} THEN result ELSE {}
=============================================================================
