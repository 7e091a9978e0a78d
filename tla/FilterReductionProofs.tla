------------------------ MODULE FilterReductionProofs ------------------------
(***************************************************************************)
(* Proofs that get_topic_list_without_repetition_ returns a list free of   *)
(* redundancy that decides every topic as the operator's list does, for   *)
(* every set of filters, every matching and every iteration order.        *)
(*                                                                         *)
(* NoRedundancy alone is not inductive: the `repeated` erased in a        *)
(* discarding iteration could drop a filter that was the only cover of    *)
(* an earlier candidate.  Coverage says each processed candidate still    *)
(* has a cover, and with TypeOK (the kept filters are processed ones) the *)
(* three are inductive; the verdict follows from Coverage and TypeOK.     *)
(***************************************************************************)
EXTENDS FilterReduction, TLAPS

IInv == TypeOK /\ NoRedundancy /\ Coverage

(* Containment is transitive: it is inclusion of the matched topics.       *)
LEMMA ContainsTransitive ==
    ASSUME NEW f \in Filters, NEW g \in Filters, NEW h \in Filters,
           Contains(f, g), Contains(g, h)
    PROVE  Contains(f, h)
BY DEF Contains

LEMMA ContainsReflexive ==
    ASSUME NEW f \in Filters
    PROVE  Contains(f, f)
BY DEF Contains

LEMMA InitIInv == Init => IInv
BY DEF Init, IInv, TypeOK, NoRedundancy, NoContainment, Coverage

(* The step of one outer-loop iteration, split on the two branches.        *)
LEMMA StepIInv ==
    ASSUME IInv, NEW n \in Filters, ProcessCandidate(n)
    PROVE  IInv'
<1> USE DEF IInv
<1>1. n \in pending /\ pending' = pending \ {n} /\ input' = input
  BY DEF ProcessCandidate
<1>2. n \in input
  BY <1>1 DEF TypeOK
<1>3. input \ pending' = (input \ pending) \cup {n}
  BY <1>1, <1>2
<1>4. result \subseteq Filters
  BY DEF TypeOK
<1>5. CASE /\ Containers(n, result) = {}
           /\ result' = (result \ Subsumed(n, result)) \cup {n}
  <2>1. TypeOK'
    BY <1>1, <1>2, <1>5 DEF TypeOK
  <2>2. \A g \in result \ Subsumed(n, result) :
            ~Contains(g, n) /\ ~Contains(n, g)
    BY <1>5 DEF Containers, Subsumed
  <2>3. NoRedundancy'
    BY <1>5, <2>2 DEF NoRedundancy, NoContainment
  <2>4. Coverage'
    <3> SUFFICES ASSUME NEW f \in input' \ pending'
                 PROVE  \E g \in result' : Contains(g, f)
      BY DEF Coverage
    <3>1. CASE f = n
      BY <3>1, <1>5, ContainsReflexive
    <3>2. CASE f # n
      <4>1. f \in input \ pending
        BY <3>2, <1>1, <1>3
      <4>2. PICK g \in result : Contains(g, f)
        BY <4>1 DEF Coverage
      <4>3. CASE g \in Subsumed(n, result)
        <5>1. Contains(n, g)
          BY <4>3 DEF Subsumed
        <5>2. f \in Filters
          BY <4>1 DEF TypeOK
        <5>3. Contains(n, f)
          BY <5>1, <5>2, <4>2, <1>4, ContainsTransitive
        <5>. QED  BY <5>3, <1>5
      <4>4. CASE g \notin Subsumed(n, result)
        BY <4>2, <4>4, <1>5
      <4>. QED  BY <4>3, <4>4
    <3>. QED  BY <3>1, <3>2
  <2>. QED  BY <2>1, <2>3, <2>4
<1>6. CASE /\ Containers(n, result) # {}
           /\ \E scanned \in SUBSET Subsumed(n, result) :
                 result' = result \ scanned
  <2>1. PICK scanned \in SUBSET Subsumed(n, result) : result' = result \ scanned
    BY <1>6
  <2>2. PICK c \in result : Contains(c, n)
    BY <1>6 DEF Containers
  <2>3. c \in result'
    BY <2>1, <2>2 DEF Subsumed
  <2>4. TypeOK'
    BY <1>1, <1>3, <2>1 DEF TypeOK
  <2>5. NoRedundancy'
    BY <2>1 DEF NoRedundancy, NoContainment
  <2>6. Coverage'
    <3> SUFFICES ASSUME NEW f \in input' \ pending'
                 PROVE  \E g \in result' : Contains(g, f)
      BY DEF Coverage
    <3>1. CASE f = n
      BY <3>1, <2>2, <2>3
    <3>2. CASE f # n
      <4>1. f \in input \ pending
        BY <3>2, <1>1, <1>3
      <4>2. PICK g \in result : Contains(g, f)
        BY <4>1 DEF Coverage
      <4>3. f \in Filters
        BY <4>1 DEF TypeOK
      <4>4. CASE g \in scanned
        <5>1. Contains(n, g)
          BY <4>4, <2>1 DEF Subsumed
        <5>2. Contains(c, f)
          BY <5>1, <4>2, <2>2, <4>3, <1>4, ContainsTransitive
        <5>. QED  BY <5>2, <2>3
      <4>5. CASE g \notin scanned
        BY <4>2, <4>5, <2>1
      <4>. QED  BY <4>4, <4>5
    <3>. QED  BY <3>1, <3>2
  <2>. QED  BY <2>4, <2>5, <2>6
<1>. QED  BY <1>5, <1>6 DEF ProcessCandidate

LEMMA NextIInv == IInv /\ [Next]_vars => IInv'
<1> SUFFICES ASSUME IInv, [Next]_vars PROVE IInv'
  OBVIOUS
<1>1. CASE Next
  BY <1>1, StepIInv DEF Next
<1>2. CASE UNCHANGED vars
  BY <1>2 DEF vars, IInv, TypeOK, NoRedundancy, NoContainment, Coverage
<1>. QED  BY <1>1, <1>2

(* Every state of every reduction has the kept filters among the          *)
(* processed candidates (TypeOK).                                          *)
THEOREM TypeCorrect == Spec => []TypeOK
<1>1. IInv => TypeOK
  BY DEF IInv
<1>. QED  BY <1>1, InitIInv, NextIInv, PTL DEF Spec

(* No filter kept by get_topic_list_without_repetition_ contains another   *)
(* kept filter, whatever the iteration orders.                             *)
THEOREM NoRedundancyHolds == Spec => []NoRedundancy
<1>1. IInv => NoRedundancy
  BY DEF IInv
<1>. QED  BY <1>1, InitIInv, NextIInv, PTL DEF Spec

(* Every processed candidate stays covered by a kept filter.               *)
THEOREM CoverageHolds == Spec => []Coverage
<1>1. IInv => Coverage
  BY DEF IInv
<1>. QED  BY <1>1, InitIInv, NextIInv, PTL DEF Spec

(* Coverage and TypeOK give the same allow and block decisions.            *)
LEMMA VerdictFromCoverage == IInv => PreservesVerdict
<1> SUFFICES ASSUME IInv, NEW t \in Topics
             PROVE  /\ PassesAllowlist(result, t)
                          = PassesAllowlist(input \ pending, t)
                    /\ Blocked(result, t) = Blocked(input \ pending, t)
  BY DEF PreservesVerdict
<1>1. result \subseteq input \ pending
  BY DEF IInv, TypeOK
<1>2. \A f \in input \ pending : \E g \in result : t \in Match[f] => t \in Match[g]
  BY DEF IInv, Coverage, Contains
<1>3. (\E f \in result : Matches(f, t)) <=> (\E f \in input \ pending : Matches(f, t))
  BY <1>1, <1>2 DEF Matches
<1>4. (result = {}) <=> (input \ pending = {})
  BY <1>1, <1>2
<1>. QED  BY <1>3, <1>4 DEF PassesAllowlist, Blocked

(* The reduced list routes every topic exactly as the processed part of   *)
(* the operator's list would, as an allowlist and as a blocklist.          *)
THEOREM VerdictPreserved == Spec => []PreservesVerdict
<1>. QED  BY VerdictFromCoverage, InitIInv, NextIInv, PTL DEF Spec

-----------------------------------------------------------------------------
(* Refinement of the call's contract: the caller sees no list until the   *)
(* loop has processed every candidate, and then an admissible reduction.  *)

LEMMA InitRefines == Init => Contract!Init
BY DEF Init, Contract!Init

(* A loop iteration that processes the last candidate is the contract's   *)
(* Return; every other one leaves the caller's view unchanged.             *)
LEMMA StepRefines ==
    IInv /\ IInv' /\ [Next]_vars => [Contract!Return]_Contract!vars
<1> SUFFICES ASSUME IInv, IInv', [Next]_vars
             PROVE  [Contract!Return]_Contract!vars
  OBVIOUS
<1>1. CASE UNCHANGED vars
  BY <1>1 DEF vars, Contract!vars
<1>2. CASE Next
  <2>1. PICK n \in Filters : ProcessCandidate(n)
    BY <1>2 DEF Next
  <2>2. pending # {} /\ input' = input
    BY <2>1 DEF ProcessCandidate
  <2>3. CASE pending' # {}
    BY <2>2, <2>3 DEF Contract!vars
  <2>4. CASE pending' = {}
    <3>1. result' \in Contract!Reductions(input)
      BY <2>2, <2>4 DEF IInv, TypeOK, NoRedundancy, Coverage,
                       Contract!Reductions, Contract!ReducedLists,
                       Contract!NoContainment, Contract!Contains,
                       NoContainment, Contains
    <3>. QED  BY <2>2, <2>4, <3>1 DEF Contract!Return
  <2>. QED  BY <2>3, <2>4
<1>. QED  BY <1>1, <1>2

(* Every reduction is a behaviour of the contract, up to stuttering: the  *)
(* call's visible result appears in one step and is a redundancy-free     *)
(* list drawn from the operator's list that covers all of it.             *)
THEOREM RefinesContract ==
    Spec => Contract!Init /\ [][Contract!Return]_Contract!vars
<1>1. Spec => []IInv
  BY InitIInv, NextIInv, PTL DEF Spec
<1>. QED  BY <1>1, InitRefines, StepRefines, PTL DEF Spec
=============================================================================
