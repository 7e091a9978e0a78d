---------------------- MODULE AllowedTopicListProofs ----------------------
(***************************************************************************)
(* Proofs about AllowedTopicList shared by evaluator threads and the      *)
(* reconfiguring thread: the lists always hold reduced filter lists, and  *)
(* a call that no operator= overlapped returns the verdict of the         *)
(* configuration in place, for every set of threads, topics, filters and  *)
(* loaded configurations.                                                  *)
(*                                                                         *)
(* QuiescentVerdict speaks only of finished calls; what makes it hold is  *)
(* what a call in progress already knows.  The inductive invariant says:  *)
(*   - a thread inside a call holds mutex_ (LockHeld), so clear() cannot   *)
(*     change the configuration under it;                                  *)
(*   - outside an operator= the lists are the committed configuration,    *)
(*     and inside one the allowlist is already the new one (Committed);    *)
(*   - a call not overlapped by operator= has evaluated a prefix of its   *)
(*     topics against that configuration, all allowed, and the topic it   *)
(*     is on passed the allowlist if it reached the blocklist             *)
(*     (CallProgress).                                                     *)
(***************************************************************************)
EXTENDS AllowedTopicList, SequenceTheorems, TLAPS

LockHeld == \A e \in Evaluators : pc[e] # "idle" => owner = e

Committed ==
    /\ rpc = "idle" => allowlist = cfg[1] /\ blocklist = cfg[2]
    /\ rpc = "block" => allowlist = other[1]

(* What a call of thread e that no operator= overlapped already knows.     *)
Progress(e) ==
    /\ rpc = "idle"
    /\ call[e] \in Calls
    /\ \/ todo[e] = call[e]
       \/ /\ Len(call[e]) = 2
          /\ todo[e] = Tail(call[e])
          /\ IsTopicAllowed(cfg[1], cfg[2], call[e][1])
    /\ pc[e] = "block" => PassesAllowlist(cfg[1], Head(todo[e]))
    /\ pc[e] = "done" => res[e] = Verdict(cfg, call[e])

CallProgress ==
    \A e \in Evaluators : pc[e] # "idle" /\ ~overlap[e] => Progress(e)

(* The overlap history is a flag per thread.                              *)
HistoryOK == overlap \in [Evaluators -> BOOLEAN]

IInv == TypeOK /\ HistoryOK /\ LockHeld /\ Committed /\ CallProgress
-----------------------------------------------------------------------------
(* A call is one topic or the two topics of a service.                     *)
LEMMA CallShape ==
    ASSUME NEW k \in Calls
    PROVE  /\ k \in Seq(Topics)
           /\ Len(k) \in {1, 2}
           /\ Len(k) = 2 => Tail(k) = <<k[2]>>
<1>1. CASE \E t \in Topics : k = <<t>>
  BY <1>1
<1>2. CASE \E a, b \in Topics : k = <<a, b>>
  <2>1. PICK a, b \in Topics : k = <<a, b>>
    BY <1>2
  <2>2. Tail(k) = <<b>>
    BY <2>1
  <2>. QED  BY <2>1, <2>2
<1>. QED  BY <1>1, <1>2 DEF Calls, Services

LEMMA VerdictOne ==
    ASSUME NEW c, NEW k \in Calls, Len(k) = 1
    PROVE  Verdict(c, k) <=> IsTopicAllowed(c[1], c[2], k[1])
<1>1. 1..Len(k) = {1}
  OBVIOUS
<1>. QED  BY <1>1 DEF Verdict

LEMMA VerdictTwo ==
    ASSUME NEW c, NEW k \in Calls, Len(k) = 2
    PROVE  Verdict(c, k) <=> /\ IsTopicAllowed(c[1], c[2], k[1])
                             /\ IsTopicAllowed(c[1], c[2], k[2])
<1>1. 1..Len(k) = {1, 2}
  OBVIOUS
<1>. QED  BY <1>1 DEF Verdict

(* Nobody but the owner of mutex_ is inside a call.                         *)
LEMMA OthersIdle ==
    ASSUME LockHeld, NEW e \in Evaluators, owner \in {e, NoThread},
           NEW d \in Evaluators, d # e
    PROVE  pc[d] = "idle"
BY ThreadsAssumption DEF LockHeld

LEMMA InitIInv == Init => IInv
<1> SUFFICES ASSUME Init PROVE IInv
  OBVIOUS
<1>1. PICK c \in Loaded : allowlist = c[1] /\ blocklist = c[2] /\ cfg = c /\ other = c
  BY DEF Init
<1>2. c \in Configs
  BY LoadedAssumption
<1>3. TypeOK
  BY <1>1, <1>2, ThreadsAssumption DEF Init, TypeOK, Configs
<1>4. LockHeld /\ CallProgress /\ HistoryOK
  BY DEF Init, LockHeld, CallProgress, Progress, HistoryOK
<1>5. Committed
  BY <1>1, <1>2 DEF Init, Committed, Configs
<1>. QED  BY <1>3, <1>4, <1>5 DEF IInv
(* lock_guard: the caller takes mutex_, and a call that starts outside an  *)
(* operator= starts with all its topics to evaluate.                       *)
LEMMA EvaluateIInv ==
    ASSUME IInv, NEW e \in Evaluators, NEW k \in Calls, Evaluate(e, k)
    PROVE  IInv'
<1>1. \A d \in Evaluators : d # e => pc[d] = "idle"
  BY OthersIdle DEF Evaluate, IInv
<1>2. k \in Seq(Topics) /\ k # <<>>
  BY CallShape
<1>3. TypeOK'
  BY <1>2 DEF Evaluate, IInv, TypeOK
<1>4. LockHeld'
  BY <1>1 DEF Evaluate, LockHeld
<1>5. Committed'
  BY DEF Evaluate, IInv, Committed
<1>7. HistoryOK'
  BY DEF Evaluate, IInv, HistoryOK
<1>6. CallProgress'
  <2> SUFFICES ASSUME NEW d \in Evaluators, pc'[d] # "idle", ~overlap'[d]
               PROVE  Progress(d)'
    BY DEF CallProgress, Progress
  <2>1. CASE d = e
    <3>0. overlap'[e] <=> rpc # "idle"
      <4>1. overlap' = [overlap EXCEPT ![e] = (rpc # "idle")]
        BY DEF Evaluate
      <4>2. e \in DOMAIN overlap
        BY DEF IInv, HistoryOK
      <4>. QED  BY <4>1, <4>2, Zenon
    <3>1. rpc = "idle"
      BY <2>1, <3>0
    <3>2. call'[e] = k /\ todo'[e] = k /\ pc'[e] = "allow"
      BY DEF Evaluate, IInv, TypeOK
    <3>. QED  BY <2>1, <3>1, <3>2 DEF Evaluate, Progress
  <2>2. CASE d # e
    BY <2>2, <1>1 DEF Evaluate, IInv, TypeOK
  <2>. QED  BY <2>1, <2>2
<1>. QED  BY <1>3, <1>4, <1>5, <1>6, <1>7 DEF IInv
(* The topic the call is on: the request (or only) topic, or the reply     *)
(* topic after the request passed.                                         *)
LEMMA CurrentTopic ==
    ASSUME TypeOK, CallProgress, NEW e \in Evaluators,
           pc[e] \in {"allow", "block"}, ~overlap[e]
    PROVE  /\ call[e] \in Calls
           /\ \/ Head(todo[e]) = call[e][1] /\ todo[e] = call[e]
              \/ /\ Head(todo[e]) = call[e][2] /\ Len(call[e]) = 2
                 /\ Len(todo[e]) = 1
                 /\ IsTopicAllowed(cfg[1], cfg[2], call[e][1])
<1>1. call[e] \in Calls
  BY DEF CallProgress, Progress
<1>2. /\ call[e] \in Seq(Topics) /\ Len(call[e]) \in {1, 2}
      /\ Len(call[e]) = 2 => Tail(call[e]) = <<call[e][2]>>
  BY <1>1, CallShape
<1>3. Progress(e)
  BY DEF CallProgress
<1>4. CASE todo[e] = call[e]
  <2>1. Len(call[e]) >= 1
    BY <1>2
  <2>. QED  BY <1>1, <1>2, <1>4, <2>1
<1>5. CASE /\ Len(call[e]) = 2
           /\ todo[e] = Tail(call[e])
           /\ IsTopicAllowed(cfg[1], cfg[2], call[e][1])
  <2>1. todo[e] = <<call[e][2]>>
    BY <1>2, <1>5
  <2>. QED  BY <1>1, <1>5, <2>1
<1>. QED  BY <1>3, <1>4, <1>5 DEF Progress

(* What one step of the allowlist loop changes: thread e's pc, and its    *)
(* result when the topic is rejected.                                      *)
LEMMA CheckAllowlistEffect ==
    ASSUME TypeOK, NEW e \in Evaluators, CheckAllowlist(e)
    PROVE  /\ pc[e] = "allow"
           /\ UNCHANGED <<allowlist, blocklist, owner, todo, call, rpc, other,
                          cfg, seen, overlap>>
           /\ \A d \in Evaluators : d # e => pc'[d] = pc[d] /\ res'[d] = res[d]
           /\ pc' \in [Evaluators -> {"idle", "allow", "block", "done"}]
           /\ res' \in [Evaluators -> BOOLEAN]
           /\ PassesAllowlist(allowlist, Head(todo[e])) =>
                 pc'[e] = "block" /\ res'[e] = res[e]
           /\ ~PassesAllowlist(allowlist, Head(todo[e])) =>
                 pc'[e] = "done" /\ res'[e] = FALSE
<1>1. UNCHANGED <<allowlist, blocklist, owner, todo, call, rpc, other,
                  cfg, seen, overlap>>
  BY DEF CheckAllowlist
<1>2. CASE PassesAllowlist(allowlist, Head(todo[e]))
  <2>1. pc' = [pc EXCEPT ![e] = "block"] /\ res' = res
    BY <1>2 DEF CheckAllowlist
  <2>. QED  BY <1>1, <1>2, <2>1 DEF CheckAllowlist, TypeOK
<1>3. CASE ~PassesAllowlist(allowlist, Head(todo[e]))
  <2>1. pc' = [pc EXCEPT ![e] = "done"] /\ res' = [res EXCEPT ![e] = FALSE]
    BY <1>3 DEF CheckAllowlist
  <2>. QED  BY <1>1, <1>3, <2>1 DEF CheckAllowlist, TypeOK
<1>. QED  BY <1>2, <1>3, Zenon

(* The allowlist loop, against the committed allowlist when no operator=  *)
(* overlaps: a topic it rejects makes the whole call's verdict false.      *)
LEMMA CheckAllowlistIInv ==
    ASSUME IInv, NEW e \in Evaluators, CheckAllowlist(e)
    PROVE  IInv'
<1>0. /\ pc[e] = "allow"
      /\ UNCHANGED <<allowlist, blocklist, owner, todo, call, rpc, other,
                     cfg, seen, overlap>>
      /\ \A d \in Evaluators : d # e => pc'[d] = pc[d] /\ res'[d] = res[d]
      /\ pc' \in [Evaluators -> {"idle", "allow", "block", "done"}]
      /\ res' \in [Evaluators -> BOOLEAN]
      /\ PassesAllowlist(allowlist, Head(todo[e])) =>
            pc'[e] = "block" /\ res'[e] = res[e]
      /\ ~PassesAllowlist(allowlist, Head(todo[e])) =>
            pc'[e] = "done" /\ res'[e] = FALSE
  <2>1. TypeOK
    BY DEF IInv
  <2>. QED  BY <2>1, CheckAllowlistEffect, Zenon
<1>1. TypeOK'
  <2>1. todo[e] # <<>>
    BY <1>0 DEF IInv, TypeOK
  <2>2. \A d \in Evaluators : pc'[d] \in {"allow", "block"} => todo'[d] # <<>>
    BY <1>0, <2>1 DEF IInv, TypeOK
  <2>. QED  BY <1>0, <2>2 DEF IInv, TypeOK
<1>2. LockHeld' /\ Committed' /\ HistoryOK'
  BY <1>0 DEF IInv, TypeOK, LockHeld, Committed, HistoryOK
<1>3. CallProgress'
  <2> SUFFICES ASSUME NEW d \in Evaluators, pc'[d] # "idle", ~overlap'[d]
               PROVE  Progress(d)'
    BY DEF CallProgress
  <2>1. CASE d # e
    <3>1. pc[d] # "idle" /\ ~overlap[d]
      BY <1>0, <2>1
    <3>2. Progress(d)
      BY <3>1 DEF IInv, CallProgress
    <3>. QED  BY <1>0, <2>1, <3>2 DEF Progress
  <2>2. CASE d = e
    <3>1. ~overlap[e] /\ Progress(e)
      BY <1>0, <2>2 DEF IInv, CallProgress
    <3>2. rpc = "idle" /\ allowlist = cfg[1]
      BY <3>1 DEF IInv, Committed, Progress
    <3>3. /\ call[e] \in Calls
          /\ \/ Head(todo[e]) = call[e][1] /\ todo[e] = call[e]
             \/ /\ Head(todo[e]) = call[e][2] /\ Len(call[e]) = 2
                /\ Len(todo[e]) = 1
                /\ IsTopicAllowed(cfg[1], cfg[2], call[e][1])
      BY <1>0, <3>1, CurrentTopic DEF IInv
    <3>4. CASE PassesAllowlist(allowlist, Head(todo[e]))
      BY <1>0, <2>2, <3>1, <3>2, <3>4 DEF Progress
    <3>5. CASE ~PassesAllowlist(allowlist, Head(todo[e]))
      <4>1. ~Verdict(cfg, call[e])
        <5>1. CASE Len(call[e]) = 1
          BY <3>2, <3>3, <3>5, <5>1, VerdictOne DEF IsTopicAllowed
        <5>2. CASE Len(call[e]) = 2
          <6>1. ~IsTopicAllowed(cfg[1], cfg[2], Head(todo[e]))
            BY <3>2, <3>5 DEF IsTopicAllowed
          <6>2. Verdict(cfg, call[e]) <=>
                   /\ IsTopicAllowed(cfg[1], cfg[2], call[e][1])
                   /\ IsTopicAllowed(cfg[1], cfg[2], call[e][2])
            BY <3>3, <5>2, VerdictTwo
          <6>. QED  BY <3>3, <6>1, <6>2
        <5>. QED  BY <3>3, <5>1, <5>2, CallShape
      <4>2. pc'[e] = "done" /\ res'[e] = FALSE
        BY <1>0, <3>5
      <4>3. /\ rpc' = "idle" /\ cfg' = cfg
            /\ call'[e] = call[e] /\ todo'[e] = todo[e]
        BY <1>0, <3>2
      <4>4. res'[e] = Verdict(cfg, call[e])
        <5>1. Verdict(cfg, call[e]) = FALSE
          BY <4>1 DEF Verdict
        <5>. QED  BY <4>2, <5>1, Zenon
      <4>5. Progress(e)'
        BY <3>1, <4>2, <4>3, <4>4 DEF Progress
      <4>. QED  BY <2>2, <4>5
    <3>. QED  BY <3>4, <3>5 DEF PassesAllowlist
  <2>. QED  BY <2>1, <2>2
<1>. QED  BY <1>1, <1>2, <1>3 DEF IInv

(* A nonempty sequence has one element or more than one, and its tail is  *)
(* nonempty exactly in the second case.                                    *)
LEMMA NonEmptyLen ==
    ASSUME NEW S, NEW s \in Seq(S), s # <<>>
    PROVE  /\ Len(s) = 1 \/ Len(s) > 1
           /\ Len(s) > 1 => Tail(s) # <<>>
<1>1. Len(s) \in Nat \ {0}
  BY EmptySeq
<1>2. Tail(s) \in Seq(S) /\ Len(Tail(s)) = Len(s) - 1
  BY HeadTailProperties
<1>3. Len(<<>>) = 0
  BY EmptySeq
<1>4. \A n \in Nat \ {0} : (n = 1 \/ n > 1) /\ (n > 1 => n - 1 # 0)
  OBVIOUS
<1>5. Len(s) = 1 \/ Len(s) > 1
  BY <1>1, <1>4
<1>6. Len(s) > 1 => Len(Tail(s)) # 0
  BY <1>1, <1>2, <1>4
<1>. QED  BY <1>3, <1>5, <1>6

(* What one step of the blocklist loop changes: thread e's pc, and its    *)
(* result or its remaining topics, in each of the loop's three exits.     *)
LEMMA CheckBlocklistEffect ==
    ASSUME TypeOK, NEW e \in Evaluators, CheckBlocklist(e)
    PROVE  /\ pc[e] = "block"
           /\ UNCHANGED <<allowlist, blocklist, owner, call, rpc, other, cfg,
                          seen, overlap>>
           /\ \A d \in Evaluators : d # e =>
                 pc'[d] = pc[d] /\ res'[d] = res[d] /\ todo'[d] = todo[d]
           /\ pc' \in [Evaluators -> {"idle", "allow", "block", "done"}]
           /\ res' \in [Evaluators -> BOOLEAN]
           /\ todo' \in [Evaluators -> Seq(Topics)]
           /\ Blocked(blocklist, Head(todo[e])) =>
                 pc'[e] = "done" /\ res'[e] = FALSE /\ todo'[e] = todo[e]
           /\ ~Blocked(blocklist, Head(todo[e])) /\ Len(todo[e]) = 1 =>
                 pc'[e] = "done" /\ res'[e] = TRUE /\ todo'[e] = todo[e]
           /\ ~Blocked(blocklist, Head(todo[e])) /\ Len(todo[e]) > 1 =>
                 pc'[e] = "allow" /\ res'[e] = res[e]
                 /\ todo'[e] = Tail(todo[e])
<1>1. UNCHANGED <<allowlist, blocklist, owner, call, rpc, other, cfg,
                  seen, overlap>> /\ pc[e] = "block"
  BY DEF CheckBlocklist
<1>2. todo[e] \in Seq(Topics) /\ todo[e] # <<>>
  BY <1>1 DEF TypeOK
<1>3. CASE /\ Blocked(blocklist, Head(todo[e]))
           /\ pc' = [pc EXCEPT ![e] = "done"]
           /\ res' = [res EXCEPT ![e] = FALSE]
           /\ UNCHANGED todo
  BY <1>1, <1>3 DEF TypeOK
<1>4. CASE /\ ~Blocked(blocklist, Head(todo[e]))
           /\ Len(todo[e]) = 1
           /\ pc' = [pc EXCEPT ![e] = "done"]
           /\ res' = [res EXCEPT ![e] = TRUE]
           /\ UNCHANGED todo
  BY <1>1, <1>4 DEF TypeOK
<1>5. CASE /\ ~Blocked(blocklist, Head(todo[e]))
           /\ Len(todo[e]) > 1
           /\ pc' = [pc EXCEPT ![e] = "allow"]
           /\ todo' = [todo EXCEPT ![e] = Tail(todo[e])]
           /\ UNCHANGED res
  <2>1. Tail(todo[e]) \in Seq(Topics)
    BY <1>2
  <2>. QED  BY <1>1, <1>5, <2>1 DEF TypeOK
<1>. QED  BY <1>3, <1>4, <1>5, Zenon DEF CheckBlocklist

(* The blocklist loop: a blocked topic makes the verdict false; the last  *)
(* topic passing makes it true; a request that passes moves the call on   *)
(* to its reply topic.                                                     *)
LEMMA CheckBlocklistIInv ==
    ASSUME IInv, NEW e \in Evaluators, CheckBlocklist(e)
    PROVE  IInv'
<1>0. /\ pc[e] = "block"
      /\ UNCHANGED <<allowlist, blocklist, owner, call, rpc, other, cfg,
                     seen, overlap>>
      /\ \A d \in Evaluators : d # e =>
            pc'[d] = pc[d] /\ res'[d] = res[d] /\ todo'[d] = todo[d]
      /\ pc' \in [Evaluators -> {"idle", "allow", "block", "done"}]
      /\ res' \in [Evaluators -> BOOLEAN]
      /\ todo' \in [Evaluators -> Seq(Topics)]
      /\ Blocked(blocklist, Head(todo[e])) =>
            pc'[e] = "done" /\ res'[e] = FALSE /\ todo'[e] = todo[e]
      /\ ~Blocked(blocklist, Head(todo[e])) /\ Len(todo[e]) = 1 =>
            pc'[e] = "done" /\ res'[e] = TRUE /\ todo'[e] = todo[e]
      /\ ~Blocked(blocklist, Head(todo[e])) /\ Len(todo[e]) > 1 =>
            pc'[e] = "allow" /\ res'[e] = res[e]
            /\ todo'[e] = Tail(todo[e])
  <2>1. TypeOK
    BY DEF IInv
  <2>. QED  BY <2>1, CheckBlocklistEffect, Zenon
<1>1. /\ todo[e] \in Seq(Topics) /\ todo[e] # <<>>
      /\ Len(todo[e]) \in Nat \ {0}
  <2>1. todo[e] \in Seq(Topics) /\ todo[e] # <<>>
    BY <1>0 DEF IInv, TypeOK
  <2>. QED  BY <2>1, EmptySeq
<1>2. TypeOK'
  <2>1. Len(todo[e]) > 1 => Tail(todo[e]) # <<>>
    BY <1>1, NonEmptyLen
  <2>2. \A d \in Evaluators : pc'[d] \in {"allow", "block"} => todo'[d] # <<>>
    <3> SUFFICES ASSUME NEW d \in Evaluators, pc'[d] \in {"allow", "block"}
                 PROVE  todo'[d] # <<>>
      OBVIOUS
    <3>1. CASE d # e
      BY <1>0, <3>1 DEF IInv, TypeOK
    <3>2. CASE d = e
      <4>1. ~Blocked(blocklist, Head(todo[e])) /\ Len(todo[e]) > 1
        <5>1. Blocked(blocklist, Head(todo[e])) => FALSE
          BY <1>0, <3>2
        <5>2. ~Blocked(blocklist, Head(todo[e])) => Len(todo[e]) # 1
          BY <1>0, <3>2
        <5>3. ~Blocked(blocklist, Head(todo[e]))
          BY <5>1, Zenon
        <5>4. Len(todo[e]) # 1
          BY <5>2, <5>3
        <5>5. Len(todo[e]) = 1 \/ Len(todo[e]) > 1
          BY <1>1, NonEmptyLen
        <5>. QED  BY <5>3, <5>4, <5>5
      <4>. QED  BY <1>0, <2>1, <3>2, <4>1
    <3>. QED  BY <3>1, <3>2
  <2>. QED  BY <1>0, <2>2 DEF IInv, TypeOK
<1>3. LockHeld' /\ Committed' /\ HistoryOK'
  BY <1>0 DEF IInv, TypeOK, LockHeld, Committed, HistoryOK
<1>4. CallProgress'
  <2> SUFFICES ASSUME NEW d \in Evaluators, pc'[d] # "idle", ~overlap'[d]
               PROVE  Progress(d)'
    BY DEF CallProgress
  <2>1. CASE d # e
    <3>1. pc[d] # "idle" /\ ~overlap[d]
      BY <1>0, <2>1
    <3>2. Progress(d)
      BY <3>1 DEF IInv, CallProgress
    <3>3. /\ rpc' = rpc /\ cfg' = cfg /\ call'[d] = call[d]
          /\ pc'[d] = pc[d] /\ res'[d] = res[d] /\ todo'[d] = todo[d]
      BY <1>0, <2>1
    <3>. QED  BY <3>2, <3>3 DEF Progress
  <2>2. CASE d = e
    <3>0. ~overlap[e] /\ Progress(e)
      BY <1>0, <2>2 DEF IInv, CallProgress
    <3>1. rpc = "idle" /\ blocklist = cfg[2]
      BY <3>0 DEF IInv, Committed, Progress
    <3>2. PassesAllowlist(cfg[1], Head(todo[e]))
      BY <1>0, <3>0 DEF Progress
    <3>3. /\ call[e] \in Calls
          /\ \/ Head(todo[e]) = call[e][1] /\ todo[e] = call[e]
             \/ /\ Head(todo[e]) = call[e][2] /\ Len(call[e]) = 2
                /\ Len(todo[e]) = 1
                /\ IsTopicAllowed(cfg[1], cfg[2], call[e][1])
      BY <1>0, <3>0, CurrentTopic DEF IInv
    <3>4. /\ call[e] \in Seq(Topics) /\ Len(call[e]) \in {1, 2}
          /\ Len(call[e]) = 2 => Tail(call[e]) = <<call[e][2]>>
      BY <3>3, CallShape
    <3>9. /\ rpc' = "idle" /\ cfg' = cfg /\ call'[e] = call[e]
      BY <1>0, <3>1
    <3>5. CASE Blocked(blocklist, Head(todo[e]))
      <4>1. ~IsTopicAllowed(cfg[1], cfg[2], Head(todo[e]))
        BY <3>1, <3>5 DEF IsTopicAllowed
      <4>2. ~Verdict(cfg, call[e])
        <5>1. CASE Len(call[e]) = 1
          BY <3>3, <4>1, <5>1, VerdictOne
        <5>2. CASE Len(call[e]) = 2
          BY <3>3, <4>1, <5>2, VerdictTwo
        <5>. QED  BY <3>4, <5>1, <5>2
      <4>3. res'[e] = Verdict(cfg, call[e])
        <5>1. Verdict(cfg, call[e]) = FALSE
          BY <4>2 DEF Verdict
        <5>2. res'[e] = FALSE
          BY <1>0, <3>5
        <5>. QED  BY <5>1, <5>2, Zenon
      <4>4. pc'[e] = "done" /\ todo'[e] = todo[e]
        BY <1>0, <3>5
      <4>5. Progress(e)'
        BY <3>0, <3>9, <4>3, <4>4 DEF Progress
      <4>. QED  BY <2>2, <4>5
    <3>6. CASE ~Blocked(blocklist, Head(todo[e])) /\ Len(todo[e]) = 1
      <4>1. IsTopicAllowed(cfg[1], cfg[2], Head(todo[e]))
        BY <3>1, <3>2, <3>6 DEF IsTopicAllowed
      <4>2. Verdict(cfg, call[e])
        <5>1. CASE Len(call[e]) = 1
          BY <3>3, <4>1, <5>1, VerdictOne
        <5>2. CASE Len(call[e]) = 2
          <6>1. Head(todo[e]) = call[e][2]
            BY <3>3, <3>6, <5>2
          <6>. QED  BY <3>3, <4>1, <5>2, <6>1, VerdictTwo
        <5>. QED  BY <3>4, <5>1, <5>2
      <4>3. res'[e] = Verdict(cfg, call[e])
        <5>1. Verdict(cfg, call[e]) = TRUE
          BY <4>2 DEF Verdict
        <5>2. res'[e] = TRUE
          BY <1>0, <3>6
        <5>. QED  BY <5>1, <5>2, Zenon
      <4>4. pc'[e] = "done" /\ todo'[e] = todo[e]
        BY <1>0, <3>6
      <4>5. Progress(e)'
        BY <3>0, <3>9, <4>3, <4>4 DEF Progress
      <4>. QED  BY <2>2, <4>5
    <3>7. CASE ~Blocked(blocklist, Head(todo[e])) /\ Len(todo[e]) > 1
      <4>1. todo[e] = call[e] /\ Len(call[e]) = 2
        <5>1. Len(todo[e]) > 1
          BY <3>7
        <5>2. todo[e] = call[e]
          BY <3>3, <5>1
        <5>3. Len(call[e]) \in {1, 2} /\ Len(call[e]) > 1
          BY <3>4, <5>1, <5>2
        <5>. QED  BY <5>2, <5>3
      <4>2. IsTopicAllowed(cfg[1], cfg[2], call[e][1])
        BY <3>1, <3>2, <3>3, <3>7, <4>1 DEF IsTopicAllowed
      <4>3. pc'[e] = "allow" /\ todo'[e] = Tail(call[e])
        BY <1>0, <3>7, <4>1
      <4>5. Progress(e)'
        BY <3>0, <3>9, <4>1, <4>2, <4>3 DEF Progress
      <4>. QED  BY <2>2, <4>5
    <3>8. \/ Blocked(blocklist, Head(todo[e]))
          \/ ~Blocked(blocklist, Head(todo[e])) /\ Len(todo[e]) = 1
          \/ ~Blocked(blocklist, Head(todo[e])) /\ Len(todo[e]) > 1
      <4>1. Len(todo[e]) = 1 \/ Len(todo[e]) > 1
        BY <1>1, NonEmptyLen
      <4>. QED  BY <4>1, Zenon
    <3>. QED  BY <3>5, <3>6, <3>7, <3>8, Zenon
  <2>. QED  BY <2>1, <2>2
<1>. QED  BY <1>2, <1>3, <1>4 DEF IInv

(* The call returns and releases mutex_.                                   *)
LEMMA ReturnIInv ==
    ASSUME IInv, NEW e \in Evaluators, Return(e)
    PROVE  IInv'
<1>1. owner = e
  BY DEF Return, IInv, LockHeld
<1>2. \A d \in Evaluators : d # e => pc[d] = "idle"
  BY <1>1, OthersIdle DEF IInv
<1>3. TypeOK'
  BY DEF Return, IInv, TypeOK
<1>6. \A d \in Evaluators : pc'[d] = "idle"
  BY <1>2 DEF Return, IInv, TypeOK
<1>4. LockHeld' /\ Committed'
  <2>1. LockHeld'
    BY <1>6 DEF LockHeld
  <2>2. Committed'
    BY DEF Return, IInv, Committed
  <2>. QED  BY <2>1, <2>2
<1>5. CallProgress'
  BY <1>6 DEF CallProgress
<1>9. HistoryOK'
  BY DEF Return, IInv, HistoryOK
<1>. QED  BY <1>3, <1>4, <1>5, <1>9 DEF IInv
(* operator=, first copy: every call in progress is marked overlapped, so *)
(* nothing is claimed of it; the new allowlist is already in place.       *)
LEMMA AssignAllowlistIInv ==
    ASSUME IInv, NEW c \in Loaded, AssignAllowlist(c)
    PROVE  IInv'
<1>1. c \in Configs
  BY LoadedAssumption
<1>2. TypeOK'
  BY <1>1 DEF AssignAllowlist, IInv, TypeOK, Configs
<1>3. LockHeld' /\ Committed'
  BY DEF AssignAllowlist, IInv, LockHeld, Committed
<1>4. CallProgress'
  BY DEF AssignAllowlist, CallProgress, Progress, InCall
<1>9. HistoryOK'
  BY DEF AssignAllowlist, IInv, HistoryOK, InCall
<1>. QED  BY <1>2, <1>3, <1>4, <1>9 DEF IInv

(* operator=, second copy: the new configuration is committed whole.       *)
LEMMA AssignBlocklistIInv ==
    ASSUME IInv, AssignBlocklist
    PROVE  IInv'
<1>1. TypeOK'
  BY DEF AssignBlocklist, IInv, TypeOK, Configs
<1>2. LockHeld' /\ Committed'
  BY DEF AssignBlocklist, IInv, LockHeld, Committed
<1>3. CallProgress'
  BY DEF AssignBlocklist, CallProgress, Progress, InCall
<1>9. HistoryOK'
  BY DEF AssignBlocklist, IInv, HistoryOK, InCall
<1>. QED  BY <1>1, <1>2, <1>3, <1>9 DEF IInv

(* clear() takes mutex_, so no call is in progress when it empties the     *)
(* lists.                                                                  *)
LEMMA ClearIInv ==
    ASSUME IInv, Clear
    PROVE  IInv'
<1>1. \A d \in Evaluators : pc[d] = "idle"
  BY ThreadsAssumption DEF Clear, IInv, LockHeld
<1>2. {} \in ReducedLists
  BY DEF ReducedLists, NoContainment
<1>3. TypeOK'
  BY <1>2 DEF Clear, IInv, TypeOK, Configs
<1>4. LockHeld' /\ Committed'
  BY DEF Clear, IInv, LockHeld, Committed
<1>5. CallProgress'
  BY <1>1 DEF Clear, CallProgress, Progress
<1>9. HistoryOK'
  BY DEF Clear, IInv, HistoryOK
<1>. QED  BY <1>3, <1>4, <1>5, <1>9 DEF IInv

LEMMA NextIInv == IInv /\ [Next]_vars => IInv'
<1> SUFFICES ASSUME IInv, [Next]_vars PROVE IInv'
  OBVIOUS
<1>1. ASSUME NEW e \in Evaluators, NEW k \in Calls, Evaluate(e, k) PROVE IInv'
  BY <1>1, EvaluateIInv
<1>2. ASSUME NEW e \in Evaluators, CheckAllowlist(e) PROVE IInv'
  BY <1>2, CheckAllowlistIInv
<1>3. ASSUME NEW e \in Evaluators, CheckBlocklist(e) PROVE IInv'
  BY <1>3, CheckBlocklistIInv
<1>4. ASSUME NEW e \in Evaluators, Return(e) PROVE IInv'
  BY <1>4, ReturnIInv
<1>5. ASSUME NEW c \in Loaded, AssignAllowlist(c) PROVE IInv'
  BY <1>5, AssignAllowlistIInv
<1>6. CASE AssignBlocklist
  BY <1>6, AssignBlocklistIInv
<1>7. CASE Clear
  BY <1>7, ClearIInv
<1>8. CASE UNCHANGED vars
  BY <1>8 DEF vars, IInv, TypeOK, HistoryOK, LockHeld, Committed,
                CallProgress, Progress
<1>. QED  BY <1>1, <1>2, <1>3, <1>4, <1>5, <1>6, <1>7, <1>8 DEF Next

(* The lists always hold reduced filter lists and every thread's state is *)
(* well formed, for every set of threads and loaded configurations.        *)
THEOREM TypeCorrect == Spec => []TypeOK
<1>1. IInv => TypeOK
  BY DEF IInv
<1>. QED  BY <1>1, InitIInv, NextIInv, PTL DEF Spec

(* is_topic_allowed / is_service_allowed under mutex_: a call that no     *)
(* operator= overlapped returns the verdict of the configuration in       *)
(* place, both topics of a service against the same lists, whatever the  *)
(* other evaluators and clear() do.                                        *)
THEOREM QuiescentVerdictHolds == Spec => []QuiescentVerdict
<1>1. IInv => QuiescentVerdict
  BY DEF IInv, CallProgress, Progress, QuiescentVerdict
<1>. QED  BY <1>1, InitIInv, NextIInv, PTL DEF Spec
=============================================================================
