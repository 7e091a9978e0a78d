-------------------------- MODULE AllowedTopicList --------------------------
(***************************************************************************)
(* AllowedTopicList shared between the threads that evaluate topics       *)
(* (is_topic_allowed, is_service_allowed) and the thread that replaces    *)
(* the lists on reconfiguration (operator=) or empties them (clear).      *)
(*                                                                         *)
(* Evaluators and clear take the recursive mutex_; operator= does not.    *)
(* An evaluation reads allowlist_ in one step (the allow loop) and        *)
(* blocklist_ in a later one (the block loop); operator= writes           *)
(* allowlist_ and then blocklist_.  Each std::set copy is one step: a     *)
(* copy racing a loop over the same set is undefined behaviour, of which  *)
(* the model keeps only the outcomes where the loop sees the set before   *)
(* or after the copy.                                                     *)
(***************************************************************************)
EXTENDS TopicFilter, Naturals, Sequences

CONSTANTS Evaluators,  \* threads of the router that query the list
          NoThread,    \* mutex_ is free
          Loaded       \* the configurations the router is built or reloaded with

ASSUME ThreadsAssumption == NoThread \notin Evaluators

(* An evaluation: <<t>> for is_topic_allowed(t), <<request, reply>> for   *)
(* is_service_allowed.                                                     *)
Calls == {<<t>> : t \in Topics} \cup {<<s[1], s[2]>> : s \in Services}

(* A whole configuration <<allowlist, blocklist>> built by the constructor *)
Configs == ReducedLists \X ReducedLists

ASSUME LoadedAssumption == Loaded \in SUBSET Configs /\ Loaded # {}

VARIABLES allowlist,  \* allowlist_
          blocklist,  \* blocklist_
          owner,      \* the thread holding mutex_, or NoThread
          pc,         \* pc[e]: where evaluator e is
          todo,       \* todo[e]: topics of the call still to evaluate
          call,       \* call[e]: the call in progress or just returned
          res,        \* res[e]: the value the call returns
          rpc,        \* "idle", or "block" between the two copies of operator=
          other,      \* the AllowedTopicList operator= copies from
          cfg,        \* history: the value last committed by operator=/clear
          seen,       \* history: the whole values, old or being copied in, during e's call
          overlap     \* history: operator= was in progress during e's call

vars == <<allowlist, blocklist, owner, pc, todo, call, res, rpc, other,
          cfg, seen, overlap>>

(* The verdict the call would return against one whole configuration.      *)
Verdict(c, k) == \A i \in 1..Len(k) : IsTopicAllowed(c[1], c[2], k[i])

Init ==
    /\ \E c \in Loaded :  /\ allowlist = c[1]
                          /\ blocklist = c[2]
                          /\ cfg = c
                          /\ other = c
    /\ owner = NoThread
    /\ pc = [e \in Evaluators |-> "idle"]
    /\ todo = [e \in Evaluators |-> <<>>]
    /\ call = [e \in Evaluators |-> <<>>]
    /\ res = [e \in Evaluators |-> TRUE]
    /\ rpc = "idle"
    /\ seen = [e \in Evaluators |-> {}]
    /\ overlap = [e \in Evaluators |-> FALSE]

(* Entry of is_topic_allowed / is_service_allowed: lock_guard on mutex_.   *)
Evaluate(e, k) ==
    /\ pc[e] = "idle"
    /\ owner = NoThread
    /\ owner' = e
    /\ pc' = [pc EXCEPT ![e] = "allow"]
    /\ todo' = [todo EXCEPT ![e] = k]
    /\ call' = [call EXCEPT ![e] = k]
    /\ seen' = [seen EXCEPT ![e] = IF rpc = "idle" THEN {cfg} ELSE {cfg, other}]
    /\ overlap' = [overlap EXCEPT ![e] = (rpc # "idle")]
    /\ UNCHANGED <<allowlist, blocklist, res, rpc, other, cfg>>

(* The allowlist loop of is_topic_allowed for the current topic; a topic   *)
(* it does not accept returns false, and && skips the reply topic.         *)
CheckAllowlist(e) ==
    /\ pc[e] = "allow"
    /\ IF PassesAllowlist(allowlist, Head(todo[e]))
       THEN /\ pc' = [pc EXCEPT ![e] = "block"]
            /\ UNCHANGED res
       ELSE /\ pc' = [pc EXCEPT ![e] = "done"]
            /\ res' = [res EXCEPT ![e] = FALSE]
    /\ UNCHANGED <<allowlist, blocklist, owner, todo, call, rpc, other, cfg,
                   seen, overlap>>

(* Mutant: is_service_allowed returns the verdict of the request topic     *)
(* alone.                                                                  *)
CheckBlocklistRequestOnly(e) ==
    /\ pc[e] = "block"
    /\ pc' = [pc EXCEPT ![e] = "done"]
    /\ res' = [res EXCEPT ![e] = ~Blocked(blocklist, Head(todo[e]))]
    /\ UNCHANGED <<allowlist, blocklist, owner, todo, call, rpc, other, cfg,
                   seen, overlap>>

(* Mutant: off-by-one in the end of the call, the last topic is dropped   *)
(* without returning.                                                      *)
CheckBlocklistOffByOne(e) ==
    /\ pc[e] = "block"
    /\ \/ /\ Blocked(blocklist, Head(todo[e]))
          /\ pc' = [pc EXCEPT ![e] = "done"]
          /\ res' = [res EXCEPT ![e] = FALSE]
          /\ UNCHANGED todo
       \/ /\ ~Blocked(blocklist, Head(todo[e]))
          /\ pc' = [pc EXCEPT ![e] = "allow"]
          /\ todo' = [todo EXCEPT ![e] = Tail(todo[e])]
          /\ UNCHANGED res
    /\ UNCHANGED <<allowlist, blocklist, owner, call, rpc, other, cfg,
                   seen, overlap>>

(* The blocklist loop: a match returns false; otherwise the topic is       *)
(* allowed and the service goes on to its reply topic.                     *)
CheckBlocklist(e) ==
    /\ pc[e] = "block"
    /\ \/ /\ Blocked(blocklist, Head(todo[e]))
          /\ pc' = [pc EXCEPT ![e] = "done"]
          /\ res' = [res EXCEPT ![e] = FALSE]
          /\ UNCHANGED todo
       \/ /\ ~Blocked(blocklist, Head(todo[e]))
          /\ Len(todo[e]) = 1
          /\ pc' = [pc EXCEPT ![e] = "done"]
          /\ res' = [res EXCEPT ![e] = TRUE]
          /\ UNCHANGED todo
       \/ /\ ~Blocked(blocklist, Head(todo[e]))
          /\ Len(todo[e]) > 1
          /\ pc' = [pc EXCEPT ![e] = "allow"]
          /\ todo' = [todo EXCEPT ![e] = Tail(todo[e])]
          /\ UNCHANGED res
    /\ UNCHANGED <<allowlist, blocklist, owner, call, rpc, other, cfg,
                   seen, overlap>>

(* The call returns: lock_guard releases mutex_.  The locals of the call   *)
(* and its history are reset.                                              *)
Return(e) ==
    /\ pc[e] = "done"
    /\ owner' = NoThread
    /\ pc' = [pc EXCEPT ![e] = "idle"]
    /\ call' = [call EXCEPT ![e] = <<>>]
    /\ res' = [res EXCEPT ![e] = TRUE]
    /\ seen' = [seen EXCEPT ![e] = {}]
    /\ overlap' = [overlap EXCEPT ![e] = FALSE]
    /\ UNCHANGED <<allowlist, blocklist, todo, rpc, other, cfg>>

(* Evaluators still reading the lists.                                      *)
Reading == {e \in Evaluators : pc[e] \in {"allow", "block"}}

(* Evaluators between their lock_guard and their return.                   *)
InCall == {e \in Evaluators : pc[e] # "idle"}

(* operator=, first statement: allowlist_ = other.allowlist_, taken        *)
(* without mutex_.                                                         *)
AssignAllowlist(c) ==
    /\ rpc = "idle"
    /\ allowlist' = c[1]
    /\ rpc' = "block"
    /\ other' = c
    /\ seen' = [e \in Evaluators |->
                   IF e \in Reading THEN seen[e] \cup {c} ELSE seen[e]]
    /\ overlap' = [e \in Evaluators |-> overlap[e] \/ e \in InCall]
    /\ UNCHANGED <<blocklist, owner, pc, todo, call, res, cfg>>

(* operator=, second statement: blocklist_ = other.blocklist_; the        *)
(* assignment has completed.                                               *)
AssignBlocklist ==
    /\ rpc = "block"
    /\ blocklist' = other[2]
    /\ rpc' = "idle"
    /\ cfg' = other
    /\ overlap' = [e \in Evaluators |-> overlap[e] \/ e \in InCall]
    /\ UNCHANGED <<allowlist, owner, pc, todo, call, res, other, seen>>

(* clear(): under mutex_, both lists emptied (also what the destructor     *)
(* does).                                                                  *)
Clear ==
    /\ rpc = "idle"
    /\ owner = NoThread
    /\ allowlist' = {}
    /\ blocklist' = {}
    /\ cfg' = <<{}, {}>>
    /\ UNCHANGED <<owner, pc, todo, call, res, rpc, other, seen, overlap>>

Next ==
    \/ \E e \in Evaluators :
          \/ \E k \in Calls : Evaluate(e, k)
          \/ CheckAllowlist(e)
          \/ CheckBlocklist(e)
          \/ Return(e)
    \/ \E c \in Loaded : AssignAllowlist(c)
    \/ AssignBlocklist
    \/ Clear

Spec == Init /\ [][Next]_vars

-----------------------------------------------------------------------------
(* Type invariant; an evaluation that is still reading has a topic left   *)
(* to evaluate (the service loop ends exactly after its reply topic).     *)
TypeOK ==
    /\ allowlist \in ReducedLists
    /\ blocklist \in ReducedLists
    /\ owner \in Evaluators \cup {NoThread}
    /\ pc \in [Evaluators -> {"idle", "allow", "block", "done"}]
    /\ todo \in [Evaluators -> Seq(Topics)]
    /\ call \in [Evaluators -> Calls \cup {<<>>}]
    /\ res \in [Evaluators -> BOOLEAN]
    /\ rpc \in {"idle", "block"}
    /\ other \in Configs
    /\ cfg \in Configs
    /\ \A e \in Evaluators : pc[e] \in {"allow", "block"} => todo[e] # <<>>

(* A call that no operator= overlaps returns the verdict of the           *)
(* configuration in place: allowlist before blocklist, both topics of a   *)
(* service, with the other evaluators and clear() interleaved.            *)
QuiescentVerdict ==
    \A e \in Evaluators :
        pc[e] = "done" /\ ~overlap[e] => res[e] = Verdict(cfg, call[e])

(* Spec 4.1: evaluation and wholesale replacement are mutually exclusive,  *)
(* so every call returns the verdict of one whole configuration that was  *)
(* in place, or being copied in, while it ran: never a mix of an old and  *)
(* a new list.                                                             *)
AtomicVerdict ==
    \A e \in Evaluators :
        pc[e] = "done" => \E c \in seen[e] : res[e] = Verdict(c, call[e])
=============================================================================
