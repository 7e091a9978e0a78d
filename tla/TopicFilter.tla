---------------------------- MODULE TopicFilter ----------------------------
(***************************************************************************)
(* Topic matchers and the allow/block decision of AllowedTopicList.       *)
(*                                                                         *)
(* A filter (DdsFilterTopic) is a pointer: two distinct filters may have   *)
(* the same pattern, exactly as two shared_ptr in a std::set may.  The     *)
(* pattern is abstracted to the set of topics it matches, Match[f]; a      *)
(* topic is a member of Topics (name and type together).                  *)
(***************************************************************************)
EXTENDS FiniteSets

CONSTANTS Topics,    \* the topics (name + type) that can be discovered
          Filters,   \* the filter objects an operator can configure
          Match      \* Match[f]: the topics that filter f matches

ASSUME MatchAssumption == Match \in [Filters -> SUBSET Topics]

(* DdsFilterTopic::matches: pure and total.                                *)
Matches(f, t) == t \in Match[f]

(* DdsFilterTopic::contains: f contains g when every topic g matches is    *)
(* also matched by f (a wildcard contains the exact names it covers).      *)
Contains(f, g) == Match[g] \subseteq Match[f]

(* The allowlist admits t: it is empty (default allow) or some entry      *)
(* matches t.                                                              *)
PassesAllowlist(allow, t) == allow = {} \/ \E f \in allow : Matches(f, t)

(* Some blocklist entry matches t.                                          *)
Blocked(block, t) == \E f \in block : Matches(f, t)

(* AllowedTopicList::is_topic_allowed: allowlist first, blocklist only for *)
(* a topic that passed it.                                                 *)
IsTopicAllowed(allow, block, t) ==
    PassesAllowlist(allow, t) /\ ~Blocked(block, t)

(* An RPC service is the pair <<request topic, reply topic>>.              *)
Services == Topics \X Topics

(* AllowedTopicList::is_service_allowed: both topics, request first.       *)
IsServiceAllowed(allow, block, s) ==
    IsTopicAllowed(allow, block, s[1]) /\ IsTopicAllowed(allow, block, s[2])

(* The set invariant of a reduced filter list: no entry contains another.  *)
NoContainment(S) == \A f, g \in S : f # g => ~Contains(f, g)

(* The filter lists that get_topic_list_without_repetition_ can return.    *)
ReducedLists == {S \in SUBSET Filters : NoContainment(S)}
=============================================================================
