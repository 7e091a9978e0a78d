# TLA+ models of the DDS Router core

This directory holds TLA+ models of the parts of `ddsrouter_core` that are under
`src/`. It has TLC configurations that model-check them on small instances, and
TLAPS proofs of their main invariants for every value of the constants.

## The system

The DDS Router relays DDS traffic between *participants*, each attached to a
network (a domain, a Discovery Server, WAN). The parts under `src/` are these:

| Part | Source | State | Operations |
|------|--------|-------|------------|
| Topic filter lists | `dynamic/AllowedTopicList.cpp` | `allowlist_`, `blocklist_` (sets of filter pointers), a recursive `mutex_` | constructor (reduces both lists), `operator=` (no lock), `clear`, `is_topic_allowed`, `is_service_allowed`, `operator==` |
| Filter reduction | `AllowedTopicList::get_topic_list_without_repetition_` | the list being built | one outer-loop iteration per candidate; an inner scan with `break` |
| Participant endpoints | `participant/.../BaseParticipant.cpp` | `writers_`, `readers_` (topic -> endpoint), a recursive `mutex_` | `create_writer`, `create_reader`, `delete_writer`, `delete_reader`, the `delete_*_` hooks, the destructor |
| Discovery Server configuration | `configuration/participant/DiscoveryServerParticipantConfiguration.cpp` | the configuration fields | `is_valid` (ordered checks with early returns), `operator==` |
| Participants registry | `core/ParticipantsDatabase.hpp` | `participants_` (id -> participant), a `shared_timed_mutex` | `add_participant_`, `pop_`, the getters |

How they interact (from the spec):
- The router orchestrator `DDSRouterImpl` is not under `src/`.
- The orchestrator builds participants from validated configurations and registers them in the database.
- Bridges read the database and create one reader and one writer per participant and topic.
- The topic lists decide which topics get bridges.
- On reload, the orchestrator replaces the topic lists with `operator=`, while discovery threads evaluate topics concurrently.
- On shutdown, the orchestrator deletes the endpoints, pops the participants and destroys them.

The behaviours that make this hard:
- Concurrent evaluation racing a reload.
- A reduction whose result must not depend on `std::set<shared_ptr>` order.
- Deletes through stale endpoint pointers.
- Validation order with early returns.
- Shared ownership of participants (`shared_ptr`) held by the database, the router, discovery snapshots and bridges, released in any order at shutdown.

## Modules

- **TopicFilter** holds the constant-level operators:
  - `Matches` and `Contains` model `DdsFilterTopic`. It is not under `src/`, so it is spec-modelled: a filter is the set of topics it matches (`Match`), and containment is inclusion.
  - `IsTopicAllowed` and `IsServiceAllowed` translate `is_topic_allowed`/`is_service_allowed`: an empty allowlist accepts, and the blocklist is checked only after the allowlist passes.
  - `ReducedLists` is the set of lists the constructor can hold.
- **FilterReduction** models `get_topic_list_without_repetition_`.
  - `input` is the operator's list, `pending` the candidates not yet visited, and `result` is `non_repeated_list`.
  - `ProcessCandidate(n)` is one whole outer-loop iteration, and the candidate is any pending one (the set order is pointer order).
  - The inner scan either finds no stored filter that contains `n`: it collects every stored filter `n` contains, erases them and inserts `n`.
  - Or it breaks at the first container. It then erases the filters collected *before* the break, which is any subset of those `n` contains.
  - In a list free of redundancy, that subset is always empty. A stored filter containing `n` would also contain every stored filter `n` contains. The model allows the erase, and it never happens.
- **AllowedTopicList** models one list shared by `Evaluators` threads and the reloading thread.
  - Evaluation is split into the steps between which `operator=` can run: `Evaluate` (take `mutex_`), `CheckAllowlist`, `CheckBlocklist` (once per topic of the call) and `Return` (release).
  - A call is a single topic or a service (a request and a reply topic).
  - `operator=` is `AssignAllowlist` then `AssignBlocklist`. It takes no lock, because the code takes none.
  - `Clear` holds the lock.
  - The history variables are `cfg` (the configuration the list currently stands for), `seen` (every configuration the list held during a call) and `overlap` (whether a replacement overlapped the call).
  - `Loaded` bounds the reloaded configurations to a few reduced lists.
- **BaseParticipant** models the endpoint maps.
  - Each operation runs whole under the recursive mutex, so each is one action.
  - Endpoint identity is the creation index (`made`), so a caller can pass any endpoint ever created to a delete, stale ones included.
  - `teardowns` counts the `delete_writer_`/`delete_reader_` hook calls.
- **ReductionContract** is the abstract specification of the reduction call (spec §3): in one step the call returns some list drawn from the input, free of redundancy, that covers every input filter.
  - **FilterReduction** maps onto it with `INSTANCE ReductionContract WITH list <- input, returned <- pending = {}, out <- IF pending = {} THEN result ELSE {}`. The caller sees no list until the last candidate is processed.
- **Router** composes the participants registry, the participants' endpoint maps and a spec-modelled `DDSRouterImpl` (not under `src/`).
  - A participant is a handle `1..MaxBuilt` in the order the router builds them; `plan` is the sequence of configured ids, one plan with a duplicate id.
  - `db` is `participants_`. `AddParticipant` is `add_participant_`: on a duplicate id it throws, the entry stays, and the router aborts into teardown. `PopParticipant(i)` is `pop_(id)`, and with any registered id also `pop_()`. Each holds the `shared_timed_mutex` for its whole body, so each is one action.
  - `Discover(t)` is a discovery callback: it snapshots `get_participants_map` (`snap`), then `CreateEndpoints(p)` creates the reader and writer of `t` in each snapshot participant (`create_writer`/`create_reader`), and `BridgeReady` hands the snapshot to the bridge of `t`.
  - `CreateEndpoints` leaves out the failure of the concrete participant's `create_writer_`/`create_reader_` (an `InitializationException`). A topic is reported once, so the duplicate-topic throw never fires.
  - `Stop` is serialised with the callback (the router's mutex), so it waits for an in-flight callback. After it, `TearDownBridge(t, p)` (`delete_writer`/`delete_reader`) and `PopParticipant` interleave in any order.
  - Discovery needs the running phase and pops need the stopping phase. So in the model a callback's snapshot never overlaps a pop.
  - `Held` is the set of participants some `shared_ptr` owner still holds: the router (`owned`), the database, a snapshot, a bridge. `Destroy(p)` is `~BaseParticipant` once no owner holds `p`. Its guard is `shared_ptr` semantics, not code of the repository. It records in `leaked` a destruction with endpoints still in the maps: the path at `BaseParticipant.cpp:47` that clears them without the teardown hooks.
  - `Finish` is the destruction of the database once it is `empty()` and no bridge is left.
- **DiscoveryServerConfig** models `is_valid` as its chain of early returns.
  - The outcome is the check that failed.
  - `operator==` is not modelled. It is a stub that returns `false` (spec §9), with no behaviour to check.
  - The parent's and the GUID prefix's validity are booleans of the configuration. They are checked in other classes, which are not under `src/`.

Each `MC_*` module gives the constants model values and small definitions.

## Runs

| Run | What it checks | Bounds and why they suffice |
|-----|----------------|------------------------------|
| `filter_reduction` | `TypeOK`, `NoRedundancy`, `Coverage` and `PreservesVerdict`, for every subset of filters and every iteration order | 3 topics, 5 filters; see below |
| `allowed_topic_list` | `TypeOK`, and `QuiescentVerdict`: a call that no replacement overlapped returns the current configuration's verdict | 2 topics, 3 filters, 2 evaluator threads; see below |
| `allowed_topic_list_race` (violation) | `AtomicVerdict`: every verdict is that of some configuration the list held during the call | the same instance |
| `base_participant` | `TypeOK`, and `EndpointAccounting`: every endpoint is held or torn down exactly once | 2 topics, 5 endpoints: enough for create, delete, re-create of one topic and stale deletes of both roles |
| `router` | `TypeOK`; `NoLeakAtDestruction` (no participant is destroyed with endpoints); `ShutdownCompletes` (after stop, the router reaches `done` with every participant destroyed) | 3 ids, 2 topics, plans `<<i1,i2,i3>>`, `<<i2,i3>>` (an id stays unregistered) and `<<i1,i2,i1>>` (duplicate add) |
| `ds_config_validation` | `AcceptsExactlyWellFormed`: `is_valid` accepts exactly what the spec calls well formed | one valid and one invalid address of each kind, all TLS combinations (512 configurations) |

Notes on the bounds:
- In `filter_reduction`, the matching has two equal filters, a strict containment, an overlap and an empty filter. That makes both branches of the inner scan happen, with equal, nested and empty filters.
- In `allowed_topic_list`, the three loaded configurations cover the three cases: allowlist only, blocklist only, and both with a blocked reply. Two evaluators make a reload overlap a call in every phase.

The violation run records one finding (PROJECT.json): **`operator=` takes no lock.** It copies `allowlist_` and then `blocklist_` (`AllowedTopicList.cpp:47-48`) without taking `mutex_`.
- TLC's trace is a single-topic `is_topic_allowed(t2)` call. It starts under `<<{f1}, {}>>`, which rejects `t2`.
- `operator=` then copies the allowlist `{f2}` of `<<{f2}, {f3}>>`, which blocks `t2` by `f3`.
- The call's allowlist loop accepts `t2` by `f2`. Its blocklist loop reads the old, empty blocklist, and the call returns `true`. Neither configuration the call saw gives that verdict.
- Spec §4.1 says replacement and evaluation are mutually exclusive. The comment at line 107 says a service is checked atomically.
- The same race can also put a service's request and reply under different configurations. The shortest counterexample is the torn single-topic read.
- `QuiescentVerdict` still holds: when nothing overlaps a call, the lock protects it. By construction it says nothing about overlapped calls.

Every property of a passing run has a mutant, listed in PROJECT.json. A mutant is a plausible bug in the mapped code, for example:
- a scan that, on its `break`, also erases a stored filter equal to the candidate;
- a check of the wrong map before a create;
- a bridge that deletes its writer and forgets its reader;
- a missing TLS client check.

TLC finds each mutant's property violated.

Fairness:
- **Router** assumes weak fairness of the steps a running thread owes:
  - finishing a discovery callback (`CreateEndpoints`, `BridgeReady`);
  - the teardown thread's `TearDownBridge` and `PopParticipant`;
  - `Destroy`, which is the release of the last reference and runs synchronously;
  - `Finish`.
- No fairness is assumed for `Start`, `Stop` or `Discover`. They depend on the user and the network.
- The other modules assume no fairness. They check only safety properties, and each of their operations is a bounded call.

In `router`, the plan `<<i1,i2,i1>>` makes the duplicate add and the abort happen. Two topics let a callback be in flight while a bridge of the other topic exists. Three participants let pops, bridge teardowns and last-reference releases interleave. The run reaches 1,286 distinct states.

## Proofs (TLAPS)

- **FilterReductionProofs** proves `TypeCorrect`, `NoRedundancyHolds`, `CoverageHolds` and `VerdictPreserved` (`Spec => []P`). They hold for every topic set, filter set, matching and input list.
  - `NoRedundancy` is not inductive on its own. The filters erased in a discarding iteration might be the only cover of an earlier candidate.
  - The inductive invariant therefore adds `Coverage`: every processed candidate is contained in a kept filter.
  - In the discarding branch, a cover that is erased was contained in the candidate, which is contained in the container. The container is kept, and `ContainsTransitive` closes the case.
  - `PreservesVerdict` follows from `TypeOK` and `Coverage` (lemma `VerdictFromCoverage`).
- **BaseParticipantProofs** proves `TypeCorrect` and `AccountingHolds` for every topic set and bound.
  - The inductive invariant is `TypeOK /\ EndpointAccounting`.
  - `TypeOK` includes that a map entry holds an endpoint created for that role and topic. Without it, a delete through a stale pointer could not be shown to leave the other entries alone.
  - One lemma per action.

- **FilterReductionProofs** also proves `RefinesContract`: `Spec => Contract!Init /\ [][Contract!Return]_Contract!vars`.
  - An iteration that leaves candidates is a stutter of the contract.
  - The iteration that processes the last candidate is `Return`. Its list is an admissible reduction by the inductive invariant in the next state.
- **RouterProofs** proves `TypeCorrect` and `NoLeakHolds` for every id set, topic set, bound and plan set. The inductive invariant conjoins `TypeOK` and `NoLeakAtDestruction` with these:
  - `HeldAlive`: whatever a holder keeps is alive.
  - `Built`: every live or held handle was built. Otherwise `AddParticipant` could make a held handle alive again.
  - `EndpointsBacked`: every endpoint is in a bridge, or in the snapshot of the callback creating it. So a participant with endpoints is held, and `Destroy` cannot leak.
  - `NoBridgeInFlight`: the topic of an in-flight callback has no bridge yet, so `BridgeReady` replaces an empty set.
  - `Discovered`: a topic with a bridge or a callback has been discovered, so `Discover` starts only on topics without a bridge.
  - There is one lemma per action.

The proofs rest on these assumptions:
- `MatchAssumption`: `Match` is a function from filters to sets of topics.
- `EndpointsAssumption`: `MaxEndpoints` is a natural number, and `NoEndpoint` is not one.
- `PlansAssumption`: plans are sequences of ids no longer than `MaxBuilt`, and `NoParticipant` is not a handle.
- `TopicsAssumption`: no topic is the callback's idle marker.
- `ThreadsAssumption` and `LoadedAssumption`: the free-mutex marker is not a thread, and the loaded configurations are a non-empty set of pairs of reduced lists. The Discovery Server proof needs no assumption.

- **AllowedTopicListProofs** proves `TypeCorrect` and `QuiescentVerdictHolds` for any number of evaluator threads, topics, filters and loaded configurations. `QuiescentVerdict` speaks only of finished calls, so the inductive invariant adds four conjuncts, each checked first by TLC on the `allowed_topic_list` instance (53,368 states):
  - `LockHeld`: a thread inside a call owns `mutex_`. Without it, `clear()` could change the configuration under a call.
  - `Committed`: outside an `operator=` the lists are the committed configuration, and between its two copies the allowlist is already the new one. Without the second half, the blocklist copy could not be shown to commit a whole configuration.
  - `CallProgress`: a call that no `operator=` overlapped has evaluated a prefix of its topics against that configuration, all allowed. If it reached the blocklist, its current topic passed the allowlist, and a finished call holds the verdict.
  - `HistoryOK`: the history flag `overlap` is a Boolean per thread. `CallProgress` is stated through it.
  - There is one lemma per action, and lemmas on the shape of a call: one topic or a service's two.
  - The two loop steps, `CheckAllowlist` and `CheckBlocklist`, first get an effect lemma. It states their post-state without the `IF` or the disjunction.
  - The lemma `NonEmptyLen` gives the length facts about the topics left to evaluate.
- **DiscoveryServerConfigProofs** proves `AcceptsExactlyWellFormedHolds` for every address universe.
  - The work is in the lemma `IsValidCharacterised`: the chain of early returns ends in `"valid"` exactly when no check fails.
  - The invariant only records that a reported outcome is `IsValid` of the configuration.

Only model-checked, and why:
- The liveness property `ShutdownCompletes`. TLAPS has no reasoning about `ENABLED` here, so it stays with TLC.
- The violation run's property `AtomicVerdict`. It is false of the code.

## Not modelled, and the plan

- **Topic-list reload seen by bridges.** Composing `AllowedTopicList` into `Router` would check that a reload never leaves a bridge for a topic the new lists reject.
- **`ParticipantsDatabase` implementation.** Only its header is in the repository. The model follows the header's declarations and documented contracts: throw on a duplicate id, pop an arbitrary id.
- **An abstract atomic filter** whose every verdict is that of one configuration. `AllowedTopicList` with `operator=` under the lock will be shown to refine it (INSTANCE ... WITH). The code as written does not refine it, as the race run shows.
- **Further proofs.** Every invariant of a passing run is now proved. What is left is liveness, out of TLAPS' reach.
- **A discovery callback racing a pop.** The router is not in the repository, and the spec serialises the callback with stop. So the model never has a snapshot in flight while `pop_` runs, and no property checks that case.
- **Out of scope**:
  - The concrete participant kinds, the discovery database and the payload pool (not under `src/`).
  - YAML parsing and logging (pure conversion or output).
  - `AllowedTopicList::operator==` and `operator<<` (read-only).
  - `DiscoveryServerParticipantConfiguration::operator==`, a stub that returns `false`.
