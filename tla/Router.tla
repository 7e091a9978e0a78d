-------------------------------- MODULE Router --------------------------------
(***************************************************************************)
(* The participants of one router, the ParticipantsDatabase that registers *)
(* them, the endpoint maps of each participant, the discovery callback     *)
(* that builds a bridge for a new topic, and the router's shutdown.        *)
(*                                                                         *)
(* Participants are shared_ptr handles: handle k is the k-th participant   *)
(* the router built.  A participant is destroyed when its last holder      *)
(* lets it go; the holders are the database, the router (owned), the       *)
(* snapshot an in-flight discovery callback took with                      *)
(* get_participants_map, and the bridges.                                  *)
(*                                                                         *)
(* The router itself (DDSRouterImpl) is not in this repository: its loop   *)
(* over the configured participants, start, stop, the discovery callback   *)
(* and the teardown are modelled from the spec (sections 3, 4.2, 5): the   *)
(* callback and stop are serialised by the router's mutex, the teardown    *)
(* destroys the bridges and pops the participants in any order, and        *)
(* add_participant_ failing on a duplicate id aborts the construction into *)
(* the teardown.                                                            *)
(***************************************************************************)
EXTENDS Naturals, Sequences, FiniteSets

CONSTANTS Ids,            \* ParticipantId values
          Topics,         \* topics discovery may report
          MaxBuilt,       \* bound on the participants of one configuration
          Plans,          \* the participant id lists a configuration may give
          NoParticipant   \* the database has no entry for the id

ASSUME PlansAssumption ==
    /\ MaxBuilt \in Nat
    /\ Plans \subseteq Seq(Ids)
    /\ \A pl \in Plans : Len(pl) <= MaxBuilt
    /\ NoParticipant \notin Nat

ASSUME TopicsAssumption == "idle" \notin Topics

Handles == 1..MaxBuilt

VARIABLES plan,        \* the configured participant ids, in order
          built,       \* participants built so far
          phase,       \* init, running, stopping, done
          db,          \* participants_ of the ParticipantsDatabase
          owned,       \* handles the router itself holds
          alive,       \* participants built and not destroyed
          writers,     \* writers[p]: topics with a writer in participant p
          readers,     \* readers[p]
          leaked,      \* participants destroyed with endpoints still alive
          dpc,         \* the discovery callback: "idle" or the topic it handles
          snap,        \* the handles of its get_participants_map snapshot
          todo,        \* snapshot participants it has not created endpoints in
          bridges,     \* bridges[t]: participants the bridge of topic t holds
          discovered   \* topics discovery has reported

vars == <<plan, built, phase, db, owned, alive, writers, readers, leaked,
          dpc, snap, todo, bridges, discovered>>

(* The handles the database holds (the values of participants_).           *)
Registered == {db[i] : i \in {j \in Ids : db[j] # NoParticipant}}

(* Every handle some holder keeps a reference to.                           *)
Held == owned \cup Registered \cup snap \cup UNION {bridges[t] : t \in Topics}

Init ==
    /\ plan \in Plans
    /\ built = 0
    /\ phase = "init"
    /\ db = [i \in Ids |-> NoParticipant]
    /\ owned = {}
    /\ alive = {}
    /\ writers = [p \in Handles |-> {}]
    /\ readers = [p \in Handles |-> {}]
    /\ leaked = {}
    /\ dpc = "idle"
    /\ snap = {}
    /\ todo = {}
    /\ bridges = [t \in Topics |-> {}]
    /\ discovered = {}

(* The router builds the next configured participant and registers it     *)
(* with add_participant_, which throws on an id already present and       *)
(* leaves the entry as it was; the new participant is then dropped and    *)
(* the router tears down what it built.                                    *)
AddParticipant ==
    /\ phase = "init"
    /\ built < Len(plan)
    /\ LET k == built + 1 IN
       /\ built' = k
       /\ alive' = alive \cup {k}
       /\ IF db[plan[k]] = NoParticipant
          THEN /\ db' = [db EXCEPT ![plan[k]] = k]
               /\ owned' = owned \cup {k}
               /\ UNCHANGED phase
          ELSE /\ phase' = "stopping"
               /\ UNCHANGED <<db, owned>>
    /\ UNCHANGED <<plan, writers, readers, leaked, dpc, snap, todo, bridges,
                   discovered>>

(* Every configured participant is registered: routing starts.             *)
Start ==
    /\ phase = "init"
    /\ built = Len(plan)
    /\ phase' = "running"
    /\ UNCHANGED <<plan, built, db, owned, alive, writers, readers, leaked,
                   dpc, snap, todo, bridges, discovered>>

(* Mutant: the snapshot copies an entry for every id, the empty ones too. *)
DiscoverWithEmptyEntries(t) ==
    /\ phase = "running"
    /\ dpc = "idle"
    /\ t \notin discovered
    /\ dpc' = t
    /\ discovered' = discovered \cup {t}
    /\ snap' = {db[i] : i \in Ids}
    /\ todo' = {db[i] : i \in Ids}
    /\ UNCHANGED <<plan, built, phase, db, owned, alive, writers, readers,
                   leaked, bridges>>

(* Discovery reports a new topic: the callback takes a snapshot of the    *)
(* database with get_participants_map (under the shared lock).             *)
Discover(t) ==
    /\ phase = "running"
    /\ dpc = "idle"
    /\ t \notin discovered
    /\ dpc' = t
    /\ discovered' = discovered \cup {t}
    /\ snap' = Registered
    /\ todo' = Registered
    /\ UNCHANGED <<plan, built, phase, db, owned, alive, writers, readers,
                   leaked, bridges>>

(* The callback creates the writer and the reader of its topic in one     *)
(* participant of its snapshot (create_writer, create_reader under that   *)
(* participant's mutex).  A topic is reported once, so neither exists yet. *)
CreateEndpoints(p) ==
    /\ dpc \in Topics
    /\ p \in todo
    /\ writers' = [writers EXCEPT ![p] = @ \cup {dpc}]
    /\ readers' = [readers EXCEPT ![p] = @ \cup {dpc}]
    /\ todo' = todo \ {p}
    /\ UNCHANGED <<plan, built, phase, db, owned, alive, leaked, dpc, snap,
                   bridges, discovered>>

(* The bridge of the topic takes over the snapshot's participants.         *)
BridgeReady ==
    /\ dpc \in Topics
    /\ todo = {}
    /\ bridges' = [bridges EXCEPT ![dpc] = snap]
    /\ snap' = {}
    /\ dpc' = "idle"
    /\ UNCHANGED <<plan, built, phase, db, owned, alive, writers, readers,
                   leaked, todo, discovered>>

(* Mutant: stop does not wait for an in-flight discovery callback.          *)
StopNoWait ==
    /\ phase = "running"
    /\ phase' = "stopping"
    /\ UNCHANGED <<plan, built, db, owned, alive, writers, readers, leaked,
                   dpc, snap, todo, bridges, discovered>>

(* The router stops, under the mutex the discovery callback holds.          *)
Stop ==
    /\ phase = "running"
    /\ dpc = "idle"
    /\ phase' = "stopping"
    /\ UNCHANGED <<plan, built, db, owned, alive, writers, readers, leaked,
                   dpc, snap, todo, bridges, discovered>>

(* Mutant: the bridge deletes its writer and forgets its reader.            *)
TearDownBridgeWriterOnly(t, p) ==
    /\ phase = "stopping"
    /\ p \in bridges[t]
    /\ writers' = [writers EXCEPT ![p] = @ \ {t}]
    /\ bridges' = [bridges EXCEPT ![t] = @ \ {p}]
    /\ UNCHANGED <<plan, built, phase, db, owned, alive, readers, leaked, dpc,
                   snap, todo, discovered>>

(* The bridge of topic t, being destroyed, deletes its endpoints in        *)
(* participant p (delete_writer, delete_reader: erase and teardown hook,   *)
(* no-op when absent) and drops its reference to p.                        *)
TearDownBridge(t, p) ==
    /\ phase = "stopping"
    /\ p \in bridges[t]
    /\ writers' = [writers EXCEPT ![p] = @ \ {t}]
    /\ readers' = [readers EXCEPT ![p] = @ \ {t}]
    /\ bridges' = [bridges EXCEPT ![t] = @ \ {p}]
    /\ UNCHANGED <<plan, built, phase, db, owned, alive, leaked, dpc, snap,
                   todo, discovered>>

(* pop_(): the router removes an arbitrary entry and lets its own          *)
(* reference to that participant go.  Bridges being destroyed may still   *)
(* hold it.                                                                 *)
PopParticipant(i) ==
    /\ phase = "stopping"
    /\ db[i] # NoParticipant
    /\ db' = [db EXCEPT ![i] = NoParticipant]
    /\ owned' = owned \ {db[i]}
    /\ UNCHANGED <<plan, built, phase, alive, writers, readers, leaked, dpc,
                   snap, todo, bridges, discovered>>

(* Every bridge is gone and the database is empty: it is destroyed with   *)
(* the router.                                                              *)
Finish ==
    /\ phase = "stopping"
    /\ \A t \in Topics : bridges[t] = {}
    /\ Registered = {}
    /\ phase' = "done"
    /\ UNCHANGED <<plan, built, db, owned, alive, writers, readers, leaked,
                   dpc, snap, todo, bridges, discovered>>

(* The last reference to p is gone: ~BaseParticipant logs endpoints still  *)
(* alive as a defect and clears the maps without their teardown hooks.     *)
Destroy(p) ==
    /\ p \in alive
    /\ p \notin Held
    /\ alive' = alive \ {p}
    /\ leaked' = IF writers[p] \cup readers[p] # {} THEN leaked \cup {p} ELSE leaked
    /\ writers' = [writers EXCEPT ![p] = {}]
    /\ readers' = [readers EXCEPT ![p] = {}]
    /\ UNCHANGED <<plan, built, phase, db, owned, dpc, snap, todo, bridges,
                   discovered>>

Next ==
    \/ AddParticipant \/ Start \/ Stop \/ BridgeReady \/ Finish
    \/ \E t \in Topics : Discover(t)
    \/ \E p \in Handles : CreateEndpoints(p) \/ Destroy(p)
    \/ \E t \in Topics, p \in Handles : TearDownBridge(t, p)
    \/ \E i \in Ids : PopParticipant(i)

(* Every thread that has work keeps running: the discovery callback, the   *)
(* router's teardown and the release of the last reference.  Start, Stop   *)
(* and Discover are left to the user and the network.                       *)
Fairness ==
    /\ WF_vars(BridgeReady) /\ WF_vars(Finish)
    /\ WF_vars(\E i \in Ids : PopParticipant(i))
    /\ \A p \in Handles : WF_vars(CreateEndpoints(p)) /\ WF_vars(Destroy(p))
    /\ \A t \in Topics, p \in Handles : WF_vars(TearDownBridge(t, p))

Spec == Init /\ [][Next]_vars /\ Fairness

-----------------------------------------------------------------------------
(* Type invariant.                                                         *)
TypeOK ==
    /\ plan \in Plans
    /\ built \in 0..Len(plan)
    /\ phase \in {"init", "running", "stopping", "done"}
    /\ db \in [Ids -> Handles \cup {NoParticipant}]
    /\ owned \subseteq Handles /\ alive \subseteq Handles /\ leaked \subseteq Handles
    /\ writers \in [Handles -> SUBSET Topics]
    /\ readers \in [Handles -> SUBSET Topics]
    /\ dpc \in Topics \cup {"idle"}
    /\ todo \subseteq snap /\ snap \subseteq Handles
    /\ bridges \in [Topics -> SUBSET Handles]
    /\ discovered \subseteq Topics

(* ~BaseParticipant never finds endpoints still alive: every endpoint a   *)
(* callback created is deleted by its bridge before the participant's last *)
(* reference goes, in whatever order the bridges are torn down, the        *)
(* entries popped and the last references released.                       *)
NoLeakAtDestruction == leaked = {}

(* Once the router stops, every participant it built is eventually         *)
(* destroyed and the database destroyed empty.                             *)
ShutdownCompletes ==
    (phase = "stopping") ~> (phase = "done" /\ alive = {})
=============================================================================
