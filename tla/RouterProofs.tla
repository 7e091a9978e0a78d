------------------------------ MODULE RouterProofs ------------------------------
(***************************************************************************)
(* Proofs that no participant is destroyed with endpoints still alive,    *)
(* for every set of ids and topics and every configuration.               *)
(*                                                                         *)
(* The property is not inductive by itself.  A participant is destroyed   *)
(* once nobody holds it, so its maps are empty then only if every         *)
(* endpoint is backed by a holder: by the bridge of its topic, or by the  *)
(* snapshot of the callback creating it (EndpointsBacked).  BridgeReady   *)
(* hands the snapshot over to the bridge of the callback's topic, which   *)
(* must not have had a bridge (NoBridgeInFlight).  And a new participant  *)
(* must be fresh: everything alive or held was built (Built), and a       *)
(* holder only holds live participants (HeldAlive).                       *)
(***************************************************************************)
EXTENDS Router, TLAPS

(* Whatever a holder keeps a reference to is alive (shared_ptr).          *)
HeldAlive == Held \subseteq alive

Built == alive \cup Held \subseteq 1..built

EndpointsBacked ==
    \A p \in Handles, t \in Topics :
        t \in writers[p] \cup readers[p] =>
            p \in bridges[t] \/ (dpc = t /\ p \in snap)

NoBridgeInFlight == dpc \in Topics => bridges[dpc] = {}

Discovered == /\ \A u \in Topics : bridges[u] # {} => u \in discovered
              /\ dpc \in Topics => dpc \in discovered

IInv == /\ TypeOK /\ HeldAlive /\ NoLeakAtDestruction
        /\ Built /\ EndpointsBacked /\ NoBridgeInFlight /\ Discovered
(* The holders of a state with unchanged holder variables.                  *)
LEMMA HeldUnchanged ==
    ASSUME UNCHANGED <<db, owned, snap, bridges>>
    PROVE  Held' = Held
BY DEF Held, Registered

LEMMA InitIInv == Init => IInv
<1> SUFFICES ASSUME Init PROVE IInv
  OBVIOUS
<1>1. Held = {}
  BY DEF Init, Held, Registered
<1>2. TypeOK
  BY PlansAssumption DEF Init, TypeOK
<1>3. EndpointsBacked
  BY DEF Init, EndpointsBacked
<1>4. NoBridgeInFlight /\ Discovered
  BY TopicsAssumption DEF Init, NoBridgeInFlight, Discovered
<1>5. HeldAlive /\ NoLeakAtDestruction /\ Built
  BY <1>1 DEF Init, HeldAlive, NoLeakAtDestruction, Built
<1>. QED  BY <1>2, <1>3, <1>4, <1>5 DEF IInv

LEMMA AddParticipantIInv ==
    ASSUME IInv, AddParticipant
    PROVE  IInv'
<1> USE DEF IInv
<1> DEFINE k == built + 1
<1>1. plan \in Seq(Ids) /\ Len(plan) <= MaxBuilt /\ MaxBuilt \in Nat
  BY PlansAssumption DEF TypeOK
<1>2. k \in 1..Len(plan) /\ k \in Handles /\ plan[k] \in Ids /\ built' = k
  BY <1>1 DEF AddParticipant, TypeOK, Handles
<1>3. Held' \subseteq Held \cup {k}
  <2>1. UNCHANGED <<snap, bridges>>
    BY DEF AddParticipant
  <2>2. CASE db[plan[k]] = NoParticipant
    <3>1. db' = [db EXCEPT ![plan[k]] = k] /\ owned' = owned \cup {k}
      BY <2>2 DEF AddParticipant
    <3>2. Registered' \subseteq Registered \cup {k}
      BY <3>1 DEF Registered
    <3>. QED  BY <2>1, <3>1, <3>2 DEF Held
  <2>3. CASE db[plan[k]] # NoParticipant
    BY <2>1, <2>3, HeldUnchanged DEF AddParticipant
  <2>. QED  BY <2>2, <2>3
<1>4. alive' = alive \cup {k}
  BY DEF AddParticipant
<1>5. TypeOK'
  BY <1>1, <1>2 DEF AddParticipant, TypeOK
<1>6. HeldAlive'
  BY <1>3, <1>4 DEF HeldAlive
<1>7. Built'
  BY <1>2, <1>3, <1>4 DEF Built, TypeOK
<1>8. UNCHANGED <<writers, readers, leaked, dpc, snap, bridges>>
  BY DEF AddParticipant
<1>9. NoLeakAtDestruction' /\ EndpointsBacked'
  BY <1>8 DEF NoLeakAtDestruction, EndpointsBacked
<1>10. NoBridgeInFlight' /\ Discovered'
  BY <1>8 DEF AddParticipant, NoBridgeInFlight, Discovered
<1>. QED  BY <1>5, <1>6, <1>7, <1>9, <1>10

LEMMA StartIInv ==
    ASSUME IInv, Start
    PROVE  IInv'
<1>1. Held' = Held
  BY HeldUnchanged DEF Start
<1>. QED  BY <1>1 DEF Start, IInv, TypeOK, HeldAlive, NoLeakAtDestruction,
              Built, EndpointsBacked, NoBridgeInFlight, Discovered

LEMMA StopIInv ==
    ASSUME IInv, Stop
    PROVE  IInv'
<1>1. Held' = Held
  BY HeldUnchanged DEF Stop
<1>. QED  BY <1>1 DEF Stop, IInv, TypeOK, HeldAlive, NoLeakAtDestruction,
              Built, EndpointsBacked, NoBridgeInFlight, Discovered

LEMMA FinishIInv ==
    ASSUME IInv, Finish
    PROVE  IInv'
<1>1. Held' = Held
  BY HeldUnchanged DEF Finish
<1>. QED  BY <1>1 DEF Finish, IInv, TypeOK, HeldAlive, NoLeakAtDestruction,
              Built, EndpointsBacked, NoBridgeInFlight, Discovered

LEMMA DiscoverIInv ==
    ASSUME IInv, NEW t \in Topics, Discover(t)
    PROVE  IInv'
<1> USE DEF IInv
<1>1. Registered \subseteq Held /\ Registered \subseteq Handles
  BY DEF Held, Registered, TypeOK
<1>2. Held' \subseteq Held
  <2>1. Registered' = Registered
    BY DEF Discover, Registered
  <2>2. snap' = Registered /\ UNCHANGED <<owned, bridges>>
    BY DEF Discover
  <2>3. Held' = owned \cup Registered \cup Registered
                \cup UNION {bridges[u] : u \in Topics}
    BY <2>1, <2>2 DEF Held
  <2>4. Held = owned \cup Registered \cup snap
               \cup UNION {bridges[u] : u \in Topics}
    BY DEF Held
  <2>. QED  BY <1>1, <2>3, <2>4
<1>3. TypeOK'
  BY <1>1 DEF Discover, TypeOK
<1>4. EndpointsBacked'
  <2>1. \A u \in Topics : dpc # u
    BY TopicsAssumption DEF Discover
  <2>2. UNCHANGED <<writers, readers, bridges>>
    BY DEF Discover
  <2>. QED  BY <2>1, <2>2 DEF EndpointsBacked
<1>5. NoBridgeInFlight' /\ Discovered'
  BY DEF Discover, NoBridgeInFlight, Discovered
<1>. QED  BY <1>2, <1>3, <1>4, <1>5 DEF Discover, HeldAlive,
              NoLeakAtDestruction, Built
LEMMA CreateEndpointsIInv ==
    ASSUME IInv, NEW p \in Handles, CreateEndpoints(p)
    PROVE  IInv'
<1> USE DEF IInv
<1>1. Held' = Held
  BY HeldUnchanged DEF CreateEndpoints
<1>2. dpc \in Topics /\ p \in snap
  BY DEF CreateEndpoints, TypeOK
<1>3. TypeOK'
  BY <1>2 DEF CreateEndpoints, TypeOK
<1>4. EndpointsBacked'
  <2> SUFFICES ASSUME NEW q \in Handles, NEW u \in Topics,
                      u \in writers'[q] \cup readers'[q]
               PROVE  q \in bridges'[u] \/ (dpc' = u /\ q \in snap')
    BY DEF EndpointsBacked
  <2>1. CASE q = p /\ u = dpc
    BY <1>2, <2>1 DEF CreateEndpoints
  <2>2. CASE ~(q = p /\ u = dpc)
    <3>1. u \in writers[q] \cup readers[q]
      BY <2>2 DEF CreateEndpoints, TypeOK
    <3>. QED  BY <3>1 DEF CreateEndpoints, EndpointsBacked
  <2>. QED  BY <2>1, <2>2
<1>. QED  BY <1>1, <1>3, <1>4 DEF CreateEndpoints, HeldAlive,
              NoLeakAtDestruction, Built, NoBridgeInFlight, Discovered

LEMMA BridgeReadyIInv ==
    ASSUME IInv, BridgeReady
    PROVE  IInv'
<1> USE DEF IInv
<1>1. dpc \in Topics /\ bridges[dpc] = {} /\ dpc \in discovered
  BY DEF BridgeReady, NoBridgeInFlight, Discovered
<1>2. Held' \subseteq Held
  <2>1. UNION {bridges'[u] : u \in Topics}
            \subseteq (UNION {bridges[u] : u \in Topics}) \cup snap
    <3> SUFFICES ASSUME NEW u \in Topics, NEW x \in bridges'[u]
                 PROVE  x \in (UNION {bridges[v] : v \in Topics}) \cup snap
      OBVIOUS
    <3>1. bridges' = [bridges EXCEPT ![dpc] = snap]
          /\ bridges \in [Topics -> SUBSET Handles]
      BY DEF BridgeReady, TypeOK
    <3>2. CASE u = dpc
      <4>1. bridges'[u] = snap
        BY <1>1, <3>1, <3>2
      <4>. QED  BY <4>1
    <3>3. CASE u # dpc
      <4>1. bridges'[u] = bridges[u]
        BY <3>1, <3>3
      <4>. QED  BY <4>1
    <3>. QED  BY <3>2, <3>3
  <2>. QED  BY <2>1 DEF BridgeReady, Held, Registered
<1>3. TypeOK'
  BY <1>1 DEF BridgeReady, TypeOK
<1>4. EndpointsBacked'
  <2> SUFFICES ASSUME NEW q \in Handles, NEW u \in Topics,
                      u \in writers'[q] \cup readers'[q]
               PROVE  q \in bridges'[u]
    BY DEF EndpointsBacked
  <2>1. q \in bridges[u] \/ (dpc = u /\ q \in snap)
    BY DEF BridgeReady, EndpointsBacked
  <2>. QED  BY <1>1, <2>1 DEF BridgeReady, TypeOK
<1>5. NoBridgeInFlight' /\ Discovered'
  BY <1>1, TopicsAssumption DEF BridgeReady, NoBridgeInFlight, Discovered, TypeOK
<1>. QED  BY <1>2, <1>3, <1>4, <1>5 DEF BridgeReady, HeldAlive,
              NoLeakAtDestruction, Built

LEMMA TearDownBridgeIInv ==
    ASSUME IInv, NEW t \in Topics, NEW p \in Handles, TearDownBridge(t, p)
    PROVE  IInv'
<1> USE DEF IInv
<1>1. Held' \subseteq Held
  BY DEF TearDownBridge, Held, Registered
<1>2. TypeOK'
  BY DEF TearDownBridge, TypeOK
<1>3. EndpointsBacked'
  <2> SUFFICES ASSUME NEW q \in Handles, NEW u \in Topics,
                      u \in writers'[q] \cup readers'[q]
               PROVE  q \in bridges'[u] \/ (dpc' = u /\ q \in snap')
    BY DEF EndpointsBacked
  <2>1. u \in writers[q] \cup readers[q] /\ ~(q = p /\ u = t)
    BY DEF TearDownBridge, TypeOK
  <2>2. q \in bridges[u] \/ (dpc = u /\ q \in snap)
    BY <2>1 DEF EndpointsBacked
  <2>. QED  BY <2>1, <2>2 DEF TearDownBridge, TypeOK
<1>4. NoBridgeInFlight' /\ Discovered'
  BY DEF TearDownBridge, NoBridgeInFlight, Discovered, TypeOK
<1>. QED  BY <1>1, <1>2, <1>3, <1>4 DEF TearDownBridge, HeldAlive,
              NoLeakAtDestruction, Built

LEMMA PopParticipantIInv ==
    ASSUME IInv, NEW i \in Ids, PopParticipant(i)
    PROVE  IInv'
<1> USE DEF IInv
<1>1. Registered' \subseteq Registered
  BY DEF PopParticipant, Registered, TypeOK
<1>2. Held' \subseteq Held
  BY <1>1 DEF PopParticipant, Held
<1>3. TypeOK'
  BY DEF PopParticipant, TypeOK
<1>. QED  BY <1>2, <1>3 DEF PopParticipant, HeldAlive, NoLeakAtDestruction,
              Built, EndpointsBacked, NoBridgeInFlight, Discovered

LEMMA DestroyIInv ==
    ASSUME IInv, NEW p \in Handles, Destroy(p)
    PROVE  IInv'
<1> USE DEF IInv
<1>1. Held' = Held
  BY HeldUnchanged DEF Destroy
<1>2. p \notin snap /\ \A u \in Topics : p \notin bridges[u]
  BY DEF Destroy, Held
<1>3. writers[p] \cup readers[p] = {}
  BY <1>2 DEF EndpointsBacked, TypeOK
<1>4. TypeOK'
  BY DEF Destroy, TypeOK
<1>5. NoLeakAtDestruction'
  BY <1>3 DEF Destroy, NoLeakAtDestruction
<1>6. EndpointsBacked'
  BY DEF Destroy, EndpointsBacked, TypeOK
<1>. QED  BY <1>1, <1>4, <1>5, <1>6 DEF Destroy, HeldAlive, Built,
              NoBridgeInFlight, Discovered

LEMMA NextIInv == IInv /\ [Next]_vars => IInv'
<1> SUFFICES ASSUME IInv, [Next]_vars PROVE IInv'
  OBVIOUS
<1>1. CASE UNCHANGED vars
  <2>1. Held' = Held
    BY <1>1, HeldUnchanged DEF vars
  <2>. QED  BY <1>1, <2>1 DEF vars, IInv, TypeOK, HeldAlive,
                NoLeakAtDestruction, Built, EndpointsBacked, NoBridgeInFlight,
                Discovered
<1>. QED  BY <1>1, AddParticipantIInv, StartIInv, StopIInv, BridgeReadyIInv,
             FinishIInv, DiscoverIInv, CreateEndpointsIInv, DestroyIInv,
             TearDownBridgeIInv, PopParticipantIInv DEF Next

(* ~BaseParticipant never finds a writer or reader still alive: every      *)
(* endpoint created by a discovery callback is deleted before the last     *)
(* reference to its participant goes.                                      *)
THEOREM NoLeakHolds == Spec => []NoLeakAtDestruction
<1>1. IInv => NoLeakAtDestruction
  BY DEF IInv
<1>. QED  BY <1>1, InitIInv, NextIInv, PTL DEF Spec

(* The router model is well typed for every configuration.                 *)
THEOREM TypeCorrect == Spec => []TypeOK
<1>1. IInv => TypeOK
  BY DEF IInv
<1>. QED  BY <1>1, InitIInv, NextIInv, PTL DEF Spec
=============================================================================
