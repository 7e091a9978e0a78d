------------------------ MODULE BaseParticipantProofs ------------------------
(***************************************************************************)
(* Proofs that the endpoint maps of a participant account for every       *)
(* endpoint: each one created is either in its map or torn down exactly   *)
(* once, for every set of topics and every bound on endpoints.            *)
(*                                                                         *)
(* EndpointAccounting needs TypeOK: that an entry for topic t of role r   *)
(* holds an endpoint made for <<r, t>> is what makes an endpoint sit in   *)
(* at most one entry, so that the erase of a delete takes out only the    *)
(* endpoint deleted and a create changes no other endpoint's status.      *)
(***************************************************************************)
EXTENDS BaseParticipant, TLAPS

IInv == TypeOK /\ EndpointAccounting

LEMMA InitIInv == Init => IInv
BY EndpointsAssumption
   DEF Init, IInv, TypeOK, EndpointAccounting, Created, Handles, MapOf

(* Created endpoints are numbered, so none is the NoEndpoint marker.       *)
LEMMA CreatedNotEmpty ==
    ASSUME TypeOK, NEW h \in Created
    PROVE  h \in Nat /\ h # NoEndpoint /\ h <= Len(made)
BY EndpointsAssumption DEF TypeOK, Created

LEMMA CreateWriterIInv ==
    ASSUME IInv, NEW t \in Topics, CreateWriter(t)
    PROVE  IInv'
<1>0. TypeOK /\ EndpointAccounting
  BY DEF IInv
<1>1. /\ made' = Append(made, <<"writer", t>>)
      /\ Len(made) < MaxEndpoints
      /\ writers[t] = NoEndpoint
      /\ writers' = [writers EXCEPT ![t] = Len(made) + 1]
      /\ UNCHANGED <<readers, teardowns>>
  BY DEF CreateWriter
<1>2. /\ made \in Seq(Roles \X Topics)
      /\ writers \in [Topics -> Handles \cup {NoEndpoint}]
      /\ readers \in [Topics -> Handles \cup {NoEndpoint}]
      /\ teardowns \in [Handles -> Nat]
      /\ Len(made) \in Nat
  BY <1>0 DEF TypeOK
<1>3. Created' = Created \cup {Len(made) + 1}
  BY <1>1, <1>2 DEF Created
<1>4. \A h \in Created : made'[h] = made[h]
  BY <1>1, <1>2 DEF Created
<1>5. made'[Len(made) + 1] = <<"writer", t>>
  BY <1>1, <1>2
<1>6. Len(made) + 1 \in Handles /\ Len(made) + 1 \notin Created
  BY <1>1, <1>2, EndpointsAssumption DEF Handles, Created
<1>7. TypeOK'
  <2>1. writers' \in [Topics -> Handles \cup {NoEndpoint}]
    BY <1>1, <1>2, <1>6
  <2>2. made' \in Seq(Roles \X Topics) /\ Len(made') <= MaxEndpoints
    <3>1. <<"writer", t>> \in Roles \X Topics
      BY DEF Roles
    <3>2. Len(made') = Len(made) + 1
      BY <1>1, <1>2
    <3>. QED  BY <3>1, <3>2, <1>1, <1>2, EndpointsAssumption
  <2>3. ASSUME NEW r \in Roles, NEW u \in Topics
        PROVE  MapOf(r)'[u] = NoEndpoint \/ (MapOf(r)'[u] \in Created'
                                             /\ made'[MapOf(r)'[u]] = <<r, u>>)
    <3>1. CASE r = "writer" /\ u = t
      BY <3>1, <1>1, <1>2, <1>3, <1>5 DEF MapOf
    <3>2. CASE ~(r = "writer" /\ u = t)
      <4>1. MapOf(r)'[u] = MapOf(r)[u]
        BY <3>2, <1>1, <1>2 DEF MapOf, Roles
      <4>2. MapOf(r)[u] = NoEndpoint \/ (MapOf(r)[u] \in Created
                                         /\ made[MapOf(r)[u]] = <<r, u>>)
        BY <1>0 DEF TypeOK
      <4>. QED  BY <4>1, <4>2, <1>3, <1>4
    <3>. QED  BY <3>1, <3>2
  <2>. QED  BY <2>1, <2>2, <2>3, <1>1, <1>2 DEF TypeOK
<1>8. ASSUME NEW h \in Created
      PROVE  Registered(h)' <=> Registered(h)
  <2>1. h # NoEndpoint /\ h # Len(made) + 1
    BY <1>0, CreatedNotEmpty
  <2>2. \A r \in Roles, u \in Topics : MapOf(r)'[u] = h <=> MapOf(r)[u] = h
    BY <2>1, <1>1, <1>2 DEF MapOf, Roles
  <2>3. made[h][1] \in Roles
    BY <1>2 DEF Created
  <2>. QED  BY <2>2, <2>3, <1>4 DEF Registered
<1>. PICK k \in Nat : k = Len(made) + 1
  BY <1>2
<1>9. Registered(k)'
  <2>1. writers'[t] = k /\ made'[k][1] = "writer"
    BY <1>1, <1>2, <1>5
  <2>. QED  BY <2>1 DEF Registered, MapOf
<1>10. EndpointAccounting'
  <2>1. ASSUME NEW h \in Created'
        PROVE  IF Registered(h)' THEN teardowns'[h] = 0 ELSE teardowns'[h] = 1
    <3>1. CASE h \in Created
      BY <3>1, <1>0, <1>1, <1>8 DEF EndpointAccounting
    <3>2. CASE h = k
      <4>1. teardowns'[h] = 0
        BY <3>2, <1>0, <1>1, <1>6 DEF EndpointAccounting
      <4>. QED  BY <4>1, <3>2, <1>9
    <3>. QED  BY <3>1, <3>2, <1>3
  <2>2. \A h \in Handles \ Created' : teardowns'[h] = 0
    BY <1>0, <1>1, <1>3 DEF EndpointAccounting
  <2>. QED  BY <2>1, <2>2 DEF EndpointAccounting
<1>. QED  BY <1>7, <1>10 DEF IInv

LEMMA CreateReaderIInv ==
    ASSUME IInv, NEW t \in Topics, CreateReader(t)
    PROVE  IInv'
<1>0. TypeOK /\ EndpointAccounting
  BY DEF IInv
<1>1. /\ made' = Append(made, <<"reader", t>>)
      /\ Len(made) < MaxEndpoints
      /\ readers[t] = NoEndpoint
      /\ readers' = [readers EXCEPT ![t] = Len(made) + 1]
      /\ UNCHANGED <<writers, teardowns>>
  BY DEF CreateReader
<1>2. /\ made \in Seq(Roles \X Topics)
      /\ readers \in [Topics -> Handles \cup {NoEndpoint}]
      /\ writers \in [Topics -> Handles \cup {NoEndpoint}]
      /\ teardowns \in [Handles -> Nat]
      /\ Len(made) \in Nat
  BY <1>0 DEF TypeOK
<1>3. Created' = Created \cup {Len(made) + 1}
  BY <1>1, <1>2 DEF Created
<1>4. \A h \in Created : made'[h] = made[h]
  BY <1>1, <1>2 DEF Created
<1>5. made'[Len(made) + 1] = <<"reader", t>>
  BY <1>1, <1>2
<1>6. Len(made) + 1 \in Handles /\ Len(made) + 1 \notin Created
  BY <1>1, <1>2, EndpointsAssumption DEF Handles, Created
<1>7. TypeOK'
  <2>1. readers' \in [Topics -> Handles \cup {NoEndpoint}]
    BY <1>1, <1>2, <1>6
  <2>2. made' \in Seq(Roles \X Topics) /\ Len(made') <= MaxEndpoints
    <3>1. <<"reader", t>> \in Roles \X Topics
      BY DEF Roles
    <3>2. Len(made') = Len(made) + 1
      BY <1>1, <1>2
    <3>. QED  BY <3>1, <3>2, <1>1, <1>2, EndpointsAssumption
  <2>3. ASSUME NEW r \in Roles, NEW u \in Topics
        PROVE  MapOf(r)'[u] = NoEndpoint \/ (MapOf(r)'[u] \in Created'
                                             /\ made'[MapOf(r)'[u]] = <<r, u>>)
    <3>1. CASE r = "reader" /\ u = t
      BY <3>1, <1>1, <1>2, <1>3, <1>5 DEF MapOf
    <3>2. CASE ~(r = "reader" /\ u = t)
      <4>1. MapOf(r)'[u] = MapOf(r)[u]
        BY <3>2, <1>1, <1>2 DEF MapOf, Roles
      <4>2. MapOf(r)[u] = NoEndpoint \/ (MapOf(r)[u] \in Created
                                         /\ made[MapOf(r)[u]] = <<r, u>>)
        BY <1>0 DEF TypeOK
      <4>. QED  BY <4>1, <4>2, <1>3, <1>4
    <3>. QED  BY <3>1, <3>2
  <2>. QED  BY <2>1, <2>2, <2>3, <1>1, <1>2 DEF TypeOK
<1>8. ASSUME NEW h \in Created
      PROVE  Registered(h)' <=> Registered(h)
  <2>1. h # NoEndpoint /\ h # Len(made) + 1
    BY <1>0, CreatedNotEmpty
  <2>2. \A r \in Roles, u \in Topics : MapOf(r)'[u] = h <=> MapOf(r)[u] = h
    BY <2>1, <1>1, <1>2 DEF MapOf, Roles
  <2>3. made[h][1] \in Roles
    BY <1>2 DEF Created
  <2>. QED  BY <2>2, <2>3, <1>4 DEF Registered
<1>. PICK k \in Nat : k = Len(made) + 1
  BY <1>2
<1>9. Registered(k)'
  <2>1. readers'[t] = k /\ made'[k][1] = "reader"
    BY <1>1, <1>2, <1>5
  <2>. QED  BY <2>1 DEF Registered, MapOf
<1>10. EndpointAccounting'
  <2>1. ASSUME NEW h \in Created'
        PROVE  IF Registered(h)' THEN teardowns'[h] = 0 ELSE teardowns'[h] = 1
    <3>1. CASE h \in Created
      BY <3>1, <1>0, <1>1, <1>8 DEF EndpointAccounting
    <3>2. CASE h = k
      <4>1. teardowns'[h] = 0
        BY <3>2, <1>0, <1>1, <1>6 DEF EndpointAccounting
      <4>. QED  BY <4>1, <3>2, <1>9
    <3>. QED  BY <3>1, <3>2, <1>3
  <2>2. \A h \in Handles \ Created' : teardowns'[h] = 0
    BY <1>0, <1>1, <1>3 DEF EndpointAccounting
  <2>. QED  BY <2>1, <2>2 DEF EndpointAccounting
<1>. QED  BY <1>7, <1>10 DEF IInv

LEMMA DeleteWriterIInv ==
    ASSUME IInv, NEW d \in Created, DeleteWriter(d)
    PROVE  IInv'
<1>0. TypeOK /\ EndpointAccounting
  BY DEF IInv
<1>1. made' = made /\ readers' = readers /\ made[d][1] = "writer"
  BY DEF DeleteWriter
<1>2. /\ made \in Seq(Roles \X Topics)
      /\ writers \in [Topics -> Handles \cup {NoEndpoint}]
      /\ readers \in [Topics -> Handles \cup {NoEndpoint}]
      /\ teardowns \in [Handles -> Nat]
      /\ Len(made) <= MaxEndpoints
  BY <1>0 DEF TypeOK
<1>3. d \in Handles /\ d # NoEndpoint /\ Created' = Created
  BY <1>0, <1>1, <1>2, CreatedNotEmpty, EndpointsAssumption DEF Handles, Created
<1>4. CASE \E t \in Topics : writers[t] = d
  <2>1. /\ writers' = [t \in Topics |-> IF writers[t] = d THEN NoEndpoint ELSE writers[t]]
        /\ teardowns' = [teardowns EXCEPT ![d] = teardowns[d] + 1]
    BY <1>4 DEF DeleteWriter
  <2>2. TypeOK'
    <3>1. writers' \in [Topics -> Handles \cup {NoEndpoint}]
      BY <2>1, <1>2
    <3>2. teardowns' \in [Handles -> Nat]
      BY <2>1, <1>2, <1>3
    <3>3. ASSUME NEW r \in Roles, NEW u \in Topics
          PROVE  MapOf(r)'[u] = NoEndpoint \/ (MapOf(r)'[u] \in Created'
                                               /\ made'[MapOf(r)'[u]] = <<r, u>>)
      <4>1. MapOf(r)'[u] = NoEndpoint \/ MapOf(r)'[u] = MapOf(r)[u]
        BY <2>1, <1>1 DEF MapOf, Roles
      <4>2. MapOf(r)[u] = NoEndpoint \/ (MapOf(r)[u] \in Created
                                         /\ made[MapOf(r)[u]] = <<r, u>>)
        BY <1>0 DEF TypeOK
      <4>. QED  BY <4>1, <4>2, <1>1, <1>3
    <3>. QED  BY <3>1, <3>2, <3>3, <1>1, <1>2 DEF TypeOK
  <2>3. Registered(d) /\ ~Registered(d)'
    BY <1>1, <1>4, <2>1, <1>3 DEF Registered, MapOf
  <2>4. ASSUME NEW h \in Created \ {d}
        PROVE  Registered(h)' <=> Registered(h)
    <3>1. h # NoEndpoint
      BY <1>0, CreatedNotEmpty
    <3>2. \A r \in Roles, u \in Topics : MapOf(r)'[u] = h <=> MapOf(r)[u] = h
      BY <3>1, <1>1, <2>1 DEF MapOf, Roles
    <3>3. made[h][1] \in Roles
      BY <1>2 DEF Created
    <3>. QED  BY <3>2, <3>3, <1>1 DEF Registered
  <2>5. \A h \in Handles : h # d => teardowns'[h] = teardowns[h]
    BY <2>1, <1>2
  <2>6. teardowns'[d] = 1
    <3>1. teardowns'[d] = teardowns[d] + 1
      BY <2>1, <1>2, <1>3
    <3>2. teardowns[d] = 0
      BY <2>3, <1>0 DEF EndpointAccounting
    <3>. QED  BY <3>1, <3>2
  <2>7. EndpointAccounting'
    <3>1. ASSUME NEW h \in Created'
          PROVE  IF Registered(h)' THEN teardowns'[h] = 0 ELSE teardowns'[h] = 1
      <4>1. CASE h = d
        BY <4>1, <2>3, <2>6
      <4>2. CASE h # d
        <5>1. h \in Handles
          BY <1>3, <1>2, EndpointsAssumption DEF Created, Handles
        <5>. QED  BY <4>2, <5>1, <2>4, <2>5, <1>0, <1>3 DEF EndpointAccounting
      <4>. QED  BY <4>1, <4>2
    <3>2. \A h \in Handles \ Created' : teardowns'[h] = 0
      BY <1>0, <1>3, <2>5 DEF EndpointAccounting
    <3>. QED  BY <3>1, <3>2 DEF EndpointAccounting
  <2>. QED  BY <2>2, <2>7 DEF IInv
<1>5. CASE ~\E t \in Topics : writers[t] = d
  <2>1. UNCHANGED <<writers, readers, made, teardowns>>
    BY <1>5 DEF DeleteWriter
  <2>. QED  BY <2>1, <1>0 DEF IInv, TypeOK, EndpointAccounting, Registered,
                              MapOf, Created
<1>. QED  BY <1>4, <1>5

LEMMA DeleteReaderIInv ==
    ASSUME IInv, NEW d \in Created, DeleteReader(d)
    PROVE  IInv'
<1>0. TypeOK /\ EndpointAccounting
  BY DEF IInv
<1>1. made' = made /\ writers' = writers /\ made[d][1] = "reader"
  BY DEF DeleteReader
<1>2. /\ made \in Seq(Roles \X Topics)
      /\ readers \in [Topics -> Handles \cup {NoEndpoint}]
      /\ writers \in [Topics -> Handles \cup {NoEndpoint}]
      /\ teardowns \in [Handles -> Nat]
      /\ Len(made) <= MaxEndpoints
  BY <1>0 DEF TypeOK
<1>3. d \in Handles /\ d # NoEndpoint /\ Created' = Created
  BY <1>0, <1>1, <1>2, CreatedNotEmpty, EndpointsAssumption DEF Handles, Created
<1>4. CASE \E t \in Topics : readers[t] = d
  <2>1. /\ readers' = [t \in Topics |-> IF readers[t] = d THEN NoEndpoint ELSE readers[t]]
        /\ teardowns' = [teardowns EXCEPT ![d] = teardowns[d] + 1]
    BY <1>4 DEF DeleteReader
  <2>2. TypeOK'
    <3>1. readers' \in [Topics -> Handles \cup {NoEndpoint}]
      BY <2>1, <1>2
    <3>2. teardowns' \in [Handles -> Nat]
      BY <2>1, <1>2, <1>3
    <3>3. ASSUME NEW r \in Roles, NEW u \in Topics
          PROVE  MapOf(r)'[u] = NoEndpoint \/ (MapOf(r)'[u] \in Created'
                                               /\ made'[MapOf(r)'[u]] = <<r, u>>)
      <4>1. MapOf(r)'[u] = NoEndpoint \/ MapOf(r)'[u] = MapOf(r)[u]
        BY <2>1, <1>1 DEF MapOf, Roles
      <4>2. MapOf(r)[u] = NoEndpoint \/ (MapOf(r)[u] \in Created
                                         /\ made[MapOf(r)[u]] = <<r, u>>)
        BY <1>0 DEF TypeOK
      <4>. QED  BY <4>1, <4>2, <1>1, <1>3
    <3>. QED  BY <3>1, <3>2, <3>3, <1>1, <1>2 DEF TypeOK
  <2>3. Registered(d) /\ ~Registered(d)'
    BY <1>1, <1>4, <2>1, <1>3 DEF Registered, MapOf
  <2>4. ASSUME NEW h \in Created \ {d}
        PROVE  Registered(h)' <=> Registered(h)
    <3>1. h # NoEndpoint
      BY <1>0, CreatedNotEmpty
    <3>2. \A r \in Roles, u \in Topics : MapOf(r)'[u] = h <=> MapOf(r)[u] = h
      BY <3>1, <1>1, <2>1 DEF MapOf, Roles
    <3>3. made[h][1] \in Roles
      BY <1>2 DEF Created
    <3>. QED  BY <3>2, <3>3, <1>1 DEF Registered
  <2>5. \A h \in Handles : h # d => teardowns'[h] = teardowns[h]
    BY <2>1, <1>2
  <2>6. teardowns'[d] = 1
    <3>1. teardowns'[d] = teardowns[d] + 1
      BY <2>1, <1>2, <1>3
    <3>2. teardowns[d] = 0
      BY <2>3, <1>0 DEF EndpointAccounting
    <3>. QED  BY <3>1, <3>2
  <2>7. EndpointAccounting'
    <3>1. ASSUME NEW h \in Created'
          PROVE  IF Registered(h)' THEN teardowns'[h] = 0 ELSE teardowns'[h] = 1
      <4>1. CASE h = d
        BY <4>1, <2>3, <2>6
      <4>2. CASE h # d
        <5>1. h \in Handles
          BY <1>3, <1>2, EndpointsAssumption DEF Created, Handles
        <5>. QED  BY <4>2, <5>1, <2>4, <2>5, <1>0, <1>3 DEF EndpointAccounting
      <4>. QED  BY <4>1, <4>2
    <3>2. \A h \in Handles \ Created' : teardowns'[h] = 0
      BY <1>0, <1>3, <2>5 DEF EndpointAccounting
    <3>. QED  BY <3>1, <3>2 DEF EndpointAccounting
  <2>. QED  BY <2>2, <2>7 DEF IInv
<1>5. CASE ~\E t \in Topics : readers[t] = d
  <2>1. UNCHANGED <<writers, readers, made, teardowns>>
    BY <1>5 DEF DeleteReader
  <2>. QED  BY <2>1, <1>0 DEF IInv, TypeOK, EndpointAccounting, Registered,
                              MapOf, Created
<1>. QED  BY <1>4, <1>5

LEMMA NextIInv == IInv /\ [Next]_vars => IInv'
<1> SUFFICES ASSUME IInv, [Next]_vars PROVE IInv'
  OBVIOUS
<1>1. CASE \E t \in Topics : CreateWriter(t)
  BY <1>1, CreateWriterIInv
<1>2. CASE \E t \in Topics : CreateReader(t)
  BY <1>2, CreateReaderIInv
<1>3. CASE \E h \in Created : DeleteWriter(h)
  BY <1>3, DeleteWriterIInv
<1>4. CASE \E h \in Created : DeleteReader(h)
  BY <1>4, DeleteReaderIInv
<1>5. CASE UNCHANGED vars
  BY <1>5 DEF vars, IInv, TypeOK, EndpointAccounting, Registered, MapOf, Created
<1>. QED  BY <1>1, <1>2, <1>3, <1>4, <1>5 DEF Next

(* Map entries only ever hold an endpoint made for their role and topic.   *)
THEOREM TypeCorrect == Spec => []TypeOK
<1>1. IInv => TypeOK
  BY DEF IInv
<1>. QED  BY <1>1, InitIInv, NextIInv, PTL DEF Spec

(* create/delete through fresh or stale pointers never tear an endpoint    *)
(* down twice, while routed, or drop it without its teardown.              *)
THEOREM AccountingHolds == Spec => []EndpointAccounting
<1>1. IInv => EndpointAccounting
  BY DEF IInv
<1>. QED  BY <1>1, InitIInv, NextIInv, PTL DEF Spec

=============================================================================
