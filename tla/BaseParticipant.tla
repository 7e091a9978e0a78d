--------------------------- MODULE BaseParticipant ---------------------------
(***************************************************************************)
(* The endpoint maps of one participant (BaseParticipant): writers_ and   *)
(* readers_, topic -> endpoint, with create_writer / create_reader and    *)
(* delete_writer / delete_reader.                                         *)
(*                                                                         *)
(* Every operation runs whole under the participant's recursive mutex_,  *)
(* so each is one step.  An endpoint is the shared_ptr the create call    *)
(* returned: endpoint h is the h-th one created, made[h] records its role *)
(* and topic.  The callers (bridges, the discovery thread, shutdown) keep *)
(* copies of those pointers and may pass any of them, stale ones          *)
(* included, to delete_*: DeleteWriter(h) ranges over every writer ever   *)
(* created.                                                                *)
(***************************************************************************)
EXTENDS Naturals, Sequences

CONSTANTS Topics,        \* the DdsTopic values endpoints are created for
          MaxEndpoints,  \* bound on the number of endpoints created
          NoEndpoint     \* the topic has no entry in the map

ASSUME EndpointsAssumption == MaxEndpoints \in Nat /\ NoEndpoint \notin Nat

Roles == {"writer", "reader"}

Handles == 1..MaxEndpoints

VARIABLES writers,    \* writers_: topic -> endpoint, or NoEndpoint
          readers,    \* readers_
          made,       \* made[h] = <<role, topic>> of the h-th endpoint created
          teardowns   \* teardowns[h]: calls of delete_writer_/delete_reader_ on h

vars == <<writers, readers, made, teardowns>>

(* The map of a role.                                                      *)
MapOf(r) == IF r = "writer" THEN writers ELSE readers

(* Endpoint h is in the map of its role.                                   *)
Registered(h) == \E t \in Topics : MapOf(made[h][1])[t] = h

(* Endpoints created so far.                                               *)
Created == 1..Len(made)

Init ==
    /\ writers = [t \in Topics |-> NoEndpoint]
    /\ readers = [t \in Topics |-> NoEndpoint]
    /\ made = <<>>
    /\ teardowns = [h \in Handles |-> 0]

(* Mutant: the kind-specific create_writer_ hands back the writer object  *)
(* it built first (one shared writer per participant) once there is one.   *)
CreateWriterShared(t) ==
    /\ writers[t] = NoEndpoint
    /\ Len(made) < MaxEndpoints
    /\ IF \E h \in Created : made[h][1] = "writer"
       THEN /\ writers' = [writers EXCEPT ![t] =
                              CHOOSE h \in Created : made[h][1] = "writer"]
            /\ UNCHANGED made
       ELSE /\ writers' = [writers EXCEPT ![t] = Len(made) + 1]
            /\ made' = Append(made, <<"writer", t>>)
    /\ UNCHANGED <<readers, teardowns>>

(* Mutant: create_reader checks writers_ for the topic (copy-paste), so a  *)
(* second reader is built and its emplace into readers_ silently fails.    *)
CreateReaderWrongCheck(t) ==
    /\ writers[t] = NoEndpoint
    /\ Len(made) < MaxEndpoints
    /\ readers' = IF readers[t] = NoEndpoint
                  THEN [readers EXCEPT ![t] = Len(made) + 1]
                  ELSE readers
    /\ made' = Append(made, <<"reader", t>>)
    /\ UNCHANGED <<writers, teardowns>>

(* create_writer(topic): under mutex_, an existing writer for the topic   *)
(* throws InitializationException and leaves the map as it is; otherwise  *)
(* create_writer_ builds the endpoint and it is emplaced.                  *)
CreateWriter(t) ==
    /\ writers[t] = NoEndpoint
    /\ Len(made) < MaxEndpoints
    /\ writers' = [writers EXCEPT ![t] = Len(made) + 1]
    /\ made' = Append(made, <<"writer", t>>)
    /\ UNCHANGED <<readers, teardowns>>

(* create_reader(topic), the same on readers_.                              *)
CreateReader(t) ==
    /\ readers[t] = NoEndpoint
    /\ Len(made) < MaxEndpoints
    /\ readers' = [readers EXCEPT ![t] = Len(made) + 1]
    /\ made' = Append(made, <<"reader", t>>)
    /\ UNCHANGED <<writers, teardowns>>

(* delete_writer(writer): under mutex_, the entry holding this very        *)
(* pointer is erased and delete_writer_ is called on it; a pointer that is *)
(* in no entry is a no-op.                                                 *)
DeleteWriter(h) ==
    /\ made[h][1] = "writer"
    /\ IF \E t \in Topics : writers[t] = h
       THEN /\ writers' = [t \in Topics |->
                              IF writers[t] = h THEN NoEndpoint ELSE writers[t]]
            /\ teardowns' = [teardowns EXCEPT ![h] = @ + 1]
       ELSE UNCHANGED <<writers, teardowns>>
    /\ UNCHANGED <<readers, made>>

(* Mutant: delete_reader calls delete_reader_ even when the pointer was    *)
(* not found (the hook moved out of the if).                               *)
DeleteReaderAlwaysHook(h) ==
    /\ made[h][1] = "reader"
    /\ readers' = [t \in Topics |->
                      IF readers[t] = h THEN NoEndpoint ELSE readers[t]]
    /\ teardowns' = [teardowns EXCEPT ![h] = @ + 1]
    /\ UNCHANGED <<writers, made>>

(* delete_reader(reader), the same on readers_.                              *)
DeleteReader(h) ==
    /\ made[h][1] = "reader"
    /\ IF \E t \in Topics : readers[t] = h
       THEN /\ readers' = [t \in Topics |->
                              IF readers[t] = h THEN NoEndpoint ELSE readers[t]]
            /\ teardowns' = [teardowns EXCEPT ![h] = @ + 1]
       ELSE UNCHANGED <<readers, teardowns>>
    /\ UNCHANGED <<writers, made>>

Next ==
    \/ \E t \in Topics : CreateWriter(t) \/ CreateReader(t)
    \/ \E h \in Created : DeleteWriter(h) \/ DeleteReader(h)

Spec == Init /\ [][Next]_vars

-----------------------------------------------------------------------------
(* Type invariant; a map entry only ever holds an endpoint created for    *)
(* that role and that topic.                                               *)
TypeOK ==
    /\ writers \in [Topics -> Handles \cup {NoEndpoint}]
    /\ readers \in [Topics -> Handles \cup {NoEndpoint}]
    /\ made \in Seq(Roles \X Topics)
    /\ Len(made) <= MaxEndpoints
    /\ teardowns \in [Handles -> Nat]
    /\ \A r \in Roles, t \in Topics :
          MapOf(r)[t] = NoEndpoint \/ (MapOf(r)[t] \in Created
                                        /\ made[MapOf(r)[t]] = <<r, t>>)

(* Every endpoint ever created is in exactly one of two states: held in   *)
(* its map, or torn down by exactly one delete_writer_/delete_reader_     *)
(* call.  However the callers interleave creates with deletes through     *)
(* stale pointers, no endpoint is torn down twice, torn down while still  *)
(* routed, or dropped from the map without its teardown.                  *)
EndpointAccounting ==
    /\ \A h \in Created :
          IF Registered(h) THEN teardowns[h] = 0 ELSE teardowns[h] = 1
    /\ \A h \in Handles \ Created : teardowns[h] = 0
=============================================================================
