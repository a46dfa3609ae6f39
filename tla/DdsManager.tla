------------------------------ MODULE DdsManager ------------------------------
(***************************************************************************)
(* rtpdds::DdsManager: the registry of DDS entities the gateway creates on *)
(* behalf of its UI.  Every public call holds mutex_ from its first test   *)
(* to its return, so a call is one step.                                   *)
(*                                                                         *)
(* writers_ and readers_ have the same shape, as publishers_ and           *)
(* subscribers_ do, and are told apart here by a Side.  A call that fails  *)
(* half-way leaves behind what it had created: that is kept, since later   *)
(* calls meet it.  What the DDS library decides (a constructor or set_qos  *)
(* throws) is a choice.  A failure to apply a QoS profile that the code    *)
(* answers by creating the entity with the default one is the same step    *)
(* as success.  Attaching a listener to an entity just created succeeds.   *)
(* remove_writer() and remove_reader() have no caller.                     *)
(***************************************************************************)
EXTENDS Naturals, FiniteSets

CONSTANTS
  Domain,      \* domain ids
  Group,       \* names of publishers and subscribers
  Topic,       \* topic names
  Type,        \* type names a client may send
  Registered,  \* those in idlmeta::type_registry()
  NoType,      \* a topic without an entry in a map
  MaxId        \* bound: next_holder_id_ stays at most MaxId

ASSUME ConstantsAssumption ==
  /\ Registered \subseteq Type
  /\ NoType \notin Type
  /\ MaxId \in Nat

Side == {"writer", "reader"}
GroupKey == Side \X Domain \X Group
Slot == Side \X Domain \X Group \X Topic
Mode == {"Listener", "WaitSet"}

GroupOf(slot) == <<slot[1], slot[2], slot[3]>>
TopicOf(slot) == <<slot[2], slot[4]>>

VARIABLES
  participants,  \* participants_
  groups,        \* publishers_ (side "writer") and subscribers_ (side "reader")
  topics,        \* topics_: the type of the cached topic holder
  topicType,     \* topic_to_type_
  slots,         \* the keys of writers_ and readers_, those of empty vectors too
  endpoints,     \* the WriterEntry and ReaderEntry in those vectors
  nextId,        \* next_holder_id_
  eventMode,     \* event_mode_
  entitySnap,    \* the entity counts last given to StatsManager
  result         \* what the last call answered, and the writes it made

entityVars == <<participants, groups, topics, topicType, slots, endpoints>>
vars == <<entityVars, nextId, eventMode, entitySnap, result>>

Endpoint == [slot : Slot, type : Type, id : 1..MaxId, mode : Mode]

Counts(P, G, E, T) ==
  [ participants |-> Cardinality(P),
    publishers   |-> Cardinality({g \in G : g[1] = "writer"}),
    subscribers  |-> Cardinality({g \in G : g[1] = "reader"}),
    writers      |-> Cardinality({e \in E : e.slot[1] = "writer"}),
    readers      |-> Cardinality({e \in E : e.slot[1] = "reader"}),
    topics       |-> Cardinality({dt \in Domain \X Topic : T[dt] # NoType}) ]

\* status: "ok", DdsErrorCategory "logic" or "resource", or an exception.
\* qosThrew: DDS refused to apply the QoS profile to the topic.
Answer(op, status, qosThrew, wrote) ==
  result' = [op |-> op, status |-> status, qosThrew |-> qosThrew, wrote |-> wrote]
Reply(op, status) == Answer(op, status, FALSE, {})

NoTopics == [dt \in Domain \X Topic |-> NoType]

Init ==
  /\ participants = {} /\ groups = {}
  /\ topics = NoTopics /\ topicType = NoTopics
  /\ slots = {} /\ endpoints = {}
  /\ nextId = 1
  /\ eventMode = "Listener"
  /\ entitySnap = Counts({}, {}, {}, NoTopics)
  /\ result = [op |-> "none", status |-> "ok", qosThrew |-> FALSE, wrote |-> {}]

(***************************************************************************)
(* create_participant, create_publisher, create_subscriber.                *)
(***************************************************************************)

ParticipantRefused(d) ==
  /\ \/ d \in participants /\ Reply("create_participant", "logic")
     \/ d \notin participants /\ Reply("create_participant", "exception")
  /\ UNCHANGED <<entityVars, nextId, eventMode, entitySnap>>

ParticipantCreated(d) ==
  /\ d \notin participants
  /\ participants' = participants \cup {d}
  /\ entitySnap' = Counts(participants', groups, endpoints, topics)
  /\ Reply("create_participant", "ok")
  /\ UNCHANGED <<groups, topics, topicType, slots, endpoints, nextId, eventMode>>

CreateParticipant(d) == ParticipantRefused(d) \/ ParticipantCreated(d)

\* create_publisher_locked() and create_subscriber_locked() when they succeed.
AddGroup(g) ==
  /\ groups' = groups \cup {g}
  /\ entitySnap' = Counts(participants, groups', endpoints, topics)

GroupRefused(g) ==
  /\ IF g[2] \notin participants \/ g \in groups
       THEN Reply("create_group", "logic")
       ELSE Reply("create_group", "exception")
  /\ UNCHANGED <<entityVars, nextId, eventMode, entitySnap>>

GroupCreated(g) ==
  /\ g[2] \in participants /\ g \notin groups
  /\ AddGroup(g)
  /\ Reply("create_group", "ok")
  /\ UNCHANGED <<participants, topics, topicType, slots, endpoints, nextId, eventMode>>

CreateGroup(g) == GroupRefused(g) \/ GroupCreated(g)

(***************************************************************************)
(* create_writer and create_reader, by how far they get.                   *)
(***************************************************************************)

TypeConflict(slot, type) == topicType[TopicOf(slot)] \notin {NoType, type}

\* Mutant: the test for an existing entry is gone.
OccupiedNever(slot) == FALSE

Occupied(slot) == \E e \in endpoints : e.slot = slot

\* The tests made before anything is created.
Admissible(slot, type) ==
  /\ type \in Registered
  /\ ~TypeConflict(slot, type)
  /\ slot[2] \in participants

\* The publisher or subscriber is created on the way if there is none.
EnsureGroup(g) ==
  IF g \in groups THEN UNCHANGED <<groups, entitySnap>> ELSE AddGroup(g)

\* The topic holder is reused if the domain has one of that name.
HolderType(slot, type) ==
  IF topics[TopicOf(slot)] = NoType THEN type ELSE topics[TopicOf(slot)]
EnsureTopic(slot, type) ==
  topics' = [topics EXCEPT ![TopicOf(slot)] = HolderType(slot, type)]

EndpointRefused(slot, type) ==
  /\ ~Admissible(slot, type)
  /\ Reply("create_endpoint", "logic")
  /\ UNCHANGED <<entityVars, nextId, eventMode, entitySnap>>

EndpointGroupThrows(slot, type) ==
  /\ Admissible(slot, type)
  /\ GroupOf(slot) \notin groups
  /\ Reply("create_endpoint", "exception")
  /\ UNCHANGED <<entityVars, nextId, eventMode, entitySnap>>

EndpointDuplicate(slot, type) ==
  /\ Admissible(slot, type)
  /\ EnsureGroup(GroupOf(slot))
  /\ Occupied(slot)
  /\ Reply("create_endpoint", "logic")
  /\ UNCHANGED <<participants, topics, topicType, slots, endpoints, nextId, eventMode>>

\* From here on the vector exists, empty, whatever happens next.
Proceed(slot, type) ==
  /\ Admissible(slot, type)
  /\ EnsureGroup(GroupOf(slot))
  /\ ~Occupied(slot)
  /\ slots' = slots \cup {slot}
  /\ UNCHANGED <<participants, eventMode>>

EndpointTopicThrows(slot, type) ==
  /\ topics[TopicOf(slot)] = NoType
  /\ Proceed(slot, type)
  /\ Reply("create_endpoint", "exception")
  /\ UNCHANGED <<topics, topicType, endpoints, nextId>>

\* create_reader() has no handler around set_qos() of the topic.
ReaderTopicQosThrows(slot, type) ==
  /\ slot[1] = "reader"
  /\ Proceed(slot, type)
  /\ EnsureTopic(slot, type)
  /\ Answer("create_endpoint", "exception", TRUE, {})
  /\ UNCHANGED <<topicType, endpoints, nextId>>

\* The factory throws with the requested QoS and with the default one; it
\* always does when the holder is of another type.
EndpointFactoryThrows(slot, type) ==
  /\ Proceed(slot, type)
  /\ EnsureTopic(slot, type)
  /\ Reply("create_endpoint", "resource")
  /\ UNCHANGED <<topicType, endpoints, nextId>>

NewEndpoint(slot, type) ==
  [slot |-> slot, type |-> type, id |-> nextId, mode |-> eventMode]

\* The effects of a call that succeeds, with the counts it reports.
Enter(slot, type, snap) ==
  /\ nextId < MaxId
  /\ Admissible(slot, type) /\ ~Occupied(slot)
  /\ HolderType(slot, type) = type
  /\ groups' = groups \cup {GroupOf(slot)}
  /\ slots' = slots \cup {slot}
  /\ EnsureTopic(slot, type)
  /\ endpoints' = endpoints \cup {NewEndpoint(slot, type)}
  /\ nextId' = nextId + 1
  /\ topicType' = [topicType EXCEPT ![TopicOf(slot)] = type]
  /\ entitySnap' = snap
  /\ \E qosThrew \in BOOLEAN :
       /\ qosThrew => slot[1] = "writer"
       /\ Answer("create_endpoint", "ok", qosThrew, {})
  /\ UNCHANGED <<participants, eventMode>>

\* Mutant: the counts are taken before the vector grows.
EndpointCreatedUncounted(slot, type) ==
  Enter(slot, type, Counts(participants, groups', endpoints, topics'))

EndpointCreated(slot, type) ==
  Enter(slot, type, Counts(participants, groups', endpoints', topics'))

CreateEndpoint(slot, type) ==
  \/ EndpointRefused(slot, type)
  \/ EndpointGroupThrows(slot, type)
  \/ EndpointDuplicate(slot, type)
  \/ EndpointTopicThrows(slot, type)
  \/ ReaderTopicQosThrows(slot, type)
  \/ EndpointFactoryThrows(slot, type)
  \/ EndpointCreated(slot, type)

(***************************************************************************)
(* publish_json(topic, j): one conversion and one write per writer, over   *)
(* all domains and publishers.  The sample is built from topic_to_type_    *)
(* and cast, unchecked, to the type the writer was created with.           *)
(***************************************************************************)

Writers(t) == {e \in endpoints : e.slot[1] = "writer" /\ e.slot[4] = t}
Write(e) == [writer |-> e, as |-> topicType[TopicOf(e.slot)]]

\* The types j converts to; none, if j is not an object.
Convertible(t, types) == {e \in Writers(t) : topicType[TopicOf(e.slot)] \in types}

\* Every convertible writer is written, or one throws after some were.
Publish(t) ==
  /\ \E types \in SUBSET Registered, written \in SUBSET endpoints :
       LET targets == Convertible(t, types)
       IN /\ written \subseteq targets
          /\ \/ /\ written = targets
                /\ Answer("publish_json", IF targets = {} THEN "logic" ELSE "ok",
                          FALSE, {Write(e) : e \in written})
             \/ /\ written # targets
                /\ Answer("publish_json", "exception", FALSE, {Write(e) : e \in written})
  /\ UNCHANGED <<entityVars, nextId, eventMode, entitySnap>>

(***************************************************************************)
(* clear_entities and set_event_mode.                                      *)
(***************************************************************************)

\* Clear, keeping the endpoints E and the types T, with the next id n.
ClearTo(E, T, n) ==
  /\ participants' = {} /\ groups' = {} /\ slots' = {}
  /\ topics' = NoTopics
  /\ topicType' = T /\ endpoints' = E /\ nextId' = n
  /\ Reply("clear_entities", "ok")
  /\ UNCHANGED <<eventMode, entitySnap>>

\* Mutants: readers_ and writers_ are left; only readers_ is; the ids start at
\* 0 again.
ClearKeepsEndpoints == ClearTo(endpoints, NoTopics, nextId)
ClearKeepsReaders == ClearTo({e \in endpoints : e.slot[1] = "reader"}, NoTopics, nextId)
ClearRestartsIds == ClearTo({}, NoTopics, 0)

ClearEntities == ClearTo({}, NoTopics, nextId)

HasEntities == participants # {} \/ groups # {} \/ endpoints # {} \/ slots # {}

SetEventMode(mode) ==
  /\ IF HasEntities
       THEN Reply("set_event_mode", "exception") /\ UNCHANGED eventMode
       ELSE Reply("set_event_mode", "ok") /\ eventMode' = mode
  /\ UNCHANGED <<entityVars, nextId, entitySnap>>

Next ==
  \/ \E d \in Domain : CreateParticipant(d)
  \/ \E g \in GroupKey : CreateGroup(g)
  \/ \E slot \in Slot, type \in Type : CreateEndpoint(slot, type)
  \/ \E t \in Topic : Publish(t)
  \/ ClearEntities
  \/ \E mode \in Mode : SetEventMode(mode)

Spec == Init /\ [][Next]_vars

(***************************************************************************)
(* Properties                                                              *)
(***************************************************************************)

\* Every variable keeps its type; holder ids start at 1.
TypeOK ==
  /\ participants \subseteq Domain
  /\ groups \subseteq GroupKey
  /\ topics \in [Domain \X Topic -> Registered \cup {NoType}]
  /\ topicType \in [Domain \X Topic -> Registered \cup {NoType}]
  /\ slots \subseteq Slot
  /\ endpoints \subseteq Endpoint
  /\ nextId \in Nat \ {0}
  /\ eventMode \in Mode
  /\ DOMAIN entitySnap = DOMAIN Counts({}, {}, {}, NoTopics)
  /\ result.status \in {"ok", "logic", "resource", "exception"}
  /\ \A w \in result.wrote : w.writer \in Endpoint

\* No entity outlives the one it was created in, whatever calls failed in
\* between: a publisher or subscriber has its participant, an endpoint its
\* publisher or subscriber and a topic holder of its own type.
EntityTree ==
  /\ \A g \in groups : g[2] \in participants
  /\ \A slot \in slots : GroupOf(slot) \in groups
  /\ \A dt \in Domain \X Topic : topics[dt] # NoType => dt[1] \in participants
  /\ \A e \in endpoints : e.slot \in slots /\ topics[TopicOf(e.slot)] = e.type

\* create_writer and create_reader never put a second entry in one vector,
\* and an id names one endpoint, even across writers and readers.
EndpointsUnique ==
  \A e, f \in endpoints : e.slot = f.slot \/ e.id = f.id => e = f

\* topic_to_type_ is exactly the type of the endpoints there are: it blocks
\* another type on a topic if and only if some endpoint uses the topic.
TypesInUse ==
  /\ \A e \in endpoints : topicType[TopicOf(e.slot)] = e.type
  /\ \A dt \in Domain \X Topic :
       topicType[dt] # NoType => \E e \in endpoints : TopicOf(e.slot) = dt

\* write_any() casts the sample without a check: publish_json() must only
\* hand a writer samples of the type it was created with.
PublishIsTypeSafe == \A w \in result.wrote : w.as = w.writer.type

\* Endpoints are all served the way event_mode_ says: none is left with a
\* listener in WaitSet mode, or in the dispatcher in Listener mode.
EventModeUniform == \A e \in endpoints : e.mode = eventMode

\* All counts but that of the topics, which lags after a failed call too.
Counted == {"participants", "publishers", "subscribers", "writers", "readers"}

\* The counts given to the statistics may lag after a clear or a failed
\* call, but they never miss a participant, a publisher, a subscriber, a
\* writer or a reader that exists.
SnapshotNeverMisses ==
  LET now == Counts(participants, groups, endpoints, topics)
  IN \A k \in Counted : now[k] <= entitySnap[k]

\* A call that is refused as a Logic error created nothing on its way.
LogicErrorsChangeNothing ==
  [][result'.status = "logic" => UNCHANGED <<entityVars, nextId, entitySnap>>]_vars

\* The registry, seen from outside, is the bus of typed topics.
Bus == INSTANCE TopicBus WITH
  Place <- Slot, Type <- Registered, TopicOf <- TopicOf,
  live <- {<<e.slot, e.type>> : e \in endpoints}
ImplementsTopicBus == Bus!Spec

\* dds_manager_entities.cpp:382 says of create_reader: the QoS is applied
\* and, on failure, the default QoS is used instead.
TopicQosFallsBack ==
  [][result'.op = "create_endpoint" /\ result'.qosThrew
       => result'.status # "exception"]_vars
===============================================================================
