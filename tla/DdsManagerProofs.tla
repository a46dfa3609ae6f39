--------------------------- MODULE DdsManagerProofs ---------------------------
(***************************************************************************)
(* Proofs about the entity registry, for all sets of domains, names,       *)
(* topics and types.                                                       *)
(***************************************************************************)
EXTENDS DdsManager, FiniteSetTheorems, TLAPS

\* Ids are handed out in increasing order: the strengthening that makes
\* EndpointsUnique inductive.
IdsBelowNext == \A e \in endpoints : e.id < nextId

Inv ==
  /\ TypeOK
  /\ EntityTree
  /\ EndpointsUnique /\ IdsBelowNext
  /\ TypesInUse
  /\ EventModeUniform

\* The components of a slot have the types its product says.
LEMMA SlotParts ==
  ASSUME NEW slot \in Slot
  PROVE  /\ slot[1] \in Side /\ slot[2] \in Domain
         /\ slot[3] \in Group /\ slot[4] \in Topic
         /\ GroupOf(slot) \in GroupKey
         /\ GroupOf(slot)[2] = slot[2]
         /\ TopicOf(slot) \in Domain \X Topic
         /\ TopicOf(slot)[1] = slot[2]
BY DEF Slot, GroupKey, GroupOf, TopicOf

\* The empty registry satisfies the invariant.
LEMMA InitInv == Init => Inv
BY ConstantsAssumption, SMT
   DEF Init, Inv, TypeOK, EntityTree, EndpointsUnique, IdsBelowNext, TypesInUse,
       EventModeUniform, NoTopics, Mode, Counts

\* Every call preserves the invariant, also one that fails half-way.
LEMMA StepInv == Inv /\ [Next]_vars => Inv'
<1> SUFFICES ASSUME Inv, [Next]_vars PROVE Inv'
  OBVIOUS
<1> USE ConstantsAssumption
<1>1. ASSUME NEW d \in Domain, ParticipantRefused(d) PROVE Inv'
  BY <1>1 DEF ParticipantRefused, Reply, Answer, Inv, TypeOK, EntityTree,
     EndpointsUnique, IdsBelowNext, TypesInUse, EventModeUniform, entityVars
<1>2. ASSUME NEW d \in Domain, ParticipantCreated(d) PROVE Inv'
  BY <1>2 DEF ParticipantCreated, Reply, Answer, Inv, TypeOK, EntityTree, Counts,
     EndpointsUnique, IdsBelowNext, TypesInUse, EventModeUniform
<1>3. ASSUME NEW g \in GroupKey, GroupRefused(g) PROVE Inv'
  BY <1>3 DEF GroupRefused, Reply, Answer, Inv, TypeOK, EntityTree,
     EndpointsUnique, IdsBelowNext, TypesInUse, EventModeUniform, entityVars
<1>4. ASSUME NEW g \in GroupKey, GroupCreated(g) PROVE Inv'
  BY <1>4 DEF GroupCreated, AddGroup, Reply, Answer, Inv, TypeOK, EntityTree, Counts,
     EndpointsUnique, IdsBelowNext, TypesInUse, EventModeUniform
<1>5. CASE ClearEntities
  BY <1>5 DEF ClearEntities, ClearTo, NoTopics, Reply, Answer, Inv, TypeOK, EntityTree,
     EndpointsUnique, IdsBelowNext, TypesInUse, EventModeUniform
<1>6. ASSUME NEW mode \in Mode, SetEventMode(mode) PROVE Inv'
  BY <1>6 DEF SetEventMode, HasEntities, Reply, Answer, Inv, TypeOK, EntityTree,
     EndpointsUnique, IdsBelowNext, TypesInUse, EventModeUniform, entityVars
<1>7. ASSUME NEW t \in Topic, Publish(t) PROVE Inv'
  BY <1>7 DEF Publish, Convertible, Writers, Write, Answer, Inv, TypeOK, EntityTree,
     EndpointsUnique, IdsBelowNext, TypesInUse, EventModeUniform, entityVars
<1>8. CASE UNCHANGED vars
  BY <1>8 DEF vars, entityVars, Inv, TypeOK, EntityTree, EndpointsUnique,
     IdsBelowNext, TypesInUse, EventModeUniform
<1>9. ASSUME NEW slot \in Slot, NEW type \in Type, CreateEndpoint(slot, type)
      PROVE  Inv'
  <2>0. /\ slot[2] \in Domain /\ GroupOf(slot) \in GroupKey /\ TopicOf(slot) \in Domain \X Topic
        /\ GroupOf(slot)[2] = slot[2] /\ TopicOf(slot)[1] = slot[2]
    BY SlotParts
  <2>1. CASE EndpointRefused(slot, type)
    BY <2>1 DEF EndpointRefused, Reply, Answer, Inv, TypeOK, EntityTree,
       EndpointsUnique, IdsBelowNext, TypesInUse, EventModeUniform, entityVars
  <2>2. CASE EndpointGroupThrows(slot, type)
    BY <2>2 DEF EndpointGroupThrows, Reply, Answer, Inv, TypeOK, EntityTree,
       EndpointsUnique, IdsBelowNext, TypesInUse, EventModeUniform, entityVars
  <2>3. CASE EndpointDuplicate(slot, type)
    BY <2>0, <2>3 DEF EndpointDuplicate, Admissible, EnsureGroup, AddGroup, Counts, Reply,
       Answer, Inv, TypeOK, EntityTree, EndpointsUnique, IdsBelowNext, TypesInUse,
       EventModeUniform
  <2>4. CASE EndpointTopicThrows(slot, type)
    BY <2>0, <2>4 DEF EndpointTopicThrows, Proceed, Admissible, EnsureGroup, AddGroup, Counts,
       Reply, Answer, Inv, TypeOK, EntityTree, EndpointsUnique, IdsBelowNext, TypesInUse,
       EventModeUniform
  <2>a. ASSUME type \in Registered, EnsureTopic(slot, type)
        PROVE  /\ topics' \in [Domain \X Topic -> Registered \cup {NoType}]
               /\ \A dt \in Domain \X Topic : topics[dt] # NoType => topics'[dt] = topics[dt]
               /\ \A dt \in Domain \X Topic :
                    topics'[dt] # NoType => topics[dt] # NoType \/ dt = TopicOf(slot)
    BY <2>0, <2>a DEF EnsureTopic, HolderType, Inv, TypeOK
  <2>b. \A e \in endpoints : e.type \in Registered /\ TopicOf(e.slot) \in Domain \X Topic
    <3>1. TAKE e \in endpoints
    <3>2. e.slot \in Slot
      BY DEF Inv, TypeOK, Endpoint
    <3>3. TopicOf(e.slot) \in Domain \X Topic
      BY <3>2, SlotParts
    <3> QED
      BY <3>3 DEF Inv, TypeOK, TypesInUse, EntityTree, Endpoint
  <2>5. CASE ReaderTopicQosThrows(slot, type)
    <3>1. /\ type \in Registered /\ slot[2] \in participants /\ EnsureTopic(slot, type)
      BY <2>5 DEF ReaderTopicQosThrows, Proceed, Admissible
    <3>2. TypeOK'
      BY <2>0, <2>5, <2>a, <3>1 DEF ReaderTopicQosThrows, Proceed, EnsureGroup, AddGroup,
         Counts, Answer, Inv, TypeOK
    <3>3. EntityTree'
      BY <2>0, <2>5, <2>a, <2>b, <3>1 DEF ReaderTopicQosThrows, Proceed, EnsureGroup, AddGroup,
         Inv, EntityTree
    <3> QED
      BY <2>5, <3>2, <3>3 DEF ReaderTopicQosThrows, Proceed, Inv, EndpointsUnique,
         IdsBelowNext, TypesInUse, EventModeUniform
  <2>6. CASE EndpointFactoryThrows(slot, type)
    <3>1. /\ type \in Registered /\ slot[2] \in participants /\ EnsureTopic(slot, type)
      BY <2>6 DEF EndpointFactoryThrows, Proceed, Admissible
    <3>2. TypeOK'
      BY <2>0, <2>6, <2>a, <3>1 DEF EndpointFactoryThrows, Proceed, EnsureGroup, AddGroup,
         Counts, Reply, Answer, Inv, TypeOK
    <3>3. EntityTree'
      BY <2>0, <2>6, <2>a, <2>b, <3>1 DEF EndpointFactoryThrows, Proceed, EnsureGroup, AddGroup,
         Inv, EntityTree
    <3> QED
      BY <2>6, <3>2, <3>3 DEF EndpointFactoryThrows, Proceed, Inv, EndpointsUnique,
         IdsBelowNext, TypesInUse, EventModeUniform
  <2>7. CASE EndpointCreated(slot, type)
    <3> DEFINE new == NewEndpoint(slot, type)
    <3>1. /\ type \in Registered /\ slot[2] \in participants /\ EnsureTopic(slot, type)
          /\ HolderType(slot, type) = type
          /\ ~TypeConflict(slot, type) /\ ~Occupied(slot)
          /\ groups' = groups \cup {GroupOf(slot)}
          /\ slots' = slots \cup {slot}
          /\ endpoints' = endpoints \cup {new}
          /\ nextId' = nextId + 1 /\ nextId < MaxId
          /\ topicType' = [topicType EXCEPT ![TopicOf(slot)] = type]
          /\ entitySnap' = Counts(participants, groups', endpoints', topics')
          /\ result'.status = "ok" /\ result'.wrote = {}
          /\ UNCHANGED <<participants, eventMode>>
      BY <2>7 DEF EndpointCreated, Enter, Admissible, Answer
    <3>2. /\ new.slot = slot /\ new.type = type /\ new.id = nextId /\ new.mode = eventMode
          /\ new \in Endpoint
      BY <3>1 DEF NewEndpoint, Endpoint, Inv, TypeOK
    <3>3. topics'[TopicOf(slot)] = type
      BY <2>0, <3>1 DEF EnsureTopic, Inv, TypeOK
    <3> HIDE DEF new
    <3>4. TypeOK'
      BY <2>0, <2>a, <3>1, <3>2 DEF Counts, Inv, TypeOK
    <3>5. EntityTree'
      BY <2>0, <2>a, <2>b, <3>1, <3>2, <3>3 DEF Inv, EntityTree
    <3>6. EndpointsUnique' /\ IdsBelowNext'
      BY <3>1, <3>2 DEF Occupied, Inv, TypeOK, Endpoint, EndpointsUnique, IdsBelowNext
    <3>7. TypesInUse'
      <4>1. \A e \in endpoints : topicType'[TopicOf(e.slot)] = e.type
        BY <2>0, <2>b, <3>1 DEF TypeConflict, Inv, TypeOK, TypesInUse
      <4>2. topicType'[TopicOf(slot)] = type
        BY <2>0, <3>1 DEF Inv, TypeOK
      <4>3. ASSUME NEW dt \in Domain \X Topic, topicType'[dt] # NoType
            PROVE  \E e \in endpoints' : TopicOf(e.slot) = dt
        BY <2>0, <3>1, <3>2, <4>3 DEF Inv, TypeOK, TypesInUse
      <4> QED
        BY <3>1, <3>2, <4>1, <4>2, <4>3 DEF TypesInUse
    <3>8. EventModeUniform'
      BY <3>1, <3>2 DEF Inv, EventModeUniform
    <3> QED
      BY <3>4, <3>5, <3>6, <3>7, <3>8 DEF Inv
  <2> QED
    BY <1>9, <2>1, <2>2, <2>3, <2>4, <2>5, <2>6, <2>7 DEF CreateEndpoint
<1> QED
  BY <1>1, <1>2, <1>3, <1>4, <1>5, <1>6, <1>7, <1>8, <1>9
     DEF Next, CreateParticipant, CreateGroup

\* The inductive invariant holds in every reachable state.
THEOREM Invariance == Spec => []Inv
BY InitInv, StepInv, PTL DEF Spec

\* TypeOK holds for all sets of domains, names, topics and types.
THEOREM RegistryTypeCorrect == Spec => []TypeOK
BY Invariance, PTL DEF Inv

\* EntityTree: no sequence of calls, failed ones included, leaves an entity
\* without the one it was created in, or on a topic of another type.
THEOREM TreeIsSound == Spec => []EntityTree
BY Invariance, PTL DEF Inv

\* EndpointsUnique: one endpoint in each vector, one endpoint for each id.
THEOREM EndpointsAreUnique == Spec => []EndpointsUnique
BY Invariance, PTL DEF Inv

\* TypesInUse: topic_to_type_ says what the endpoints there are say.
THEOREM TypeMapIsExact == Spec => []TypesInUse
BY Invariance, PTL DEF Inv

\* EventModeUniform: endpoints are all served the way event_mode_ says.
THEOREM OneEventMode == Spec => []EventModeUniform
BY Invariance, PTL DEF Inv

\* PublishIsTypeSafe: the unchecked cast in write_any() always meets a
\* sample of the writer's type.  A publish reads what TypesInUse relates.
THEOREM PublishIsSafe == Spec => []PublishIsTypeSafe
<1>1. Init => PublishIsTypeSafe
  BY DEF Init, PublishIsTypeSafe
<1>2. PublishIsTypeSafe /\ Inv /\ [Next]_vars => PublishIsTypeSafe'
  <2> SUFFICES ASSUME PublishIsTypeSafe, Inv, [Next]_vars PROVE PublishIsTypeSafe'
    OBVIOUS
  <2>1. ASSUME NEW t \in Topic, Publish(t) PROVE PublishIsTypeSafe'
    BY <2>1 DEF Publish, Convertible, Writers, Write, Answer, Inv, TypesInUse,
       PublishIsTypeSafe
  <2>2. CASE UNCHANGED vars
    BY <2>2 DEF vars, PublishIsTypeSafe
  <2>3. CASE Next /\ ~\E t \in Topic : Publish(t)
    <3>1. result'.wrote = {}
      BY <2>3 DEF Next, CreateParticipant, ParticipantRefused, ParticipantCreated,
         CreateGroup, GroupRefused, GroupCreated, CreateEndpoint, EndpointRefused,
         EndpointGroupThrows, EndpointDuplicate, EndpointTopicThrows,
         ReaderTopicQosThrows, EndpointFactoryThrows, EndpointCreated, Enter,
         ClearEntities, ClearTo, SetEventMode, Reply, Answer
    <3> QED
      BY <3>1 DEF PublishIsTypeSafe
  <2> QED
    BY <2>1, <2>2, <2>3
<1> QED
  BY <1>1, <1>2, Invariance, PTL DEF Spec

\* LogicErrorsChangeNothing: a refused call had created nothing.  Creating
\* the publisher comes before the test for a duplicate, but there is no
\* duplicate without its publisher.
THEOREM LogicErrorsAreClean == Spec => LogicErrorsChangeNothing
<1>1. Inv /\ [Next]_vars
        => [result'.status = "logic" => UNCHANGED <<entityVars, nextId, entitySnap>>]_vars
  <2> SUFFICES ASSUME Inv, Next, result'.status = "logic"
               PROVE  UNCHANGED <<entityVars, nextId, entitySnap>>
    BY DEF vars
  <2>1. ASSUME NEW slot \in Slot, NEW type \in Type, EndpointDuplicate(slot, type)
        PROVE  UNCHANGED <<entityVars, nextId, entitySnap>>
    BY <2>1 DEF EndpointDuplicate, EnsureGroup, Occupied, Inv, EntityTree, entityVars
  <2>2. ASSUME NEW slot \in Slot, NEW type \in Type, CreateEndpoint(slot, type)
        PROVE  UNCHANGED <<entityVars, nextId, entitySnap>>
    BY <2>1, <2>2 DEF CreateEndpoint, EndpointRefused, EndpointGroupThrows,
       EndpointTopicThrows, ReaderTopicQosThrows, EndpointFactoryThrows,
       EndpointCreated, Enter, Reply, Answer
  <2> QED
    BY <2>2 DEF Next, CreateParticipant, ParticipantRefused, ParticipantCreated,
       CreateGroup, GroupRefused, GroupCreated, Publish, ClearEntities, ClearTo,
       SetEventMode, Reply, Answer
<1> QED
  BY <1>1, Invariance, PTL DEF Spec, LogicErrorsChangeNothing

\* The sets whose sizes are reported are finite, and the sizes last reported
\* bound those of now: SnapshotNeverMisses, made inductive.
CountsInv ==
  /\ IsFiniteSet(participants) /\ IsFiniteSet(groups) /\ IsFiniteSet(endpoints)
  /\ \A k \in Counted :
       /\ entitySnap[k] \in Nat
       /\ Counts(participants, groups, endpoints, topics)[k] <= entitySnap[k]

\* The sizes of finite sets are numbers, and the topics play no part in them.
LEMMA CountsOfFinite ==
  ASSUME NEW P, NEW G, NEW E, NEW T, NEW T2,
         IsFiniteSet(P), IsFiniteSet(G), IsFiniteSet(E)
  PROVE  \A k \in Counted :
           /\ Counts(P, G, E, T)[k] \in Nat
           /\ Counts(P, G, E, T)[k] = Counts(P, G, E, T2)[k]
<1>1. /\ IsFiniteSet({g \in G : g[1] = "writer"}) /\ IsFiniteSet({g \in G : g[1] = "reader"})
      /\ IsFiniteSet({e \in E : e.slot[1] = "writer"})
      /\ IsFiniteSet({e \in E : e.slot[1] = "reader"})
  BY FS_Subset
<1>2. /\ Cardinality(P) \in Nat
      /\ Cardinality({g \in G : g[1] = "writer"}) \in Nat
      /\ Cardinality({g \in G : g[1] = "reader"}) \in Nat
      /\ Cardinality({e \in E : e.slot[1] = "writer"}) \in Nat
      /\ Cardinality({e \in E : e.slot[1] = "reader"}) \in Nat
  BY <1>1, FS_CardinalityType
<1> QED
  BY <1>2 DEF Counts, Counted

\* All sizes of empty sets are 0.
LEMMA CountsOfEmpty ==
  ASSUME NEW T PROVE \A k \in Counted : Counts({}, {}, {}, T)[k] = 0
<1>1. Cardinality({}) = 0
  BY FS_EmptySet
<1>2. /\ {g \in {} : g[1] = "writer"} = {} /\ {g \in {} : g[1] = "reader"} = {}
      /\ {e \in {} : e.slot[1] = "writer"} = {} /\ {e \in {} : e.slot[1] = "reader"} = {}
  OBVIOUS
<1> QED
  BY <1>1, <1>2 DEF Counts, Counted

\* A call that reports its counts, or changes none of the sets, keeps it.
LEMMA ReportedCounts ==
  ASSUME CountsInv, NEW T,
         IsFiniteSet(participants'), IsFiniteSet(groups'), IsFiniteSet(endpoints'),
         \/ entitySnap' = Counts(participants', groups', endpoints', T)
         \/ UNCHANGED <<participants, groups, endpoints, entitySnap>>
  PROVE  CountsInv'
<1>1. CASE entitySnap' = Counts(participants', groups', endpoints', T)
  <2>1. \A k \in Counted :
          /\ entitySnap'[k] \in Nat
          /\ entitySnap'[k] = Counts(participants', groups', endpoints', topics')[k]
    BY <1>1, CountsOfFinite
  <2> QED
    BY <2>1 DEF CountsInv
<1>2. CASE UNCHANGED <<participants, groups, endpoints, entitySnap>>
  <2>1. \A k \in Counted :
          Counts(participants', groups', endpoints', topics')[k]
            = Counts(participants, groups, endpoints, topics)[k]
    BY <1>2, CountsOfFinite DEF CountsInv
  <2> QED
    BY <1>2, <2>1 DEF CountsInv
<1> QED
  BY <1>1, <1>2

\* SnapshotNeverMisses: the counts last reported never miss an entity that
\* exists, failed calls and clears included.
THEOREM SnapshotBoundsCounts == Spec => []SnapshotNeverMisses
<1>1. Init => CountsInv
  <2> SUFFICES ASSUME Init PROVE CountsInv
    OBVIOUS
  <2>1. /\ participants = {} /\ groups = {} /\ endpoints = {} /\ IsFiniteSet({})
        /\ entitySnap = Counts({}, {}, {}, NoTopics)
    BY FS_EmptySet DEF Init
  <2>2. \A k \in Counted :
          entitySnap[k] = 0 /\ Counts(participants, groups, endpoints, topics)[k] = 0
    BY <2>1, CountsOfEmpty
  <2> QED
    BY <2>1, <2>2 DEF CountsInv
<1>2. CountsInv /\ [Next]_vars => CountsInv'
  <2> SUFFICES ASSUME CountsInv, [Next]_vars PROVE CountsInv'
    OBVIOUS
  <2>0. IsFiniteSet(participants) /\ IsFiniteSet(groups) /\ IsFiniteSet(endpoints)
    BY DEF CountsInv
  <2>1. ASSUME UNCHANGED <<participants, groups, endpoints, entitySnap>> PROVE CountsInv'
    BY <2>0, <2>1, ReportedCounts
  <2>2. ASSUME NEW d \in Domain, ParticipantCreated(d) PROVE CountsInv'
    <3>1. IsFiniteSet(participants')
      BY <2>0, <2>2, FS_AddElement DEF ParticipantCreated
    <3> QED
      BY <2>0, <2>2, <3>1, ReportedCounts DEF ParticipantCreated
  <2>3. ASSUME NEW g, AddGroup(g), UNCHANGED <<participants, endpoints>>
        PROVE  CountsInv'
    <3>1. IsFiniteSet(groups')
      BY <2>0, <2>3, FS_AddElement DEF AddGroup
    <3>2. entitySnap' = Counts(participants', groups', endpoints', topics)
      BY <2>3 DEF AddGroup
    <3> QED
      BY <2>0, <2>3, <3>1, <3>2, ReportedCounts
  <2>4. ASSUME NEW g, EnsureGroup(g), UNCHANGED <<participants, endpoints>>
        PROVE  CountsInv'
    BY <2>1, <2>3, <2>4 DEF EnsureGroup
  <2>5. ASSUME NEW slot \in Slot, NEW type \in Type, EndpointCreated(slot, type)
        PROVE  CountsInv'
    <3>1. /\ groups' = groups \cup {GroupOf(slot)}
          /\ endpoints' = endpoints \cup {NewEndpoint(slot, type)}
          /\ participants' = participants
          /\ entitySnap' = Counts(participants', groups', endpoints', topics')
      BY <2>5 DEF EndpointCreated, Enter
    <3>2. IsFiniteSet(groups') /\ IsFiniteSet(endpoints')
      BY <2>0, <3>1, FS_AddElement
    <3> QED
      BY <2>0, <3>1, <3>2, ReportedCounts
  <2>6. ASSUME NEW slot \in Slot, NEW type \in Type, CreateEndpoint(slot, type)
        PROVE  CountsInv'
    BY <2>1, <2>4, <2>5, <2>6 DEF CreateEndpoint, EndpointRefused, EndpointGroupThrows,
       EndpointDuplicate, EndpointTopicThrows, ReaderTopicQosThrows,
       EndpointFactoryThrows, Proceed, entityVars
  <2>7. CASE ClearEntities
    <3>1. /\ participants' = {} /\ groups' = {} /\ endpoints' = {}
          /\ entitySnap' = entitySnap /\ IsFiniteSet({})
      BY <2>7, FS_EmptySet DEF ClearEntities, ClearTo
    <3>2. \A k \in Counted : Counts(participants', groups', endpoints', topics')[k] = 0
      BY <3>1, CountsOfEmpty
    <3> QED
      BY <3>1, <3>2 DEF CountsInv
  <2> QED
    BY <2>1, <2>2, <2>3, <2>6, <2>7 DEF Next, CreateParticipant, ParticipantRefused,
       CreateGroup, GroupRefused, GroupCreated, Publish, SetEventMode, entityVars, vars
<1>3. CountsInv => SnapshotNeverMisses
  BY DEF CountsInv, SnapshotNeverMisses
<1> QED
  BY <1>1, <1>2, <1>3, PTL DEF Spec

\* The registry implements the bus of typed topics.
THEOREM RegistryImplementsBus == Spec => ImplementsTopicBus
<1>1. Init => Bus!Init
  BY DEF Init, Bus!Init
<1>2. Inv /\ [Next]_vars => [Bus!Next]_(Bus!vars)
  <2> DEFINE Live == {<<e.slot, e.type>> : e \in endpoints}
  <2> SUFFICES ASSUME Inv, [Next]_vars PROVE [Bus!Next]_(Bus!vars)
    OBVIOUS
  <2>1. ASSUME NEW slot \in Slot, NEW type \in Type, EndpointCreated(slot, type)
        PROVE  Bus!Next
    <3>1. /\ type \in Registered /\ ~TypeConflict(slot, type) /\ ~Occupied(slot)
          /\ endpoints' = endpoints \cup {NewEndpoint(slot, type)}
      BY <2>1 DEF EndpointCreated, Enter, Admissible
    <3>2. \A e \in Live : e[1] # slot
      BY <3>1 DEF Occupied
    <3>3. \A e \in Live : TopicOf(e[1]) = TopicOf(slot) => e[2] = type
      <4>1. \A e \in endpoints : TopicOf(e.slot) = TopicOf(slot) => e.type = type
        <5>1. \A e \in endpoints : e.type # NoType
          BY ConstantsAssumption DEF Inv, TypeOK, Endpoint
        <5> QED
          BY <3>1, <5>1 DEF TypeConflict, Inv, TypesInUse
      <4> QED
        BY <4>1
    <3>4. Live' = Live \cup {<<slot, type>>}
      <4> DEFINE new == NewEndpoint(slot, type)
      <4>1. new.slot = slot /\ new.type = type
        BY DEF NewEndpoint
      <4> HIDE DEF new
      <4>2. {<<e.slot, e.type>> : e \in endpoints \cup {new}}
              = {<<e.slot, e.type>> : e \in endpoints} \cup {<<new.slot, new.type>>}
        BY Zenon
      <4> QED
        BY <3>1, <4>1, <4>2 DEF new
    <3>5. Bus!Add(slot, type)
      BY <3>2, <3>3, <3>4 DEF Bus!Add
    <3> QED
      BY <3>1, <3>5 DEF Bus!Next
  <2>2. CASE ClearEntities
    <3>1. Bus!RemoveAll
      BY <2>2 DEF ClearEntities, ClearTo, Bus!RemoveAll
    <3> QED
      BY <3>1 DEF Bus!Next
  <2>3. CASE UNCHANGED vars
    BY <2>3 DEF vars, entityVars, Bus!vars
  <2>4. CASE UNCHANGED endpoints
    BY <2>4 DEF Bus!vars
  <2>5. ASSUME NEW slot \in Slot, NEW type \in Type, CreateEndpoint(slot, type),
               ~EndpointCreated(slot, type)
        PROVE  UNCHANGED endpoints
    BY <2>5 DEF CreateEndpoint, EndpointRefused, EndpointGroupThrows, EndpointDuplicate,
       EndpointTopicThrows, ReaderTopicQosThrows, EndpointFactoryThrows, entityVars
  <2>6. ASSUME Next, ~ClearEntities,
               ~\E slot \in Slot, type \in Type : CreateEndpoint(slot, type)
        PROVE  UNCHANGED endpoints
    BY <2>6 DEF Next, CreateParticipant, ParticipantRefused, ParticipantCreated,
       CreateGroup, GroupRefused, GroupCreated, Publish, SetEventMode, entityVars
  <2> QED
    BY <2>1, <2>2, <2>3, <2>4, <2>5, <2>6
<1> QED
  BY <1>1, <1>2, Invariance, PTL DEF Spec, ImplementsTopicBus, Bus!Spec
===============================================================================
