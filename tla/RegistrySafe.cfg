SPECIFICATION Spec
CONSTANTS
  Domain = {d1}
  Group = {g1, g2}
  Topic = {t1}
  Type = {A, B, unknown}
  Registered = {A, B}
  NoType = NoType
  MaxId = 5
INVARIANTS
  TypeOK
  EntityTree
  EndpointsUnique
  PublishIsTypeSafe
  
PROPERTIES
  LogicErrorsChangeNothing
  ImplementsTopicBus
