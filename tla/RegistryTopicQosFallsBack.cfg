SPECIFICATION Spec
CONSTANTS
  Domain = {d1, d2}
  Group = {g1}
  Topic = {t1}
  Type = {A, B, unknown}
  Registered = {A, B}
  NoType = NoType
  MaxId = 4
PROPERTIES
  TopicQosFallsBack
