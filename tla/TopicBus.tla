------------------------------- MODULE TopicBus -------------------------------
(***************************************************************************)
(* What the entity registry promises its clients: a set of live endpoints, *)
(* at most one in each place, where all endpoints of one topic of one      *)
(* domain carry the same type; they disappear together.                    *)
(***************************************************************************)
CONSTANTS
  Place,      \* where an endpoint can be: side, domain, publisher/subscriber, topic
  Type,       \* names of data types
  TopicOf(_)  \* the domain and topic of a place

VARIABLE live   \* the live endpoints, as pairs of a place and a type
vars == <<live>>

Init == live = {}

Add(place, type) ==
  /\ \A e \in live : e[1] # place
  /\ \A e \in live : TopicOf(e[1]) = TopicOf(place) => e[2] = type
  /\ live' = live \cup {<<place, type>>}

RemoveAll == live' = {}

Next == RemoveAll \/ \E place \in Place, type \in Type : Add(place, type)

Spec == Init /\ [][Next]_vars
===============================================================================
