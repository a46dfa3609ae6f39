----------------------------- MODULE MCDdsManager -----------------------------
(***************************************************************************)
(* Two publishers or subscribers in one domain, or one in each of two, one *)
(* topic, two registered types and one that is not: two endpoints of each  *)
(* side can meet on the topic.                                             *)
(***************************************************************************)
EXTENDS DdsManager
===============================================================================
