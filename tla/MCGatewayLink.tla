---------------------------- MODULE MCGatewayLink ----------------------------
(***************************************************************************)
(* Two UIs on two hosts, two datagrams, one sample, a queue of two, two    *)
(* sessions: the third job can be refused, a request can be left behind by *)
(* a stop and run in the next session, last_peer_ can change between a     *)
(* request and its reply, and a reply can meet a link nobody has used yet. *)
(***************************************************************************)
EXTENDS GatewayLink

TwoPeers == {<<"host1", "port1">>, <<"host2", "port2">>}
===============================================================================
