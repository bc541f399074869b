---------------------------- MODULE MCMessageBus ----------------------------
(* Small buses: one HTTP handler, nodes that run and one to be created.      *)
EXTENDS MessageBus

CONSTANTS c1, n1, n2, n3

OneClient == {c1}
NoNode == {}
OneNode == {n1}
TwoNodes == {n1, n2}
ThreeNodes == {n1, n2, n3}
=============================================================================
