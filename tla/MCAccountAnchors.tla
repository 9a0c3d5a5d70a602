--------------------------- MODULE MCAccountAnchors ---------------------------
(* AccountAnchors on a few equities that cross every stop. *)
EXTENDS AccountAnchors

MCPeriodLimit == [daily |-> 80, weekly |-> 150]
=============================================================================
