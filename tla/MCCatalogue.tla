---------------------------- MODULE MCCatalogue ----------------------------
(* An instance of the tenant's schema for TLC: runs whose top_k is 1, 2, 2. *)
EXTENDS CatalogueProps, TLC

CONSTANTS w1, w2, w3, e1, e2

MCGraph == [w \in {w1, w2, w3} |-> IF w = w1 THEN {e1} ELSE {e1, e2}]
=============================================================================
