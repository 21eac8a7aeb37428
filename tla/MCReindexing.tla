---------------------------- MODULE MCReindexing ----------------------------
(* Small catalogues of a camping shop: 1 hat, 2 tent, 3 tents, 4 that, which *)
(* is a stop word but contains hat, 5 waterproof; tents contains tent.       *)
EXTENDS Reindexing

MCWithin == <<{1}, {2}, {2, 3}, {1, 4}, {5}>>
MCTexts == {<<4>>, <<1, 5>>, <<2, 5, 2>>, <<3, 5>>, <<3, 4, 1>>, <<1, 2, 5>>}

\* log(n/d), five to the unit, rounded and kept strictly decreasing.
MCIdf == <<<<0>>, <<3, 0>>, <<5, 2, 0>>, <<7, 3, 1, 0>>>>
=============================================================================
