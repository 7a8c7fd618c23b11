----------------------------- MODULE MCRanging -----------------------------
(* A small instance of Ranging, with the nodes 1 and 2. *)
EXTENDS Ranging

MCBoth == [n \in Node |-> Node \ {n}]
MCTwoTexts == [n \in Node |-> IF n = 2 THEN {1} ELSE {}]
=============================================================================
