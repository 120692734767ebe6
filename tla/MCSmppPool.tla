------------------------------ MODULE MCSmppPool ------------------------------
(* Small instances of SmppPool for TLC.                                      *)
EXTENDS SmppPool

CONSTANTS m1, m2
PartsTwoOne == [m \in Msgs |-> IF m = m1 THEN 2 ELSE 1]
===============================================================================
