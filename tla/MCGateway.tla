------------------------------- MODULE MCGateway -------------------------------
(* Small instances of Gateway for TLC: three users of MX server mx1 compete   *)
(* for its two numbers; MX server mx2 has one number, and one user, who has   *)
(* the jid of one of the three.                                               *)
EXTENDS Gateway, TLC

CONSTANTS mx1, mx2, jidA, jidB, jidC, n1, n2, n3

OnMx1 == {[mx |-> mx1, jid |-> j] : j \in {jidA, jidB, jidC}}
OnMx2 == {[mx |-> mx2, jid |-> jidA]}
Everyone  == OnMx1 \cup OnMx2
TwoAndOne == [z \in Mxs |-> IF z = mx1 THEN {n1, n2} ELSE {n3}]
ErrorsOf  == [z \in Mxs |-> IF z = mx1 THEN 2 ELSE 1]
\* Sends, incoming SMS and lost sessions.
Mixed     == {<<3, 1, 0>>, <<2, 2, 0>>, <<1, 1, 1>>, <<0, 2, 1>>}
InOnly    == {<<0, 2, 0>>}
Symmetry  == Permutations({jidB, jidC}) \cup Permutations({n1, n2}) \cup Permutations(Links)
===============================================================================
