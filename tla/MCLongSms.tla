------------------------------- MODULE MCLongSms -------------------------------
(* Texts for LongSms, at the limits of both codings: one part, two, as many as*)
(* MaxParts allows, and more.                                                 *)
EXTENDS LongSms, TLC

CONSTANTS i1, i2, r1, r2

Limits ==
  {[len |-> n, code |-> 0] : n \in {160, 161, 306, 307}}
  \cup {[len |-> n, code |-> 8] : n \in {140, 142, 402, 404}}

TwoParts == {[len |-> 161, code |-> 0]}

Symmetry == Permutations(Ids) \cup Permutations(Refs)
===============================================================================
