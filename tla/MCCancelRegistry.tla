------------------------- MODULE MCCancelRegistry -------------------------
(* Instances of CancelRegistry for TLC.                                     *)
EXTENDS CancelRegistry

CONSTANTS a1, a2, r1, i1, i2, u1, u2, c1, c2

\* One attempt and two cancels, on the attempt's instance or on another one.
RunOfAll == [a \in Attempts |-> r1]
InstOfAll == [a \in Attempts |-> i1]
UserOfAll == [r \in Runs |-> u1]
=============================================================================
