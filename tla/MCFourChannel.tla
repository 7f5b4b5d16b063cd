--------------------------- MODULE MCFourChannel ---------------------------
(* Instances of FourChannel for TLC.                                        *)
EXTENDS FourChannel, TLC

CONSTANTS m1, m2

\* MOTOR_MAP: two channels with a motor of the same id on each.
TwoChannels == (0 :> <<m1>>) @@ (1 :> <<m2>>)

SameIds == [m \in Motors |-> 4]
=============================================================================
