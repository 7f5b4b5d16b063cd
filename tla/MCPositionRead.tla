--------------------------- MODULE MCPositionRead ---------------------------
(* Instances of PositionRead, with its history, for TLC.                    *)
EXTENDS PositionHistory, TLC

CONSTANTS m1, m2, p1, p2

OneMotor == <<m1>>

TwoMotors == <<m1, m2>>

OneChannel == [m \in Motors |-> 0]
=============================================================================
