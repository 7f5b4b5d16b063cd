--------------------------- MODULE MCMotorThread ---------------------------
(* Instances of MotorThread for TLC.                                        *)
EXTENDS MotorThread, TLC

CONSTANTS m1, m2

OneMotor == 0 :> <<m1>>

TwoMotors == 0 :> <<m1, m2>>

\* 0 is one of the ids of MOTOR_MAP.
OwnIds == [m \in Motors |-> IF m = m1 THEN 0 ELSE 1]
=============================================================================
