---------------------------- MODULE PositionHistory ----------------------------
(***************************************************************************)
(* PositionRead with a history variable: where the motor that is switched  *)
(* on has been since the operator pressed Space.                           *)
(***************************************************************************)
EXTENDS PositionRead

VARIABLE been  \* positions of the motor since Space; any, if a frame or an
               \* answer of it was on its way then

hvars == <<vars, been>>

\* A frame to motor m waits in the driver, or an answer of it.
OnItsWay(m) ==
  \/ \E k \in DOMAIN tx[Chan[m]] : tx[Chan[m]][k].motor = m
  \/ \E k \in DOMAIN rx[Chan[m]] : rx[Chan[m]][k].motor = m

HInit == Init /\ been = {}

\* Only the time between Space and the answer matters.
Remember ==
  been' = IF ~(asking' = "on" /\ at' \in {"ask", "wait"}) THEN {}
          ELSE IF at = "key"
          THEN IF OnItsWay(Chosen') THEN Positions ELSE {pos[Chosen']}
          ELSE been \cup {pos'[Chosen]}

HNext == Next /\ Remember

HSpec ==
  /\ HInit /\ [][HNext]_hvars
  /\ WF_hvars(ProgramStep /\ Remember)
  /\ \A c \in Channels : WF_hvars(Deliver(c) /\ Remember)

-----------------------------------------------------------------------------
(***************************************************************************)
(* "Pressing Space first reads the selected motor's current position. ON   *)
(* is refused if ... the value is outside the RS02 MIT position range"     *)
(* (position_read.md lines 17-19): the motor is held, and goes on to be    *)
(* enabled, only at a position within the range where it has been since    *)
(* Space, whatever answers of other motors come in, unless a frame or an   *)
(* answer of its own was on its way when Space was pressed.                *)
(***************************************************************************)
HoldsRead ==
  [][(at = "wait" /\ at' = "stop") =>
       hold'[Chosen] \in been \cap MitRange]_hvars
=============================================================================
