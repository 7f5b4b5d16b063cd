---------------------------- MODULE CommandStream ----------------------------
(***************************************************************************)
(* What the threads of the channels promise the motors, whatever the       *)
(* buses, the queues and the order of the calls (motor_thread.cpp): until  *)
(* the stream to a motor is over it is commanded stored actions, none      *)
(* older than the one before; a motor is stopped only when its stream is   *)
(* over; and a stream that is over is never taken up again, not even when  *)
(* start() enables the motor once more.                                    *)
(***************************************************************************)
EXTENDS Naturals

CONSTANT Motors

VARIABLES
  newest,       \* number of the newest stored action; 0: none
  seen,         \* per motor, the number of the action it executes
  power,        \* per motor, "run" or "reset"
  over          \* per motor: no command is on its way, and none will be

streamVars == <<newest, seen, power, over>>

Init ==
  /\ newest = 0
  /\ seen = [m \in Motors |-> 0]
  /\ power = [m \in Motors |-> "reset"]
  /\ over = [m \in Motors |-> FALSE]

\* Streams end, none begins again.
Ends == over' \in [Motors -> BOOLEAN] /\ \A m \in Motors : over[m] => over'[m]

Store ==
  /\ newest' = newest + 1
  /\ UNCHANGED <<seen, power, over>>

Enable(m) ==
  /\ power' = [power EXCEPT ![m] = "run"]
  /\ UNCHANGED <<newest, seen, over>>

\* It may be the last command of its channel.
Command(m) ==
  /\ ~over[m]
  /\ power[m] = "run"
  /\ \E a \in seen[m] .. newest : seen' = [seen EXCEPT ![m] = a]
  /\ Ends
  /\ UNCHANGED <<newest, power>>

Reset(m) ==
  /\ over[m]
  /\ power' = [power EXCEPT ![m] = "reset"]
  /\ UNCHANGED <<newest, seen, over>>

End ==
  /\ Ends
  /\ UNCHANGED <<newest, seen, power>>

Next ==
  \/ Store
  \/ \E m \in Motors : Enable(m) \/ Command(m) \/ Reset(m)
  \/ End

Spec == Init /\ [][Next]_streamVars
=============================================================================
