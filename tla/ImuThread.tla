------------------------------ MODULE ImuThread ------------------------------
(***************************************************************************)
(* ImuDriver and ImuThread (src/imu_driver.cpp) under main() of            *)
(* apps/test_imu.cpp: the configuration dialogue with the CV7-AHRS, the RT *)
(* thread that polls it, and the end of the program.                       *)
(*                                                                         *)
(* Of the sensor's data the model keeps what the driver looks at: whether  *)
(* the filter is in AHRS mode or above, and the valid flags.               *)
(***************************************************************************)
EXTENDS Integers, Sequences

CONSTANTS
  WaitPolls,    \* polls that fit into the 30 seconds of the wait loop
  MaxFaults     \* bound: commands refused or unanswered, and other faults

ASSUME ImuAssumption == WaitPolls \in Nat /\ MaxFaults \in Nat

VARIABLES
  shutdown,     \* SharedState::shutdown
  slot,         \* SharedState::imu: "data", or the "identity" of ImuState
  mpc,          \* where main() is, or start() or stop() that it calls
  step,         \* command of configure() that is next
  connected,    \* connected_
  tpc,          \* where the RT thread is
  waited,       \* polls of the wait loop so far
  ahrs,         \* filter_mode_ >= AHRS
  dev,          \* sensor: what it was commanded
  filter,       \* sensor: its filter is in AHRS mode or above
  link,         \* the serial port works
  packet,       \* the last one for the extractors: update() parses up to it
  faults

driverVars == <<step, connected, ahrs>>
threadVars == <<tpc, waited>>
sensorVars == <<dev, filter, link, packet>>
vars == <<shutdown, slot, mpc, driverVars, threadVars, sensorVars, faults>>

Packets == [ahrs : BOOLEAN, valid : BOOLEAN]

NoPacket == [ahrs |-> FALSE, valid |-> FALSE]

\* Faulty: the filter is reset before the magnetometer is turned on.
StepsResetEarly ==
  <<"ping", "setIdle", "defaultDeviceSettings", "getBaseRate",
    "writeMessageFormat", "reset", "writeAidingMeasurementEnable", "resume">>

\* The commands of configure() in order.
Steps == <<"ping", "setIdle", "defaultDeviceSettings", "getBaseRate",
           "writeMessageFormat", "writeAidingMeasurementEnable", "reset", "resume">>

\* What the sensor does on a command.
Commanded(cmd) ==
  CASE cmd = "setIdle" -> [dev EXCEPT !.stream = FALSE]
    [] cmd = "defaultDeviceSettings" ->
         [dev EXCEPT !.format = FALSE, !.aided = FALSE, !.fresh = FALSE]
    [] cmd = "writeMessageFormat" -> [dev EXCEPT !.format = TRUE]
    [] cmd = "writeAidingMeasurementEnable" ->
         [dev EXCEPT !.aided = TRUE, !.fresh = FALSE]
    [] cmd = "reset" -> [dev EXCEPT !.fresh = TRUE]
    [] cmd = "resume" -> [dev EXCEPT !.stream = TRUE]
    [] OTHER -> dev

Fault == faults < MaxFaults /\ faults' = faults + 1

-----------------------------------------------------------------------------
\* The sensor may be found in any state an earlier program left it in.
Init ==
  /\ shutdown = FALSE
  /\ slot = "identity"
  /\ mpc = "connect"
  /\ step = 1
  /\ connected = FALSE
  /\ tpc = "none"
  /\ waited = 0
  /\ ahrs = FALSE
  /\ dev \in [stream : BOOLEAN, format : BOOLEAN, aided : BOOLEAN, fresh : BOOLEAN]
  /\ filter = FALSE
  /\ link = TRUE
  /\ packet = NoPacket
  /\ faults = 0

(***************************************************************************)
(* configure(): open the port, then the commands.  A command that is not   *)
(* acknowledged makes configure(), start() and main() return at once; the  *)
(* destructors then find connected_ false and send nothing.                *)
(***************************************************************************)
Connect ==
  /\ mpc = "connect"
  /\ \/ link /\ mpc' = "configure"
     \/ ~link /\ mpc' = "exit"
  /\ UNCHANGED <<shutdown, slot, driverVars, threadVars, sensorVars, faults>>

\* Packets that come before the extractors are registered are dropped.
CommandAcked ==
  /\ mpc = "configure"
  /\ link
  /\ dev' = Commanded(Steps[step])
  /\ packet' = NoPacket
  /\ IF step < Len(Steps)
     THEN step' = step + 1 /\ UNCHANGED <<mpc, connected>>
     ELSE connected' = TRUE /\ mpc' = "create" /\ UNCHANGED step
  /\ UNCHANGED <<shutdown, slot, ahrs, threadVars, filter, link, faults>>

\* Refused, unanswered though executed, or a base rate below 250 Hz.
CommandFails ==
  /\ mpc = "configure"
  /\ \/ Fault /\ dev' \in {dev, Commanded(Steps[step])}
     \/ ~link /\ UNCHANGED <<dev, faults>>
  /\ mpc' = "exit"
  /\ UNCHANGED <<shutdown, slot, driverVars, threadVars, filter, link, packet>>

CreateThread ==
  /\ mpc = "create"
  /\ tpc' = "wait"
  /\ mpc' = "monitor"
  /\ UNCHANGED <<shutdown, slot, driverVars, waited, sensorVars, faults>>

\* start() and main() return; ~ImuDriver() disconnects.
CreateFails ==
  /\ mpc = "create"
  /\ Fault
  /\ mpc' = "disconnect"
  /\ UNCHANGED <<shutdown, slot, driverVars, threadVars, sensorVars>>

\* The test's duration is over or shutdown is set; then stop().
MonitorEnds ==
  /\ mpc = "monitor"
  /\ shutdown' = TRUE
  /\ mpc' = "join"
  /\ UNCHANGED <<slot, driverVars, threadVars, sensorVars, faults>>

Join ==
  /\ mpc = "join"
  /\ tpc = "exited"
  /\ tpc' = "none"
  /\ mpc' = "disconnect"
  /\ UNCHANGED <<shutdown, slot, driverVars, waited, sensorVars, faults>>

\* disconnect(): setIdle, its result ignored, and the port is closed.
Disconnect ==
  /\ mpc = "disconnect"
  /\ dev' = IF link THEN Commanded("setIdle") ELSE dev
  /\ connected' = FALSE
  /\ mpc' = "exit"
  /\ UNCHANGED <<shutdown, slot, step, ahrs, threadVars, filter, link, packet, faults>>

Signal ==
  /\ shutdown' = TRUE
  /\ UNCHANGED <<slot, mpc, driverVars, threadVars, sensorVars, faults>>

-----------------------------------------------------------------------------
(***************************************************************************)
(* poll_and_publish(): update() parses what the port has received, and the *)
(* slot gets what is known now, new or not.  It fails with the port.       *)
(***************************************************************************)
PollOk == link /\ connected

\* Faulty: data that is not valid is not published.
PollKeepsSlot ==
  IF PollOk
  THEN /\ ahrs' = packet.ahrs
       /\ slot' = IF packet.ahrs /\ packet.valid THEN "data" ELSE slot
  ELSE UNCHANGED <<ahrs, slot>>

Poll ==
  IF PollOk
  THEN /\ ahrs' = packet.ahrs
       /\ slot' = IF packet.ahrs /\ packet.valid THEN "data" ELSE "identity"
  ELSE UNCHANGED <<ahrs, slot>>

\* Faulty: one poll too many.
WaitPollOnceMore ==
  /\ tpc = "wait"
  /\ ~ahrs
  /\ Poll
  /\ IF waited <= WaitPolls
     THEN waited' = waited + 1 /\ UNCHANGED tpc
     ELSE tpc' = "loop" /\ UNCHANGED waited
  /\ UNCHANGED <<shutdown, mpc, step, connected, sensorVars, faults>>

\* run(), the wait for AHRS mode: the result of the poll is ignored.
WaitPoll ==
  /\ tpc = "wait"
  /\ ~ahrs
  /\ Poll
  /\ IF waited < WaitPolls
     THEN waited' = waited + 1 /\ UNCHANGED tpc
     ELSE tpc' = "loop" /\ UNCHANGED waited
  /\ UNCHANGED <<shutdown, mpc, step, connected, sensorVars, faults>>

WaitEnds ==
  /\ tpc = "wait"
  /\ ahrs
  /\ tpc' = "loop"
  /\ UNCHANGED <<shutdown, slot, mpc, driverVars, waited, sensorVars, faults>>

\* Faulty: the result of the poll is ignored here too.
LoopPollDeaf ==
  /\ tpc = "loop"
  /\ Poll
  /\ UNCHANGED <<shutdown, mpc, step, connected, tpc, waited, sensorVars, faults>>

\* run(), the 200 Hz loop: only a failed poll ends it.
LoopPoll ==
  /\ tpc = "loop"
  /\ Poll
  /\ tpc' = IF PollOk THEN "loop" ELSE "exited"
  /\ UNCHANGED <<shutdown, mpc, step, connected, waited, sensorVars, faults>>

-----------------------------------------------------------------------------
(***************************************************************************)
(* The sensor and the port, outside src/.  A packet stays in the structs   *)
(* quat_, gyro_, accel_ and status_ until the next one is parsed.          *)
(***************************************************************************)
Stream(v) ==
  /\ dev.stream /\ dev.format /\ link
  /\ packet' = [ahrs |-> filter, valid |-> v]
  /\ UNCHANGED <<shutdown, slot, mpc, driverVars, threadVars, dev, filter, link, faults>>

FilterChanges ==
  /\ filter' = ~filter
  /\ UNCHANGED <<shutdown, slot, mpc, driverVars, threadVars, dev, link, packet, faults>>

LinkLost ==
  /\ link
  /\ Fault
  /\ link' = FALSE
  /\ UNCHANGED <<shutdown, slot, mpc, driverVars, threadVars, dev, filter, packet>>

-----------------------------------------------------------------------------
MainStep ==
  \/ Connect \/ CommandAcked \/ CommandFails \/ CreateThread \/ CreateFails
  \/ MonitorEnds \/ Join \/ Disconnect

ThreadStep == WaitPoll \/ WaitEnds \/ LoopPoll

SensorStep == (\E v \in BOOLEAN : Stream(v)) \/ FilterChanges \/ LinkLost

Next == MainStep \/ Signal \/ ThreadStep \/ SensorStep

(***************************************************************************)
(* main() and the thread go on; a sensor that streams sends packets.       *)
(***************************************************************************)
Spec ==
  /\ Init /\ [][Next]_vars
  /\ WF_vars(MainStep)
  /\ WF_vars(ThreadStep)
  /\ WF_vars(\E v \in BOOLEAN : Stream(v))

-----------------------------------------------------------------------------
Running == tpc \in {"wait", "loop"}

ImuTypeOK ==
  /\ shutdown \in BOOLEAN
  /\ slot \in {"identity", "data"}
  /\ mpc \in {"connect", "configure", "create", "monitor", "join", "disconnect", "exit"}
  /\ step \in 1 .. Len(Steps)
  /\ connected \in BOOLEAN
  /\ tpc \in {"none", "wait", "loop", "exited"}
  /\ waited \in 0 .. WaitPolls
  /\ ahrs \in BOOLEAN
  /\ dev \in [stream : BOOLEAN, format : BOOLEAN, aided : BOOLEAN, fresh : BOOLEAN]
  /\ filter \in BOOLEAN
  /\ link \in BOOLEAN
  /\ packet \in Packets
  /\ faults \in 0 .. MaxFaults

(***************************************************************************)
(* A thread runs only on a sensor that streams the chosen format, with the *)
(* magnetometer on and the filter reset after that, whatever state the     *)
(* sensor was found in and whichever commands fail (configure() lines      *)
(* 79-102 of imu_driver.cpp).                                              *)
(***************************************************************************)
RunsConfigured ==
  Running => dev = [stream |-> TRUE, format |-> TRUE, aided |-> TRUE, fresh |-> TRUE]

(***************************************************************************)
(* "false: the link is lost, the thread ends" (imu_driver.hpp line 109):   *)
(* also when it is lost during the 30 seconds in which the result of the   *)
(* poll is ignored.                                                        *)
(***************************************************************************)
LinkLossEndsThread == ~link ~> ~Running

(***************************************************************************)
(* "published as valid only in AHRS mode or above" (imu_driver.cpp line    *)
(* 155): when the filter falls back for good the slot does not go on       *)
(* showing the attitude of before, as long as the sensor can be read.      *)
(***************************************************************************)
FallbackIsPublished ==
  <>[](~filter /\ link /\ Running) => <>[](slot = "identity")

(***************************************************************************)
(* "shutdown: the global stop flag, polled by all threads"                 *)
(* (shared_state.hpp line 156).                                            *)
(***************************************************************************)
ShutdownEndsThread == shutdown ~> ~Running
=============================================================================
