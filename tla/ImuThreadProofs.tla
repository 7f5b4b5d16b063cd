-------------------------- MODULE ImuThreadProofs --------------------------
(***************************************************************************)
(* Theorems about ImuThread: they hold for any length of the wait loop and *)
(* any number of faults.                                                   *)
(***************************************************************************)
EXTENDS ImuThread, TLAPS

\* The part of the configuration that a sensor in state d has when command s
\* is next.
Done(d, s) ==
  /\ s > 5 => d.format
  /\ s > 6 => d.aided
  /\ s > 7 => d.fresh

\* The dialogue ends before the thread begins, and goes on after it has ended.
DialogueInv ==
  /\ mpc = "configure" => Done(dev, step)
  /\ mpc \in {"create", "monitor", "join"} =>
       dev = [stream |-> TRUE, format |-> TRUE, aided |-> TRUE, fresh |-> TRUE]
  /\ mpc = "connect" => step = 1
  /\ tpc # "none" => mpc \in {"monitor", "join"}
  /\ mpc \in {"create", "monitor", "join"} => connected

Inv == ImuTypeOK /\ DialogueInv

-----------------------------------------------------------------------------
\* The commands of configure() by their place.
LEMMA StepsAre ==
  /\ Len(Steps) = 8
  /\ Steps[1] = "ping" /\ Steps[2] = "setIdle" /\ Steps[3] = "defaultDeviceSettings"
  /\ Steps[4] = "getBaseRate" /\ Steps[5] = "writeMessageFormat"
  /\ Steps[6] = "writeAidingMeasurementEnable" /\ Steps[7] = "reset" /\ Steps[8] = "resume"
  BY DEF Steps

Devs == [stream : BOOLEAN, format : BOOLEAN, aided : BOOLEAN, fresh : BOOLEAN]

\* A command changes the sensor's state into another one.
LEMMA CommandedType ==
  ASSUME dev \in Devs, NEW c
  PROVE  Commanded(c) \in Devs
  BY DEF Commanded, Devs

\* After the first s commands that much is configured (configure() lines
\* 79-102).
LEMMA CommandedDone ==
  ASSUME dev \in Devs, NEW s \in 1 .. 8, Done(dev, s), dev' = Commanded(Steps[s])
  PROVE  /\ s < 8 => Done(dev', s + 1)
         /\ s = 8 => dev' = [stream |-> TRUE, format |-> TRUE, aided |-> TRUE, fresh |-> TRUE]
<1>1. CASE s \in {1, 2, 3, 4}
  BY <1>1 DEF Done
<1>2. CASE s = 5
  <2>1. dev' = [dev EXCEPT !.format = TRUE]
    BY <1>2, StepsAre DEF Commanded
  <2>2. dev'.format
    BY <2>1 DEF Devs
  <2>3. QED
    BY <1>2, <2>2 DEF Done
<1>3. CASE s = 6
  <2>1. dev' = [dev EXCEPT !.aided = TRUE, !.fresh = FALSE]
    BY <1>3, StepsAre DEF Commanded
  <2>2. dev'.format = dev.format /\ dev'.aided
    BY <2>1 DEF Devs
  <2>3. QED
    BY <1>3, <2>2 DEF Done
<1>4. CASE s = 7
  <2>1. dev' = [dev EXCEPT !.fresh = TRUE]
    BY <1>4, StepsAre DEF Commanded
  <2>2. dev'.format = dev.format /\ dev'.aided = dev.aided /\ dev'.fresh
    BY <2>1 DEF Devs
  <2>3. QED
    BY <1>4, <2>2 DEF Done
<1>5. CASE s = 8
  <2>1. dev' = [dev EXCEPT !.stream = TRUE]
    BY <1>5, StepsAre DEF Commanded
  <2>2. dev.format = TRUE /\ dev.aided = TRUE /\ dev.fresh = TRUE
    BY <1>5 DEF Done, Devs
  <2>3. dev' = [stream |-> TRUE, format |-> TRUE, aided |-> TRUE, fresh |-> TRUE]
    BY <2>1, <2>2 DEF Devs
  <2>4. ~(s < 8)
    BY <1>5
  <2>5. QED
    BY <2>3, <2>4
<1>6. QED
  BY <1>1, <1>2, <1>3, <1>4, <1>5

-----------------------------------------------------------------------------
LEMMA NoPacketType == NoPacket \in Packets
  BY DEF NoPacket, Packets

LEMMA InitInv == Init => Inv
<1> SUFFICES ASSUME Init
             PROVE  Inv
  OBVIOUS
<1>1. packet \in Packets
  BY NoPacketType DEF Init
<1>2. waited \in 0 .. WaitPolls /\ faults \in 0 .. MaxFaults /\ step \in 1 .. Len(Steps)
  BY ImuAssumption, StepsAre DEF Init
<1>3. ImuTypeOK
  BY <1>1, <1>2 DEF Init, ImuTypeOK
<1>4. DialogueInv
  BY DEF Init, DialogueInv
<1>5. QED
  BY <1>3, <1>4 DEF Inv

USE DEF Running

LEMMA StepTypeOK == ImuTypeOK /\ [Next]_vars => ImuTypeOK'
<1> SUFFICES ASSUME ImuTypeOK, [Next]_vars
             PROVE  ImuTypeOK'
  OBVIOUS
<1> USE ImuAssumption, StepsAre DEF ImuTypeOK
<1>1. CASE UNCHANGED vars
  BY <1>1 DEF vars, driverVars, threadVars, sensorVars
<1>2. CASE Connect
  BY <1>2 DEF Connect, driverVars, threadVars, sensorVars
<1>3. CASE CommandAcked
  <2>1. dev' \in Devs
    BY <1>3, CommandedType DEF CommandAcked, Devs
  <2>2. step' \in 1 .. Len(Steps)
    BY <1>3 DEF CommandAcked
  <2>3. QED
    BY <1>3, <2>1, <2>2, NoPacketType DEF CommandAcked, threadVars, Devs
<1>4. CASE CommandFails
  <2>1. dev' \in Devs
    BY <1>4, CommandedType DEF CommandFails, Devs
  <2>2. QED
    BY <1>4, <2>1 DEF CommandFails, Fault, driverVars, threadVars, Devs
<1>5. CASE CreateThread
  BY <1>5 DEF CreateThread, driverVars, sensorVars
<1>6. CASE CreateFails
  BY <1>6 DEF CreateFails, Fault, driverVars, threadVars, sensorVars
<1>7. CASE MonitorEnds
  BY <1>7 DEF MonitorEnds, driverVars, threadVars, sensorVars
<1>8. CASE Join
  BY <1>8 DEF Join, driverVars, sensorVars
<1>9. CASE Disconnect
  <2>1. dev' \in Devs
    BY <1>9, CommandedType DEF Disconnect, Devs
  <2>2. QED
    BY <1>9, <2>1 DEF Disconnect, threadVars, Devs
<1>10. CASE Signal
  BY <1>10 DEF Signal, driverVars, threadVars, sensorVars
<1>11. CASE WaitPoll
  <2>1. waited' \in 0 .. WaitPolls
    BY <1>11 DEF WaitPoll
  <2>2. ahrs' \in BOOLEAN /\ slot' \in {"identity", "data"}
    BY <1>11 DEF WaitPoll, Poll, PollOk, Packets
  <2>3. QED
    BY <1>11, <2>1, <2>2 DEF WaitPoll, sensorVars
<1>12. CASE WaitEnds
  BY <1>12 DEF WaitEnds, driverVars, sensorVars
<1>13. CASE LoopPoll
  BY <1>13 DEF LoopPoll, Poll, PollOk, sensorVars, Packets
<1>14. CASE \E v \in BOOLEAN : Stream(v)
  BY <1>14 DEF Stream, driverVars, threadVars, Packets
<1>15. CASE FilterChanges
  BY <1>15 DEF FilterChanges, driverVars, threadVars
<1>16. CASE LinkLost
  <2>1. faults' \in 0 .. MaxFaults
    BY <1>16 DEF LinkLost, Fault
  <2>2. UNCHANGED <<shutdown, slot, mpc, driverVars, threadVars, dev, filter, packet>>
    BY <1>16 DEF LinkLost
  <2>3. link' \in BOOLEAN
    BY <1>16 DEF LinkLost
  <2>4. QED
    BY <2>1, <2>2, <2>3 DEF driverVars, threadVars
<1>17. QED
  BY <1>1, <1>2, <1>3, <1>4, <1>5, <1>6, <1>7, <1>8, <1>9, <1>10, <1>11, <1>12,
     <1>13, <1>14, <1>15, <1>16 DEF Next, MainStep, ThreadStep, SensorStep

LEMMA StepDialogueInv == Inv /\ [Next]_vars => DialogueInv'
<1> SUFFICES ASSUME Inv, [Next]_vars
             PROVE  DialogueInv'
  OBVIOUS
<1> USE StepsAre DEF Inv, DialogueInv
<1>1. CASE UNCHANGED vars
  BY <1>1 DEF vars, driverVars, threadVars, sensorVars, Done
<1>2. CASE Connect
  BY <1>2 DEF Connect, driverVars, threadVars, sensorVars, Done
<1>3. CASE CommandAcked
  <2>1. dev \in Devs /\ step \in 1 .. 8 /\ Done(dev, step) /\ dev' = Commanded(Steps[step])
    BY <1>3 DEF CommandAcked, ImuTypeOK, Devs
  <2>2. CASE step < 8
    <3>1. Done(dev', step + 1)
      BY <2>1, <2>2, CommandedDone
    <3>2. mpc' = "configure" /\ step' = step + 1 /\ tpc' = tpc
      BY <1>3, <2>2 DEF CommandAcked, threadVars
    <3>3. QED
      BY <1>3, <3>1, <3>2 DEF CommandAcked, Done
  <2>3. CASE step = 8
    <3>1. dev' = [stream |-> TRUE, format |-> TRUE, aided |-> TRUE, fresh |-> TRUE]
      BY <2>1, <2>3, CommandedDone
    <3>2. mpc' = "create" /\ tpc' = tpc
      BY <1>3, <2>3 DEF CommandAcked, threadVars
    <3>3. QED
      BY <1>3, <3>1, <3>2 DEF CommandAcked
  <2>4. QED
    BY <2>1, <2>2, <2>3
<1>4. CASE CommandFails
  BY <1>4 DEF CommandFails, threadVars
<1>5. CASE CreateThread
  BY <1>5 DEF CreateThread, driverVars, sensorVars
<1>6. CASE CreateFails
  BY <1>6 DEF CreateFails, threadVars
<1>7. CASE MonitorEnds
  BY <1>7 DEF MonitorEnds, driverVars, threadVars, sensorVars
<1>8. CASE Join
  BY <1>8 DEF Join, driverVars, sensorVars
<1>9. CASE Disconnect
  BY <1>9 DEF Disconnect, threadVars
<1>10. CASE Signal
  BY <1>10 DEF Signal, driverVars, threadVars, sensorVars, Done
<1>11. CASE WaitPoll
  BY <1>11 DEF WaitPoll, sensorVars, Done
<1>12. CASE WaitEnds
  BY <1>12 DEF WaitEnds, driverVars, sensorVars, Done
<1>13. CASE LoopPoll
  BY <1>13 DEF LoopPoll, sensorVars, Done
<1>14. CASE \E v \in BOOLEAN : Stream(v)
  BY <1>14 DEF Stream, driverVars, threadVars, Done
<1>15. CASE FilterChanges
  BY <1>15 DEF FilterChanges, driverVars, threadVars, Done
<1>16. CASE LinkLost
  BY <1>16 DEF LinkLost, driverVars, threadVars, Done
<1>17. QED
  BY <1>1, <1>2, <1>3, <1>4, <1>5, <1>6, <1>7, <1>8, <1>9, <1>10, <1>11, <1>12,
     <1>13, <1>14, <1>15, <1>16 DEF Next, MainStep, ThreadStep, SensorStep

LEMMA Invariance == Spec => []Inv
<1>1. Inv /\ [Next]_vars => Inv'
  BY StepTypeOK, StepDialogueInv DEF Inv
<1>2. QED
  BY <1>1, InitInv, PTL DEF Spec

(***************************************************************************)
(* The configuration dialogue and the wait loop keep their counters within *)
(* bounds, and the driver's variables their types.                         *)
(***************************************************************************)
THEOREM TypeCorrect == Spec => []ImuTypeOK
<1>1. Inv => ImuTypeOK
  BY DEF Inv
<1>2. QED
  BY <1>1, Invariance, PTL

(***************************************************************************)
(* A thread runs only on a sensor that was configured to its end, whatever *)
(* state it was found in, whichever commands fail, and with or without the *)
(* port (configure() lines 79-102, start() lines 341-366).                 *)
(***************************************************************************)
THEOREM ThreadRunsConfigured == Spec => []RunsConfigured
<1>1. Inv => RunsConfigured
  BY DEF Inv, DialogueInv, RunsConfigured
<1>2. QED
  BY <1>1, Invariance, PTL

(***************************************************************************)
(* The thread has its driver: the port is closed under it and connected_   *)
(* written by another thread (disconnect() lines 111-124) only before it   *)
(* is created and after it is joined, on every way out of start(), stop()  *)
(* and main().                                                             *)
(***************************************************************************)
PortOutlivesThread == tpc # "none" => connected

(***************************************************************************)
(* disconnect() and the thread never meet: stop() joins before it calls    *)
(* it (lines 370-377), and ~ImuDriver() comes after stop() or before the   *)
(* thread exists.                                                          *)
(***************************************************************************)
THEOREM ThreadHasPort == Spec => []PortOutlivesThread
<1>1. Inv => PortOutlivesThread
  BY DEF Inv, DialogueInv, PortOutlivesThread
<1>2. QED
  BY <1>1, Invariance, PTL
=============================================================================
