------------------------------ MODULE MCTools ------------------------------
(***************************************************************************)
(* Either of the maintenance tools, motor_config or test_connection, on    *)
(* the same motors.  The one that is not started has ended already.        *)
(***************************************************************************)
EXTENDS MotorConfig, TestConnection

CONSTANTS m1, m2

OneChannel == [m \in Motors |-> 0]

TwoEntries == <<[ch |-> 0, id |-> 0], [ch |-> NumChannels - 1, id |-> 1]>>

ConfigInit == Init /\ where = "exit" /\ k = 0 /\ attempt = 1 /\ stage = 0
                   /\ up = {} /\ ok = {} /\ hits = {}

TestInit ==
  /\ BusInit
  /\ ProbeInit
  /\ cmd = [name |-> "set-zero", dry |-> TRUE, all |-> FALSE, ch |-> 0, a |-> 0, b |-> 0]
  /\ at = "done" /\ step = cmd.name /\ target = 0 /\ try = 1
  /\ ch = 0 /\ seen = None /\ found = {} /\ result = None

toolsVars == <<vars, probeVars>>

ConfigNext == Next /\ UNCHANGED probeVars

TestNext == ProbeNext /\ UNCHANGED <<cmd, toolVars>>

(***************************************************************************)
(* The tools run and the motors come to the frames of their channel.  A    *)
(* wait of test_connection looks at the time whenever the queue is empty,  *)
(* again and again if frames come slower than they are read: 1 Mbit/s are  *)
(* 130 microseconds a frame, and a sleep of 500 ends in a read: SF.        *)
(***************************************************************************)
ToolsSpec ==
  /\ (ConfigInit \/ TestInit) /\ [][ConfigNext \/ TestNext]_toolsVars
  /\ WF_toolsVars(ToolStep /\ UNCHANGED probeVars)
  /\ WF_toolsVars(Expire /\ UNCHANGED probeVars)
  /\ WF_toolsVars(ProbeStep /\ UNCHANGED <<cmd, toolVars>>)
  /\ SF_toolsVars(Expires /\ UNCHANGED <<cmd, toolVars>>)
  /\ \A m \in Motors : WF_toolsVars(Obey(m) /\ UNCHANGED <<cmd, toolVars, probeVars>>)
=============================================================================
