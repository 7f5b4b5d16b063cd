----------------------------- MODULE FourChannel -----------------------------
(***************************************************************************)
(* main() of apps/test_4ch.cpp: one SharedState, one MotorThread per       *)
(* channel, started and stopped in order, and a signal handler.            *)
(* apps/test_rt_thread.cpp does the same for one channel, except that it   *)
(* does not set shutdown when start() fails.                               *)
(*                                                                         *)
(* "exit" is the end of main(), after its local objects are destroyed.     *)
(* Frames that are still queued when CAN_Uninitialize closes a channel are *)
(* taken to be sent by the driver.                                         *)
(***************************************************************************)
EXTENDS MotorThread

ASSUME HoldAssumption == MaxActions > 0

VARIABLES
  mpc,          \* where main() is
  mch,          \* its loop variable ch
  armed,        \* g_shared_ptr is set
  interrupted,  \* history: SIGINT or SIGTERM was received
  failed        \* history: the channel whose start() failed, or -1

mainVars == <<mpc, mch, armed, interrupted, failed>>
fvars == <<vars, mainVars>>

LastChannel == NumChannels - 1

FInit ==
  /\ Init
  /\ mpc = "open"
  /\ mch = 0
  /\ armed = FALSE
  /\ interrupted = FALSE
  /\ failed = -1

At(label) == mpc = label

GoTo(label, c) ==
  mpc' = label /\ mch' = c /\ UNCHANGED <<armed, interrupted>>

\* for (int ch = 0; ch < NUM_CHANNELS; ++ch): round once more, or leave.
NextChannel(again, after) ==
  IF mch < LastChannel THEN GoTo(again, mch + 1) ELSE GoTo(after, 0)

\* CAN_Initialize of the next channel, or its failure: return 1.
OpenChannel ==
  /\ At("open")
  /\ NextChannel("open", "share")
  /\ UNCHANGED <<vars, failed>>

OpenFails ==
  /\ At("open")
  /\ GoTo("exit", mch)
  /\ UNCHANGED <<vars, failed>>

\* g_shared_ptr = &shared
Share ==
  /\ At("share")
  /\ armed' = TRUE
  /\ mpc' = "hold"
  /\ UNCHANGED <<vars, mch, interrupted, failed>>

\* shared.action.store(a): hold at zero.
StoreHold ==
  /\ At("hold")
  /\ StoreAction
  /\ GoTo("start", 0)
  /\ UNCHANGED failed

StartThread ==
  /\ At("start")
  /\ BeginStart(mch)
  /\ GoTo("starting", mch)
  /\ UNCHANGED failed

Started ==
  /\ At("starting")
  /\ call = NoCall
  /\ started[mch]
  /\ NextChannel("start", "monitor")
  /\ UNCHANGED <<vars, failed>>

\* shared.shutdown.store(true); return 1
StartFailed ==
  /\ At("starting")
  /\ call = NoCall
  /\ ~started[mch]
  /\ SetShutdown
  /\ GoTo("unwind", LastChannel)
  /\ failed' = mch

\* The test's duration is over, or shutdown is set.
MonitorEnds ==
  /\ At("monitor")
  /\ SetShutdown
  /\ GoTo("stop", 0)
  /\ UNCHANGED failed

StopThread ==
  /\ At("stop")
  /\ BeginStop(mch)
  /\ GoTo("stopping", mch)
  /\ UNCHANGED failed

Stopped ==
  /\ At("stopping")
  /\ call = NoCall
  /\ NextChannel("stop", "exit")
  /\ UNCHANGED <<vars, failed>>

\* Faulty: ~MotorThread() does not stop the thread.
DestroyRunning ==
  /\ At("unwind")
  /\ call = NoCall
  /\ IF mch > 0 THEN GoTo("unwind", mch - 1) ELSE GoTo("exit", 0)
  /\ UNCHANGED <<vars, failed>>

(***************************************************************************)
(* return 1 destroys the array of threads from its last element to its     *)
(* first: ~MotorThread() calls stop() of an object that was started.       *)
(***************************************************************************)
Destroy ==
  /\ At("unwind")
  /\ call = NoCall
  /\ \/ /\ started[mch]
        /\ BeginStop(mch)
        /\ UNCHANGED mainVars
     \/ /\ ~started[mch]
        /\ IF mch > 0 THEN GoTo("unwind", mch - 1) ELSE GoTo("exit", 0)
        /\ UNCHANGED <<vars, failed>>

MainStep ==
  \/ OpenChannel \/ OpenFails \/ Share \/ StoreHold
  \/ StartThread \/ Started \/ StartFailed
  \/ MonitorEnds \/ StopThread \/ Stopped \/ Destroy

\* signal_handler(): a signal before g_shared_ptr is set does nothing.
Signal ==
  /\ ~At("exit")
  /\ interrupted' = TRUE
  /\ IF armed THEN SetShutdown ELSE UNCHANGED vars
  /\ UNCHANGED <<mpc, mch, armed, failed>>

FNext ==
  \/ MainStep
  \/ Signal
  \/ CallStep /\ UNCHANGED mainVars
  \/ \E c \in Channels : ThreadStep(c) /\ UNCHANGED mainVars
  \/ BusStep /\ UNCHANGED mainVars

FSpec == FInit /\ [][FNext]_fvars

\* As in MotorThread; main() goes on, and the test's duration ends.
FFairSpec ==
  /\ FSpec
  /\ WF_fvars(MainStep)
  /\ WF_fvars(CallStep /\ UNCHANGED mainVars)
  /\ \A c \in Channels :
       /\ WF_fvars(ThreadStep(c) /\ UNCHANGED mainVars)
       /\ WF_fvars(Deliver(c) /\ UNCHANGED mainVars)

-----------------------------------------------------------------------------
FTypeOK ==
  /\ TypeOK
  /\ mpc \in {"open", "share", "hold", "start", "starting", "monitor",
              "stop", "stopping", "unwind", "exit"}
  /\ mch \in Channels
  /\ armed \in BOOLEAN
  /\ interrupted \in BOOLEAN
  /\ failed \in Channels \cup {-1}

(***************************************************************************)
(* shared, the channels and the motors are objects of main(): when they    *)
(* are destroyed no RT thread is left that uses them, whichever of the     *)
(* ways main() ends.                                                       *)
(***************************************************************************)
NoThreadOutlivesMain ==
  At("exit") => \A c \in Channels : tpc[c] = "none"

\* Everything that was queued for the motors of channel c has been sent.
Drained(c) == tx[c] = <<>>

(***************************************************************************)
(* "Safe stop: twice, since one may be missed" (motor_thread.cpp line 73): *)
(* the motors of every channel but one whose start() failed have stopped   *)
(* after main(), even those that did not get one of the two STOPs.         *)
(***************************************************************************)
StopSurvivesOneLoss ==
  At("exit") =>
    \A c \in Channels \ {failed} : \A m \in MotorsOf(c) :
      (Drained(c) /\ lostStops[m] <= 1) => drive[m] = "reset"

(***************************************************************************)
(* "On SIGINT, surely on to the stop() of every motor and then end"        *)
(* (test_4ch.cpp line 15).                                                 *)
(***************************************************************************)
SigintStopsMotors ==
  (At("exit") /\ interrupted) =>
    \A c \in Channels : \A m \in MotorsOf(c) :
      (Drained(c) /\ lostStops[m] <= 1) => drive[m] = "reset"

(***************************************************************************)
(* The program ends, with or without a signal, whatever fails on the way:  *)
(* no join waits for ever (test_4ch.cpp lines 170-217).                    *)
(***************************************************************************)
Terminates == <>At("exit")
=============================================================================
