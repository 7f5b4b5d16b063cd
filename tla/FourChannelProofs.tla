------------------------- MODULE FourChannelProofs -------------------------
(***************************************************************************)
(* Proofs about FourChannel, for any number of channels and motors, any    *)
(* queues and limits, and any number of faults and signals.                *)
(***************************************************************************)
EXTENDS FourChannel, MotorThreadProofs

\* What is needed of the threads, the queues and the calls.
Base == TypeOK /\ CallInv /\ TxInv

MainType ==
  /\ mpc \in {"open", "share", "hold", "start", "starting", "monitor",
              "stop", "stopping", "unwind", "exit"}
  /\ mch \in Channels
  /\ armed \in BOOLEAN
  /\ interrupted \in BOOLEAN
  /\ failed \in Channels \cup {-1}

(***************************************************************************)
(* Which call main() has under way in each of its places, and of which     *)
(* channels it is known that they were not started or have been stopped.   *)
(***************************************************************************)
NoneStarted(S) == \A c \in S : ~started[c]

Calling(fn) == call = NoCall \/ (call.fn = fn /\ call.ch = mch)

PlaceInv ==
  /\ mpc \in {"open", "share", "hold", "start", "monitor", "stop", "exit"} => call = NoCall
  /\ mpc \in {"open", "share", "hold", "exit"} => NoneStarted(Channels)
  /\ mpc = "start" => NoneStarted({c \in Channels : c >= mch})
  /\ mpc = "starting" => Calling("start") /\ NoneStarted({c \in Channels : c > mch})
  /\ mpc = "stop" => NoneStarted({c \in Channels : c < mch})
  /\ mpc = "stopping" =>
       /\ Calling("stop")
       /\ call = NoCall => ~started[mch]
       /\ NoneStarted({c \in Channels : c < mch})
  /\ mpc = "unwind" => Calling("stop") /\ NoneStarted({c \in Channels : c > mch})
  /\ mpc \notin {"unwind", "exit"} => failed = -1

-----------------------------------------------------------------------------
LEMMA ChannelsAre == 0 \in Channels /\ LastChannel \in Channels /\ Channels \subseteq Int
  BY ConfigAssumption DEF Channels, LastChannel

\* for (int ch = 0; ...) leaves its index among the channels.
LEMMA NextChannelType ==
  ASSUME mch \in Channels, NEW a, NEW b, NextChannel(a, b)
  PROVE  /\ mch' \in Channels
         /\ UNCHANGED <<armed, interrupted>>
         /\ \/ mpc' = a /\ mch' = mch + 1 /\ mch < LastChannel
            \/ mpc' = b /\ mch' = 0 /\ mch = LastChannel
  BY ConfigAssumption DEF Channels, LastChannel, NextChannel, GoTo

LEMMA MainTypeStep == MainType /\ [FNext]_fvars => MainType'
<1>. SUFFICES ASSUME MainType, [FNext]_fvars PROVE MainType'
  OBVIOUS
<1>. USE ChannelsAre DEF MainType
<1>1. CASE UNCHANGED mainVars
  BY <1>1 DEF mainVars
<1>2. CASE OpenChannel \/ Started \/ Stopped
  BY <1>2, NextChannelType DEF OpenChannel, Started, Stopped
<1>3. CASE OpenFails \/ Share \/ StoreHold \/ StartThread \/ StartFailed \/ MonitorEnds \/ StopThread
  BY <1>3 DEF OpenFails, Share, StoreHold, StartThread, StartFailed, MonitorEnds, StopThread, GoTo
<1>4. CASE Destroy
  BY <1>4, ConfigAssumption DEF Destroy, GoTo, mainVars, Channels
<1>5. CASE Signal
  BY <1>5 DEF Signal
<1>. QED
  BY <1>1, <1>2, <1>3, <1>4, <1>5 DEF FNext, MainStep, fvars

\* main() reaches the threads only through start() and stop(), the stored
\* action and shutdown.
LEMMA StepImplements == MainType /\ [FNext]_fvars => [Next]_vars
<1>. SUFFICES ASSUME MainType, [FNext]_fvars PROVE [Next]_vars
  OBVIOUS
<1>1. CASE OpenChannel \/ OpenFails \/ Share \/ Started \/ Stopped
  BY <1>1 DEF OpenChannel, OpenFails, Share, Started, Stopped
<1>2. CASE StoreHold
  BY <1>2 DEF StoreHold, Next
<1>3. CASE StartFailed \/ MonitorEnds
  BY <1>3 DEF StartFailed, MonitorEnds, Next, Calls
<1>4. CASE StartThread \/ StopThread \/ Destroy
  BY <1>4 DEF StartThread, StopThread, Destroy, Next, Calls, MainType
<1>5. CASE Signal
  BY <1>5 DEF Signal, Next, Calls
<1>6. CASE CallStep \/ (\E c \in Channels : ThreadStep(c)) \/ BusStep
  BY <1>6 DEF Next
<1>7. CASE UNCHANGED fvars
  BY <1>7 DEF fvars
<1>. QED
  BY <1>1, <1>2, <1>3, <1>4, <1>5, <1>6, <1>7 DEF FNext, MainStep

(***************************************************************************)
(* main() of test_4ch (lines 100-230) uses its MotorThread objects as      *)
(* MotorThread supposes: all that is proved of them holds in the program.  *)
(***************************************************************************)
THEOREM MainUsesThreads == FSpec => Spec
<1>1. FInit => Init /\ MainType
  BY ChannelsAre DEF FInit, MainType
<1>. QED
  BY <1>1, MainTypeStep, StepImplements, PTL DEF FSpec, Spec

LEMMA BaseInvariant == Spec => []Base
<1>1. Init => Base
  BY InitType DEF Init, NoCall, Base, CallInv, TxInv
<1>2. TypeOK /\ TypeOK' /\ Base /\ [Next]_vars => Base'
  BY CallInvStep, TxInvStep DEF Base
<1>. QED
  BY <1>1, <1>2, TypeCorrect, PTL DEF Spec

(***************************************************************************)
(* In the program of test_4ch too the motors of a channel see a stream of  *)
(* commands, and a stop(), of its last loop (lines 209-211) or of the      *)
(* destructors after a start() that failed, joins only a thread that       *)
(* exists.                                                                 *)
(***************************************************************************)
THEOREM MainStreams == FSpec => ImplementsStream /\ []JoinHasThread
  BY MainUsesThreads, StreamImplemented, JoinsAThread, PTL

-----------------------------------------------------------------------------
\* The loops of main() keep ch within the channels.
THEOREM FTypeCorrect == FSpec => []FTypeOK
<1>1. FInit => MainType
  BY ChannelsAre DEF FInit, MainType
<1>2. FTypeOK <=> TypeOK /\ MainType
  BY DEF FTypeOK, MainType
<1>3. FSpec => []MainType
  BY <1>1, MainTypeStep, PTL DEF FSpec
<1>4. FSpec => []TypeOK
  BY MainUsesThreads, TypeCorrect, PTL
<1>. QED
  BY <1>2, <1>3, <1>4, PTL

-----------------------------------------------------------------------------
(***************************************************************************)
(* What a step of start() or stop() does to call and to started_: only the *)
(* object it is called for changes, and a stop() that returns has reset    *)
(* started_.                                                               *)
(***************************************************************************)
CallEffect ==
  /\ call.fn \in {"start", "stop"}
  /\ call.ch \in Channels
  /\ \A c \in Channels : c # call.ch => started'[c] = started[c]
  /\ call' = NoCall \/ (call'.fn = call.fn /\ call'.ch = call.ch)
  /\ (call.fn = "stop" /\ call' = NoCall) => ~started'[call.ch]

LEMMA CallEffects == TypeOK /\ CallStep => CallEffect
<1>. SUFFICES ASSUME TypeOK, CallStep PROVE CallEffect
  OBVIOUS
<1>0. CallType
  BY DEF TypeOK
<1>1. CASE Enable \/ CreateThread \/ CreateFails
  <2>1. call \in [fn : {"start"}, ch : Channels, at : {"enable", "create"}, i : Nat]
    BY <1>0, <1>1 DEF CallType, NoCall, Enable, CreateThread, CreateFails
  <2>2. CASE Enable
    BY <2>1, <2>2 DEF Enable, CallEffect
  <2>3. CASE CreateThread
    BY <1>0, <2>1, <2>3 DEF CreateThread, CallEffect, CallType
  <2>4. CASE CreateFails
    BY <2>1, <2>4 DEF CreateFails, CallEffect
  <2>. QED
    BY <1>1, <2>2, <2>3, <2>4
<1>2. CASE Join \/ Stop
  <2>1. call \in [fn : {"stop"}, ch : Channels, at : {"join", "stop"}, i : Nat]
    BY <1>0, <1>2 DEF CallType, NoCall, Join, Stop
  <2>2. CASE Join
    <3>1. call' = [call EXCEPT !.at = "stop"] /\ UNCHANGED started
      BY <2>2 DEF Join
    <3>2. call'.fn = "stop" /\ call'.ch = call.ch /\ call' # NoCall
      BY <2>1, <3>1 DEF NoCall
    <3>. QED
      BY <2>1, <3>1, <3>2 DEF CallEffect
  <2>3. CASE Stop
    <3>1. \A c \in Channels : c # call.ch => started'[c] = started[c]
      BY <1>0, <2>3 DEF Stop, CallType
    <3>2. CASE call.i = 2 * Len(Bindings[call.ch])
      <4>1. call' = NoCall /\ ~started'[call.ch]
        BY <1>0, <2>1, <2>3, <3>2 DEF Stop, CallType
      <4>. QED
        BY <2>1, <3>1, <4>1 DEF CallEffect
    <3>3. CASE call.i # 2 * Len(Bindings[call.ch])
      <4>1. call' = [call EXCEPT !.i = @ + 1]
        BY <2>3, <3>3 DEF Stop
      <4>2. call'.fn = "stop" /\ call'.ch = call.ch /\ call' # NoCall
        BY <2>1, <4>1 DEF NoCall
      <4>. QED
        BY <2>1, <3>1, <4>2 DEF CallEffect
    <3>. QED
      BY <3>2, <3>3
  <2>. QED
    BY <1>2, <2>2, <2>3
<1>. QED
  BY <1>1, <1>2 DEF CallStep

\* main() has at most one call under way, for the channel it is at.
LEMMA MainPlaceStep == TypeOK /\ MainType /\ PlaceInv /\ [FNext]_fvars => PlaceInv'
<1>. SUFFICES ASSUME TypeOK, MainType, PlaceInv, [FNext]_fvars PROVE PlaceInv'
  OBVIOUS
<1>0. /\ mch \in Channels /\ Channels = 0 .. LastChannel /\ LastChannel \in Nat
      /\ started \in [Channels -> BOOLEAN]
  BY ConfigAssumption DEF MainType, Channels, LastChannel, TypeOK, CallType
<1>. USE DEF PlaceInv, NoneStarted, Calling
<1>1. CASE UNCHANGED <<objectVars, mainVars>>
  BY <1>1 DEF objectVars, mainVars
<1>2. CASE OpenChannel \/ Started \/ Stopped
  <2>1. UNCHANGED objectVars
    BY <1>2 DEF OpenChannel, Started, Stopped, vars
  <2>2. CASE OpenChannel
    BY <1>0, <2>1, <2>2, NextChannelType DEF OpenChannel, At, objectVars
  <2>3. CASE Started
    BY <1>0, <2>1, <2>3, NextChannelType DEF Started, At, objectVars
  <2>4. CASE Stopped
    BY <1>0, <2>1, <2>4, NextChannelType DEF Stopped, At, objectVars
  <2>. QED
    BY <1>2, <2>2, <2>3, <2>4
<1>3. CASE OpenFails \/ Share \/ StoreHold \/ StartFailed \/ MonitorEnds
  <2>1. UNCHANGED objectVars
    BY <1>3 DEF OpenFails, Share, StoreHold, StartFailed, MonitorEnds, StoreAction,
                SetShutdown, vars
  <2>2. CASE OpenFails \/ Share \/ StoreHold
    BY <1>0, <2>1, <2>2 DEF OpenFails, Share, StoreHold, GoTo, At, objectVars
  <2>3. CASE StartFailed \/ MonitorEnds
    BY <1>0, <2>1, <2>3 DEF StartFailed, MonitorEnds, GoTo, At, objectVars
  <2>. QED
    BY <1>3, <2>2, <2>3
<1>4. CASE StartThread
  <2>1. /\ mpc = "start" /\ mpc' = "starting" /\ mch' = mch /\ failed' = failed
        /\ call'.fn = "start" /\ call'.ch = mch /\ started' = started
    BY <1>4 DEF StartThread, BeginStart, GoTo, At
  <2>. QED
    BY <1>0, <2>1
<1>5. CASE StopThread
  <2>1. /\ mpc = "stop" /\ mpc' = "stopping" /\ mch' = mch /\ failed' = failed
        /\ call'.fn = "stop" /\ call'.ch = mch /\ started' = started
    BY <1>5 DEF StopThread, BeginStop, GoTo, At
  <2>. QED
    BY <1>0, <2>1 DEF NoCall
<1>6. CASE Destroy
  <2>1. CASE BeginStop(mch) /\ UNCHANGED mainVars
    <3>1. /\ mpc = "unwind" /\ mpc' = "unwind" /\ mch' = mch
          /\ call'.fn = "stop" /\ call'.ch = mch /\ started' = started
      BY <1>6, <2>1 DEF Destroy, BeginStop, At, mainVars
    <3>. QED
      BY <1>0, <3>1
  <2>2. CASE ~started[mch] /\ UNCHANGED <<vars, failed>>
    <3>1. /\ mpc = "unwind" /\ call' = NoCall /\ started' = started
          /\ \/ mch > 0 /\ mpc' = "unwind" /\ mch' = mch - 1
             \/ mch <= 0 /\ mpc' = "exit" /\ mch' = 0
      BY <1>0, <1>6, <2>2 DEF Destroy, GoTo, At, vars, objectVars
    <3>. QED
      BY <1>0, <2>2, <3>1
  <2>. QED
    BY <1>6, <2>1, <2>2 DEF Destroy
<1>7. CASE CallStep /\ UNCHANGED mainVars
  <2>1. CallEffect
    BY <1>7, CallEffects
  <2>2. call # NoCall
    BY <2>1 DEF CallEffect, NoCall
  <2>3. /\ mpc \in {"starting", "stopping", "unwind"}
        /\ call.ch = mch
        /\ call.fn = IF mpc = "starting" THEN "start" ELSE "stop"
    BY <2>2 DEF MainType
  <2>4. UNCHANGED <<mpc, mch, failed>>
    BY <1>7 DEF mainVars
  <2>. QED
    BY <1>0, <2>1, <2>3, <2>4 DEF CallEffect
<1>8. CASE Signal
  BY <1>8 DEF Signal, SetShutdown, vars, objectVars
<1>9. (\E c \in Channels : ThreadStep(c)) \/ BusStep => UNCHANGED objectVars
  BY DEF ThreadStep, BusStep, Test, Load, Send, DrainFrame, DrainEnds, Publish, Wake,
         Tick, Deliver, Lose, OtherTraffic, Unplug, objectVars
<1>. QED
  BY <1>1, <1>2, <1>3, <1>4, <1>5, <1>6, <1>7, <1>8, <1>9
  DEF FNext, MainStep, fvars, vars

LEMMA PlaceInvariant == FSpec => [](Base /\ MainType /\ PlaceInv)
<1>1. FInit => MainType /\ PlaceInv
  BY ChannelsAre DEF FInit, Init, MainType, PlaceInv, NoneStarted
<1>2. TypeOK /\ MainType /\ PlaceInv /\ [FNext]_fvars => MainType' /\ PlaceInv'
  BY MainTypeStep, MainPlaceStep
<1>3. FSpec => []TypeOK
  BY MainUsesThreads, TypeCorrect, PTL
<1>4. FSpec => [](MainType /\ PlaceInv)
  BY <1>1, <1>2, <1>3, PTL DEF FSpec
<1>. QED
  BY <1>4, MainUsesThreads, BaseInvariant, PTL

(***************************************************************************)
(* No RT thread is left when the objects it uses are destroyed: every way  *)
(* out of main() (test_4ch.cpp lines 100-230) joins those that were made.  *)
(***************************************************************************)
THEOREM NoThreadIsLeft == FSpec => []NoThreadOutlivesMain
<1>1. Base /\ PlaceInv => NoThreadOutlivesMain
  BY DEF Base, CallInv, PlaceInv, NoneStarted, NoThreadOutlivesMain, At
<1>. QED
  BY <1>1, PlaceInvariant, PTL

-----------------------------------------------------------------------------
(***************************************************************************)
(* The STOPs of stop(), from the queue to the motor.  A motor that was     *)
(* sent n of them and no ENABLE since is at rest for good, or each of the  *)
(* n is still queued or was lost, the count of lost ones ending at two.    *)
(***************************************************************************)
To(f, kind, m) == f.kind = kind /\ f.motor = m

NoEnable(q, m) == \A i \in DOMAIN q : ~To(q[i], "ENABLE", m)

LastStop(q, m, i) ==
  /\ i \in DOMAIN q
  /\ To(q[i], "STOP", m)
  /\ \A j \in DOMAIN q : i < j => ~To(q[j], "ENABLE", m)

AtRest(c, m) == drive[m] = "reset" /\ NoEnable(tx[c], m)

StoppedOnce(c, m) ==
  \/ AtRest(c, m)
  \/ lostStops[m] >= 1
  \/ \E i \in DOMAIN tx[c] : LastStop(tx[c], m, i)

StoppedTwice(c, m) ==
  \/ AtRest(c, m)
  \/ lostStops[m] >= 2
  \/ lostStops[m] >= 1 /\ \E i \in DOMAIN tx[c] : LastStop(tx[c], m, i)
  \/ \E i, j \in DOMAIN tx[c] : i < j /\ LastStop(tx[c], m, i) /\ LastStop(tx[c], m, j)

(***************************************************************************)
(* All that one step does to the queue of channel c and to its motor m:    *)
(* nothing but a STOP lost elsewhere, a frame more, or the head executed   *)
(* or lost.                                                                *)
(***************************************************************************)
OneMoreLost(m) == lostStops'[m] >= 2 \/ lostStops'[m] >= lostStops[m] + 1

MotorStep(c, m) ==
  /\ lostStops'[m] >= lostStops[m]
  /\ \/ tx'[c] = tx[c] /\ drive'[m] = drive[m]
     \/ /\ \E f \in Frames :
             /\ f.kind = "ENABLE" => call.at = "enable" /\ call.ch = c
             /\ tx'[c] = Append(tx[c], f)
        /\ drive'[m] = drive[m]
     \/ /\ tx[c] # <<>>
        /\ tx'[c] = Tail(tx[c])
        /\ \/ drive'[m] = drive[m]
           \/ To(Head(tx[c]), "STOP", m) /\ drive'[m] = "reset"
           \/ To(Head(tx[c]), "ENABLE", m)
        /\ To(Head(tx[c]), "STOP", m) => drive'[m] = "reset" \/ OneMoreLost(m)

LEMMA MissedCounts ==
  ASSUME MotorType, NEW f \in Frames, Missed(f), NEW m \in Motors
  PROVE  /\ lostStops'[m] >= lostStops[m]
         /\ To(f, "STOP", m) => OneMoreLost(m)
<1>1. f.motor \in Motors /\ lostStops \in [Motors -> 0 .. 2]
  BY DEF Frames, MotorType
<1>2. CASE lostStops' = lostStops
  <2>1. lostStops'[m] = lostStops[m] /\ lostStops[m] \in 0 .. 2
    BY <1>1, <1>2
  <2>2. To(f, "STOP", m) => lostStops[m] >= 2
    BY <1>1, <1>2 DEF Missed, To
  <2>. QED
    BY <2>1, <2>2 DEF OneMoreLost
<1>3. CASE lostStops' = [lostStops EXCEPT ![f.motor] = @ + 1]
  BY <1>1, <1>3 DEF To, OneMoreLost
<1>. QED
  BY <1>2, <1>3 DEF Missed

\* A frame is written at the end of its channel's queue, or refused.
LEMMA WriteMotorStep ==
  ASSUME BusType, MotorType, NEW d \in Channels, NEW f \in Frames, Write(d, f),
         f.kind = "ENABLE" => call.at = "enable" /\ call.ch = d,
         UNCHANGED drive,
         NEW c \in Channels, NEW m \in MotorsOf(c)
  PROVE  MotorStep(c, m)
<1>0. m \in Motors /\ lostStops[m] \in 0 .. 2
  BY Config DEF MotorType
<1>1. CASE tx' = [tx EXCEPT ![d] = Append(@, f)] /\ UNCHANGED lostStops
  <2>1. lostStops'[m] >= lostStops[m]
    BY <1>0, <1>1
  <2>2. CASE c = d
    <3>1. tx'[c] = Append(tx[c], f)
      BY <1>1, <2>2 DEF BusType
    <3>. QED
      BY <2>1, <2>2, <3>1 DEF MotorStep
  <2>3. CASE c # d
    <3>1. tx'[c] = tx[c]
      BY <1>1, <2>3 DEF BusType
    <3>. QED
      BY <2>1, <3>1 DEF MotorStep
  <2>. QED
    BY <2>2, <2>3
<1>2. CASE UNCHANGED tx /\ Missed(f)
  BY <1>0, <1>2, MissedCounts DEF MotorStep
<1>. QED
  BY <1>1, <1>2 DEF Write

LEMMA MotorSteps ==
  ASSUME TypeOK, TxInv, [Next]_vars, NEW c \in Channels, NEW m \in MotorsOf(c)
  PROVE  MotorStep(c, m)
<1>0. /\ BusType /\ MotorType /\ CallType /\ ThreadType
      /\ m \in Motors /\ lostStops[m] \in 0 .. 2
  BY Config DEF TypeOK, MotorType
<1>1. CASE UNCHANGED <<tx, drive, lostStops>>
  BY <1>0, <1>1 DEF MotorStep
<1>2. CASE Enable
  BY <1>0, <1>2, EnableWrites, WriteMotorStep DEF Enable, motorVars
<1>3. CASE Stop
  <2>1. Frame("STOP", Bindings[call.ch][(call.i + 1) \div 2], 0).kind = "STOP"
    BY DEF Frame
  <2>. QED
    BY <1>0, <1>3, <2>1, StopWrites, WriteMotorStep DEF Stop, motorVars
<1>4. ASSUME NEW d \in Channels, Send(d) PROVE MotorStep(c, m)
  <2>1. Frame("MIT", Bindings[d][next[d]], act[d]).kind = "MIT"
    BY DEF Frame
  <2>. QED
    BY <1>0, <1>4, <2>1, SendWrites, WriteMotorStep DEF Send, motorVars
<1>5. ASSUME NEW d \in Channels, Deliver(d) \/ Lose(d) PROVE MotorStep(c, m)
  <2>. DEFINE f == Head(tx[d])
  <2>1. /\ tx[d] \in Seq(Frames) /\ tx[d] # <<>>
        /\ tx' = [tx EXCEPT ![d] = Tail(@)]
    BY <1>0, <1>5 DEF Deliver, Lose, BusType
  <2>2. f \in Frames /\ f.motor \in MotorsOf(d) /\ f.motor \in Motors
    <3>1. 1 \in DOMAIN tx[d] /\ f = tx[d][1] /\ f \in Frames
      BY <2>1
    <3>. QED
      BY <3>1 DEF TxInv, Frames
  <2>. HIDE DEF f
  <2>3. \/ Execute(f) /\ UNCHANGED lostStops
        \/ Missed(f) /\ UNCHANGED drive
    BY <1>5 DEF Deliver, Lose, motorVars, f
  <2>4. lostStops'[m] >= lostStops[m]
    BY <1>0, <2>2, <2>3, MissedCounts
  <2>5. f.motor # m => drive'[m] = drive[m]
    BY <1>0, <2>2, <2>3 DEF Execute, MotorType
  <2>6. CASE c # d
    BY <1>0, <2>1, <2>2, <2>4, <2>5, <2>6, NotFromHere DEF MotorStep, BusType
  <2>7. CASE c = d
    <3>1. /\ tx[c] # <<>> /\ tx'[c] = Tail(tx[c]) /\ f = Head(tx[c])
      BY <1>0, <2>1, <2>7 DEF BusType, f
    <3>2. CASE Execute(f) /\ f.motor = m
      BY <1>0, <2>2, <2>4, <3>1, <3>2 DEF Execute, MotorType, MotorStep, To
    <3>3. CASE Missed(f) /\ UNCHANGED drive
      BY <1>0, <2>2, <2>4, <3>1, <3>3, MissedCounts DEF MotorStep
    <3>4. CASE f.motor # m
      BY <2>4, <2>5, <3>1, <3>4 DEF MotorStep, To
    <3>. QED
      BY <2>3, <3>2, <3>3, <3>4
  <2>. QED
    BY <2>6, <2>7
<1>6. \/ UNCHANGED <<tx, drive, lostStops>>
      \/ Enable \/ Stop
      \/ \E d \in Channels : Send(d) \/ Deliver(d) \/ Lose(d)
  BY DEF Next, vars, busVars, motorVars, Calls, CallStep, ThreadStep, BusStep, SetShutdown,
     BeginStart, CreateThread, CreateFails, BeginStop, Join, Test, Load,
     DrainFrame, DrainEnds, Publish, Wake, StoreAction, Tick, OtherTraffic, Unplug
<1>. QED
  BY <1>1, <1>2, <1>3, <1>4, <1>5, <1>6

\* What is known of the places in a queue after a frame was added or taken.
LEMMA AppendKeeps ==
  ASSUME NEW q \in Seq(Frames), NEW f \in Frames, NEW m, ~To(f, "ENABLE", m)
  PROVE  /\ NoEnable(q, m) => NoEnable(Append(q, f), m)
         /\ \A i \in DOMAIN q : LastStop(q, m, i) => LastStop(Append(q, f), m, i)
<1>1. /\ DOMAIN q = 1 .. Len(q) /\ Len(q) \in Nat
      /\ DOMAIN Append(q, f) = 1 .. Len(q) + 1
      /\ \A i \in 1 .. Len(q) : Append(q, f)[i] = q[i]
      /\ Append(q, f)[Len(q) + 1] = f
  OBVIOUS
<1>2. \A i \in DOMAIN Append(q, f) : i \in DOMAIN q \/ Append(q, f)[i] = f
  BY <1>1
<1>3. NoEnable(q, m) => NoEnable(Append(q, f), m)
  BY <1>1, <1>2 DEF NoEnable
<1>4. ASSUME NEW i \in DOMAIN q, LastStop(q, m, i) PROVE LastStop(Append(q, f), m, i)
  BY <1>1, <1>2, <1>4 DEF LastStop
<1>. QED
  BY <1>3, <1>4

LEMMA TailKeeps ==
  ASSUME NEW q \in Seq(Frames), q # <<>>, NEW m
  PROVE  /\ NoEnable(q, m) => NoEnable(Tail(q), m)
         /\ LastStop(q, m, 1) => To(Head(q), "STOP", m) /\ NoEnable(Tail(q), m)
         /\ \A i \in DOMAIN q : i > 1 /\ LastStop(q, m, i) =>
              i - 1 \in DOMAIN Tail(q) /\ LastStop(Tail(q), m, i - 1)
<1>1. /\ Len(q) \in Nat \ {0} /\ DOMAIN q = 1 .. Len(q)
      /\ DOMAIN Tail(q) = 1 .. Len(q) - 1
      /\ \A i \in 1 .. Len(q) - 1 : Tail(q)[i] = q[i + 1]
      /\ Head(q) = q[1]
  OBVIOUS
<1>2. \A i \in DOMAIN Tail(q) : i + 1 \in DOMAIN q /\ Tail(q)[i] = q[i + 1] /\ 1 < i + 1
  BY <1>1
<1>3. NoEnable(q, m) => NoEnable(Tail(q), m)
  BY <1>2 DEF NoEnable
<1>4. LastStop(q, m, 1) => To(Head(q), "STOP", m) /\ NoEnable(Tail(q), m)
  BY <1>1, <1>2 DEF LastStop, NoEnable
<1>5. ASSUME NEW i \in DOMAIN q, i > 1, LastStop(q, m, i)
      PROVE  i - 1 \in DOMAIN Tail(q) /\ LastStop(Tail(q), m, i - 1)
  <2>1. i - 1 \in DOMAIN Tail(q) /\ Tail(q)[i - 1] = q[i]
    BY <1>1, <1>5
  <2>2. \A j \in DOMAIN Tail(q) : i - 1 < j => ~To(Tail(q)[j], "ENABLE", m)
    <3>. SUFFICES ASSUME NEW j \in DOMAIN Tail(q), i - 1 < j
                  PROVE  ~To(Tail(q)[j], "ENABLE", m)
      OBVIOUS
    <3>1. j + 1 \in DOMAIN q /\ Tail(q)[j] = q[j + 1] /\ i < j + 1
      BY <1>1, <1>5
    <3>. QED
      BY <1>5, <3>1 DEF LastStop
  <2>. QED
    BY <1>5, <2>1, <2>2 DEF LastStop
<1>. QED
  BY <1>3, <1>4, <1>5

\* Once at rest, or on the way to it, a motor stays so until start() enables it.
LEMMA StopsStay ==
  ASSUME TypeOK, TypeOK', NEW c \in Channels, NEW m \in MotorsOf(c), MotorStep(c, m),
         ~(call.at = "enable" /\ call.ch = c)
  PROVE  /\ StoppedOnce(c, m) => StoppedOnce(c, m)'
         /\ StoppedTwice(c, m) => StoppedTwice(c, m)'
<1>0. /\ tx[c] \in Seq(Frames)
      /\ DOMAIN tx[c] \subseteq Int
      /\ m \in Motors /\ lostStops[m] \in 0 .. 2 /\ lostStops'[m] \in 0 .. 2
      /\ lostStops'[m] >= lostStops[m]
  <2>1. tx[c] \in Seq(Frames)
    BY DEF TypeOK, BusType
  <2>. QED
    BY <2>1, Config DEF TypeOK, MotorType, MotorStep
<1>1. CASE tx'[c] = tx[c] /\ drive'[m] = drive[m]
  BY <1>0, <1>1 DEF StoppedOnce, StoppedTwice, AtRest
<1>2. ASSUME NEW f \in Frames, f.kind # "ENABLE", tx'[c] = Append(tx[c], f),
             drive'[m] = drive[m]
      PROVE  /\ StoppedOnce(c, m) => StoppedOnce(c, m)'
             /\ StoppedTwice(c, m) => StoppedTwice(c, m)'
  <2>1. AtRest(c, m) => AtRest(c, m)'
    BY <1>0, <1>2, AppendKeeps DEF AtRest, To
  <2>2. \A i \in DOMAIN tx[c] :
          LastStop(tx[c], m, i) => i \in DOMAIN tx'[c] /\ LastStop(tx'[c], m, i)
    BY <1>0, <1>2, AppendKeeps DEF To, LastStop
  <2>. QED
    BY <1>0, <2>1, <2>2 DEF StoppedOnce, StoppedTwice
<1>3. CASE /\ tx[c] # <<>>
           /\ tx'[c] = Tail(tx[c])
           /\ \/ drive'[m] = drive[m]
              \/ To(Head(tx[c]), "STOP", m) /\ drive'[m] = "reset"
              \/ To(Head(tx[c]), "ENABLE", m)
           /\ To(Head(tx[c]), "STOP", m) => drive'[m] = "reset" \/ OneMoreLost(m)
  <2>1. AtRest(c, m) => AtRest(c, m)'
    <3>1. Head(tx[c]) = tx[c][1] /\ 1 \in DOMAIN tx[c]
      BY <1>0, <1>3
    <3>. QED
      BY <1>0, <1>3, <3>1, TailKeeps DEF AtRest, NoEnable
  <2>2. LastStop(tx[c], m, 1) => AtRest(c, m)' \/ OneMoreLost(m)
    BY <1>0, <1>3, TailKeeps DEF AtRest
  <2>3. \A i \in DOMAIN tx[c] : LastStop(tx[c], m, i) =>
          i = 1 \/ (i > 1 /\ i - 1 \in DOMAIN tx'[c] /\ LastStop(tx'[c], m, i - 1))
    <3>. SUFFICES ASSUME NEW i \in DOMAIN tx[c], LastStop(tx[c], m, i), i # 1
                  PROVE  i > 1 /\ i - 1 \in DOMAIN Tail(tx[c]) /\ LastStop(Tail(tx[c]), m, i - 1)
      BY <1>3
    <3>1. i > 1
      BY <1>0
    <3>. QED
      BY <1>0, <1>3, <3>1, TailKeeps
  <2>4. StoppedOnce(c, m) => StoppedOnce(c, m)'
    BY <1>0, <2>1, <2>2, <2>3 DEF StoppedOnce, OneMoreLost
  <2>5. ASSUME StoppedTwice(c, m) PROVE StoppedTwice(c, m)'
    <3>1. CASE AtRest(c, m) \/ lostStops[m] >= 2
      BY <1>0, <2>1, <3>1 DEF StoppedTwice
    <3>2. ASSUME lostStops[m] >= 1, NEW i \in DOMAIN tx[c], LastStop(tx[c], m, i)
          PROVE  StoppedTwice(c, m)'
      BY <1>0, <2>2, <2>3, <3>2 DEF StoppedTwice, OneMoreLost
    <3>3. ASSUME NEW i \in DOMAIN tx[c], NEW j \in DOMAIN tx[c], i < j,
                 LastStop(tx[c], m, i), LastStop(tx[c], m, j)
          PROVE  StoppedTwice(c, m)'
      <4>1. i \in Int /\ j \in Int
        BY <1>0
      <4>2. CASE i = 1
        BY <1>0, <2>2, <2>3, <3>3, <4>1, <4>2 DEF StoppedTwice, OneMoreLost
      <4>3. CASE i # 1
        <5>1. /\ i - 1 \in DOMAIN tx'[c] /\ LastStop(tx'[c], m, i - 1)
              /\ j - 1 \in DOMAIN tx'[c] /\ LastStop(tx'[c], m, j - 1)
              /\ i - 1 < j - 1
          BY <2>3, <3>3, <4>1, <4>3
        <5>. QED
          BY <5>1 DEF StoppedTwice
      <4>. QED
        BY <4>2, <4>3
    <3>. QED
      BY <2>5, <3>1, <3>2, <3>3 DEF StoppedTwice
  <2>. QED
    BY <2>4, <2>5
<1>. QED
  BY <1>1, <1>2, <1>3 DEF MotorStep

(***************************************************************************)
(* stop() has made its first n - 1 writes: the motor at index k has got    *)
(* those with the numbers 2k - 1 and 2k.                                   *)
(***************************************************************************)
WrittenUpTo(c, n) ==
  \A k \in DOMAIN Bindings[c] :
    /\ 2 * k - 1 < n => StoppedOnce(c, Bindings[c][k])
    /\ 2 * k < n => StoppedTwice(c, Bindings[c][k])

WrittenInv ==
  call.fn = "stop" =>
    /\ call.at = "join" => call.i = 1
    /\ \A c \in Channels : c = call.ch => WrittenUpTo(c, call.i)

\* Not one of those whose motors were enabled and not stopped.
Quiet(c) == ~started[c] /\ c # failed /\ ~(mpc = "starting" /\ mch = c)

SettledInv == \A c \in Channels : Quiet(c) => \A m \in MotorsOf(c) : StoppedTwice(c, m)

\* A STOP that is written counts, whether or not the queue takes it.
LEMMA StopCounts ==
  ASSUME TypeOK, TypeOK', NEW c \in Channels, NEW m \in MotorsOf(c),
         Write(c, Frame("STOP", m, 0)), UNCHANGED drive
  PROVE  /\ StoppedOnce(c, m)'
         /\ StoppedOnce(c, m) => StoppedTwice(c, m)'
<1>. DEFINE f == Frame("STOP", m, 0)
<1>0. /\ tx[c] \in Seq(Frames) /\ Len(tx[c]) \in Nat /\ DOMAIN tx[c] = 1 .. Len(tx[c])
      /\ m \in Motors /\ f \in Frames /\ f.kind = "STOP" /\ f.motor = m
      /\ lostStops[m] \in 0 .. 2 /\ lostStops'[m] \in 0 .. 2 /\ MotorType
  <2>1. m \in Motors
    BY Config
  <2>2. f \in Frames /\ f.kind = "STOP" /\ f.motor = m
    BY <2>1, FrameType, Bounds
  <2>. QED
    BY <2>1, <2>2 DEF TypeOK, MotorType, BusType
<1>. HIDE DEF f
<1>1. CASE tx' = [tx EXCEPT ![c] = Append(@, f)] /\ UNCHANGED lostStops
  <2>1. tx'[c] = Append(tx[c], f)
    BY <1>1 DEF TypeOK, BusType
  <2>2. AtRest(c, m) => AtRest(c, m)'
    BY <1>0, <2>1, AppendKeeps DEF AtRest, To
  <2>3. \A i \in DOMAIN tx[c] : LastStop(tx[c], m, i) =>
          LastStop(tx'[c], m, i) /\ i \in DOMAIN tx'[c] /\ i < Len(tx[c]) + 1
    BY <1>0, <2>1, AppendKeeps DEF To, LastStop
  <2>4. Len(tx[c]) + 1 \in DOMAIN tx'[c] /\ LastStop(tx'[c], m, Len(tx[c]) + 1)
    BY <1>0, <2>1 DEF LastStop, To
  <2>5. StoppedOnce(c, m)'
    BY <2>4 DEF StoppedOnce
  <2>6. ASSUME StoppedOnce(c, m) PROVE StoppedTwice(c, m)'
    <3>1. CASE AtRest(c, m)
      BY <2>2, <3>1 DEF StoppedTwice
    <3>2. CASE lostStops[m] >= 1
      BY <1>1, <2>4, <3>2 DEF StoppedTwice
    <3>3. CASE \E i \in DOMAIN tx[c] : LastStop(tx[c], m, i)
      BY <2>3, <2>4, <3>3 DEF StoppedTwice
    <3>. QED
      BY <2>6, <3>1, <3>2, <3>3 DEF StoppedOnce
  <2>. QED
    BY <2>5, <2>6
<1>2. CASE UNCHANGED tx /\ Missed(f)
  <2>1. OneMoreLost(m)
    BY <1>0, <1>2, MissedCounts DEF To
  <2>2. lostStops'[m] >= 1 /\ (lostStops[m] >= 1 => lostStops'[m] >= 2)
    BY <1>0, <2>1 DEF OneMoreLost
  <2>. QED
    BY <1>2, <2>2 DEF StoppedOnce, StoppedTwice, AtRest
<1>. QED
  BY <1>1, <1>2 DEF Write, f

\* One round of stop()'s loops.
LEMMA StopAdds ==
  ASSUME TypeOK, TypeOK', TxInv, Stop, NEW c \in Channels, c = call.ch,
         NEW n \in Nat, n = call.i, WrittenUpTo(c, n)
  PROVE  WrittenUpTo(c, n + 1)'
<1>0. /\ call.at = "stop" /\ n \in 1 .. 2 * Len(Bindings[c])
      /\ DOMAIN Bindings[c] = 1 .. Len(Bindings[c]) /\ Len(Bindings[c]) \in Nat
  BY Config DEF Stop, TypeOK, CallType, NoCall
<1>1. PICK h \in DOMAIN Bindings[c] : h = (n + 1) \div 2
  BY <1>0
<1>2. [Next]_vars
  BY DEF Next, CallStep
<1>3. \A k \in DOMAIN Bindings[c] : Bindings[c][k] \in MotorsOf(c)
  BY DEF MotorsOf
<1>4. ASSUME NEW k \in DOMAIN Bindings[c]
      PROVE  /\ StoppedOnce(c, Bindings[c][k]) => StoppedOnce(c, Bindings[c][k])'
             /\ StoppedTwice(c, Bindings[c][k]) => StoppedTwice(c, Bindings[c][k])'
  BY <1>0, <1>2, <1>3, MotorSteps, StopsStay
<1>5. /\ StoppedOnce(c, Bindings[c][h])'
      /\ StoppedOnce(c, Bindings[c][h]) => StoppedTwice(c, Bindings[c][h])'
  <2>1. Write(c, Frame("STOP", Bindings[c][h], 0)) /\ UNCHANGED drive
    BY <1>1 DEF Stop, motorVars
  <2>. QED
    BY <1>3, <2>1, StopCounts
<1>6. ASSUME NEW k \in DOMAIN Bindings[c], 2 * k - 1 < n + 1
      PROVE  StoppedOnce(c, Bindings[c][k])'
  <2>1. 2 * k - 1 < n \/ k = h
    BY <1>0, <1>1, <1>6
  <2>. QED
    BY <1>4, <1>5, <2>1 DEF WrittenUpTo
<1>7. ASSUME NEW k \in DOMAIN Bindings[c], 2 * k < n + 1
      PROVE  StoppedTwice(c, Bindings[c][k])'
  <2>1. 2 * k < n \/ (k = h /\ 2 * k - 1 < n)
    BY <1>0, <1>1, <1>7
  <2>. QED
    BY <1>4, <1>5, <2>1 DEF WrittenUpTo
<1>. QED
  BY <1>6, <1>7 DEF WrittenUpTo

\* What stop() has written stays written, whatever the threads and the bus do.
LEMMA WrittenStep ==
  ASSUME TypeOK, TypeOK', TxInv, [Next]_vars, WrittenInv
  PROVE  WrittenInv'
<1>0. CallType
  BY DEF TypeOK
<1>1. CASE UNCHANGED call
  <2>. SUFFICES ASSUME call.fn = "stop", NEW c \in Channels, c = call.ch
                PROVE  WrittenUpTo(c, call.i)'
    BY <1>1 DEF WrittenInv
  <2>1. call.at # "enable" /\ WrittenUpTo(c, call.i)
    BY <1>0 DEF CallType, NoCall, WrittenInv
  <2>2. \A k \in DOMAIN Bindings[c] : Bindings[c][k] \in MotorsOf(c)
    BY DEF MotorsOf
  <2>3. ASSUME NEW k \in DOMAIN Bindings[c]
        PROVE  /\ StoppedOnce(c, Bindings[c][k]) => StoppedOnce(c, Bindings[c][k])'
               /\ StoppedTwice(c, Bindings[c][k]) => StoppedTwice(c, Bindings[c][k])'
    BY <2>1, <2>2, MotorSteps, StopsStay
  <2>. QED
    BY <1>1, <2>1, <2>3 DEF WrittenUpTo
<1>2. CASE \E c \in Channels : BeginStop(c)
  <2>1. call'.fn = "stop" /\ call'.at = "join" /\ call'.i = 1
    BY <1>2 DEF BeginStop
  <2>2. \A c \in Channels : \A k \in DOMAIN Bindings[c] : ~(2 * k - 1 < 1) /\ ~(2 * k < 1)
    BY Config
  <2>. QED
    BY <2>1, <2>2 DEF WrittenInv, WrittenUpTo
<1>3. CASE Join
  <2>1. call \in [fn : {"stop"}, ch : Channels, at : {"join", "stop"}, i : Nat] /\ call.at = "join"
    BY <1>0, <1>3 DEF CallType, NoCall, Join
  <2>2. call'.i = 1
    BY <1>3, <2>1 DEF Join, WrittenInv
  <2>3. call'.at = "stop"
    BY <1>3, <2>1 DEF Join
  <2>4. \A c \in Channels : \A k \in DOMAIN Bindings[c] : ~(2 * k - 1 < 1) /\ ~(2 * k < 1)
    BY Config
  <2>. QED
    BY <2>2, <2>3, <2>4 DEF WrittenInv, WrittenUpTo
<1>4. CASE Stop
  <2>1. call \in [fn : {"stop"}, ch : Channels, at : {"join", "stop"}, i : Nat]
    BY <1>0, <1>4 DEF CallType, NoCall, Stop
  <2>2. CASE call' = NoCall
    BY <2>2 DEF WrittenInv, NoCall
  <2>3. CASE call' = [call EXCEPT !.i = @ + 1]
    <3>1. call'.at = call.at /\ call.at = "stop" /\ call'.ch = call.ch /\ call'.i = call.i + 1
      BY <1>4, <2>1, <2>3 DEF Stop
    <3>. SUFFICES ASSUME NEW c \in Channels, c = call.ch PROVE WrittenUpTo(c, call.i)'
      BY <3>1 DEF WrittenInv
    <3>2. PICK n \in Nat : n = call.i
      BY <2>1
    <3>3. WrittenUpTo(c, n)
      BY <2>1, <3>2 DEF WrittenInv
    <3>4. WrittenUpTo(c, n + 1)'
      BY <1>4, <3>2, <3>3, StopAdds
    <3>. QED
      BY <3>1, <3>2, <3>4 DEF WrittenUpTo
  <2>. QED
    BY <1>4, <2>2, <2>3 DEF Stop
<1>5. ASSUME call'.fn # "stop" PROVE WrittenInv'
  BY <1>5 DEF WrittenInv
<1>6. CASE Enable \/ CreateThread \/ CreateFails
  <2>1. call \in [fn : {"start"}, ch : Channels, at : {"enable", "create"}, i : Nat]
    BY <1>0, <1>6 DEF CallType, NoCall, Enable, CreateThread, CreateFails
  <2>2. call'.fn # "stop"
    BY <1>6, <2>1 DEF NoCall, Enable, CreateThread, CreateFails
  <2>. QED
    BY <1>5, <2>2
<1>7. ASSUME NEW c \in Channels, BeginStart(c) PROVE call'.fn # "stop"
  BY <1>7 DEF BeginStart
<1>8. \/ UNCHANGED call
      \/ \E c \in Channels : BeginStart(c) \/ BeginStop(c)
      \/ Enable \/ CreateThread \/ CreateFails \/ Join \/ Stop
  BY DEF Next, vars, objectVars, Calls, CallStep, ThreadStep, BusStep, SetShutdown, Test, Load,
     Send, DrainFrame, DrainEnds, Publish, Wake,
     StoreAction, Tick, Deliver, Lose, OtherTraffic, Unplug
<1>. QED
  BY <1>1, <1>2, <1>3, <1>4, <1>5, <1>6, <1>7, <1>8

\* started_ is reset by the last write of stop() only.
LEMMA WhoResets ==
  ASSUME TypeOK, [Next]_vars, NEW c \in Channels, started[c], ~started'[c]
  PROVE  Stop /\ call.ch = c /\ call.i = 2 * Len(Bindings[c])
<1>0. CallType
  BY DEF TypeOK
<1>1. CASE CreateThread
  BY <1>0, <1>1 DEF CreateThread, CallType
<1>2. CASE Stop
  BY <1>0, <1>2 DEF Stop, CallType
<1>3. UNCHANGED started \/ CreateThread \/ Stop
  BY DEF Next, vars, objectVars, Calls, CallStep, ThreadStep, BusStep, SetShutdown, Test, Load,
     Send, DrainFrame, DrainEnds, Publish, Wake, BeginStart, BeginStop, Enable, CreateFails, Join,
     StoreAction, Tick, Deliver, Lose, OtherTraffic, Unplug
<1>. QED
  BY <1>1, <1>2, <1>3

\* How main() leaves start(), and when failed changes.
LEMMA WhoFails ==
  ASSUME [FNext]_fvars
  PROVE  /\ failed' # failed => mpc = "starting" /\ failed' = mch
         /\ mpc = "starting" =>
              \/ UNCHANGED <<mpc, mch>>
              \/ started[mch] /\ UNCHANGED started
              \/ failed' = mch
  BY DEF FNext, fvars, mainVars, vars, objectVars, MainStep, At, GoTo, OpenChannel, OpenFails,
     Share, StoreHold, StartThread, Started, StartFailed, MonitorEnds, StopThread, Stopped,
     Destroy, Signal

LEMMA SettledStep ==
  ASSUME Base, Base', MainType, PlaceInv, WrittenInv, SettledInv, [FNext]_fvars
  PROVE  SettledInv'
<1>. SUFFICES ASSUME NEW c \in Channels, Quiet(c)' PROVE \A m \in MotorsOf(c) : StoppedTwice(c, m)'
  BY DEF SettledInv
<1>0. TypeOK /\ TypeOK' /\ TxInv /\ [Next]_vars /\ CallType
  BY StepImplements DEF Base, TypeOK
<1>1. CASE Quiet(c)
  <2>1. ~(call.at = "enable" /\ call.ch = c)
    <3>1. call.at = "enable" => call.fn = "start"
      BY <1>0 DEF CallType, NoCall
    <3>2. call.at = "enable" => mpc = "starting" /\ call.ch = mch
      BY <3>1 DEF PlaceInv, MainType, Calling, NoCall
    <3>. QED
      BY <1>1, <3>2 DEF Quiet
  <2>. QED
    BY <1>0, <1>1, <2>1, MotorSteps, StopsStay DEF SettledInv
<1>2. CASE started[c]
  <2>1. Stop /\ call.ch = c /\ call.i = 2 * Len(Bindings[c])
    BY <1>0, <1>2, WhoResets DEF Quiet
  <2>2. call.fn = "stop"
    BY <1>0, <2>1 DEF Stop, CallType, NoCall
  <2>3. PICK n \in Nat : n = 2 * Len(Bindings[c])
    BY Config
  <2>4. WrittenUpTo(c, n)
    BY <2>1, <2>2, <2>3 DEF WrittenInv
  <2>5. WrittenUpTo(c, n + 1)'
    BY <1>0, <2>1, <2>3, <2>4, StopAdds
  <2>6. \A k \in DOMAIN Bindings[c] : 2 * k < n + 1
    BY <2>3, Config
  <2>. QED
    BY <2>5, <2>6 DEF WrittenUpTo, MotorsOf
<1>3. CASE c = failed
  BY <1>3, ChannelsAre, WhoFails DEF PlaceInv, Quiet, Channels
<1>4. CASE mpc = "starting" /\ mch = c
  BY <1>2, <1>4, WhoFails DEF Quiet
<1>. QED
  BY <1>1, <1>2, <1>3, <1>4 DEF Quiet

(***************************************************************************)
(* "Safe stop: twice, since one may be missed" (motor_thread.cpp line 73): *)
(* whatever the threads had queued, however long the queues and whichever  *)
(* STOP is refused or lost, one of the two comes through and no ENABLE or  *)
(* restart follows it.                                                     *)
(***************************************************************************)
THEOREM OneStopIsEnough == FSpec => []StopSurvivesOneLoss
<1>1. FInit => WrittenInv /\ SettledInv
  <2>. SUFFICES ASSUME FInit PROVE WrittenInv /\ SettledInv
    OBVIOUS
  <2>1. WrittenInv
    BY DEF FInit, Init, NoCall, WrittenInv
  <2>2. \A c \in Channels : \A m \in MotorsOf(c) : StoppedTwice(c, m)
    BY Config DEF FInit, Init, StoppedTwice, AtRest, NoEnable
  <2>. QED
    BY <2>1, <2>2 DEF SettledInv
<1>2. /\ Base /\ MainType /\ PlaceInv
      /\ (Base /\ MainType /\ PlaceInv)'
      /\ WrittenInv /\ SettledInv /\ [FNext]_fvars
      => WrittenInv' /\ SettledInv'
  BY WrittenStep, SettledStep, StepImplements DEF Base
<1>3. Base /\ PlaceInv /\ SettledInv => StopSurvivesOneLoss
  <2>. SUFFICES ASSUME Base, PlaceInv, SettledInv, At("exit"),
                       NEW c \in Channels \ {failed}, NEW m \in MotorsOf(c),
                       Drained(c), lostStops[m] <= 1
                PROVE  drive[m] = "reset"
    BY DEF StopSurvivesOneLoss
  <2>1. Quiet(c)
    BY DEF Quiet, PlaceInv, NoneStarted, At
  <2>2. StoppedTwice(c, m)
    BY <2>1 DEF SettledInv
  <2>3. lostStops[m] \in 0 .. 2
    BY Config DEF Base, TypeOK, MotorType
  <2>. QED
    BY <2>2, <2>3 DEF StoppedTwice, AtRest, Drained
<1>. QED
  BY <1>1, <1>2, <1>3, PlaceInvariant, PTL DEF FSpec
=============================================================================
