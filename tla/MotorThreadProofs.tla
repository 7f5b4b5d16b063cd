-------------------------- MODULE MotorThreadProofs --------------------------
(***************************************************************************)
(* Proofs about MotorThread, for any number of channels and motors, any    *)
(* queues, limits and number of actions, faults and restarts.              *)
(***************************************************************************)
EXTENDS MotorThread, TLAPS

-----------------------------------------------------------------------------
(***************************************************************************)
(* The order of the steps of start() and stop(): a STOP is queued only     *)
(* when shutdown is set for good and the channel's thread is joined, so    *)
(* that a thread started later ends at its first test.                     *)
(***************************************************************************)
CallInv ==
  /\ call.fn = "start" => ~started[call.ch]
  /\ call.fn = "stop" => shutdown /\ started[call.ch]
  /\ call.at = "stop" => tpc[call.ch] = "none"
  /\ \A c \in Channels : ~started[c] => tpc[c] = "none"

QueuedStop(c) == \E i \in DOMAIN tx[c] : tx[c][i].kind = "STOP"

StopInv ==
  \A c \in Channels :
    QueuedStop(c) => shutdown /\ tpc[c] \in {"none", "test", "exited"}

\* No command of a channel, to whatever motor, is queued behind a STOP.
StopsLast ==
  \A c \in Channels : \A i, j \in DOMAIN tx[c] :
    i < j /\ tx[c][i].kind = "STOP" => tx[c][j].kind # "MIT"

OrderInv == CallInv /\ StopInv /\ StopsLast

(***************************************************************************)
(* stop() joins a thread that exists, was joined by no other stop(), and   *)
(* is told to end: pthread_join() of any other would be undefined, or wait *)
(* for ever (motor_thread.cpp lines 66-79, the early returns on started_). *)
(***************************************************************************)
JoinHasThread ==
  call.at = "join" => shutdown /\ tpc[call.ch] # "none"

\* A started object has a thread, until its stop() has joined it.
ThreadInv ==
  /\ JoinHasThread
  /\ \A c \in Channels :
       started[c] => tpc[c] # "none" \/ (call.at = "stop" /\ call.ch = c)

\* Frames stay on the channel of their motor.
TxInv == \A c \in Channels : \A i \in DOMAIN tx[c] : tx[c][i].motor \in MotorsOf(c)

RxInv ==
  \A c \in Channels : \A i \in DOMAIN rx[c] :
    rx[c][i].kind = "FEEDBACK" => rx[c][i].motor \in MotorsOf(c)

\* What is kept of a motor's feedback is its own, or nothing and too old.
FbInv ==
  \A m \in Motors : fb[m].src = m \/ fb[m] = [src |-> NoMotor, age |-> Timeout]

RouteInv == TxInv /\ RxInv /\ FbInv /\ FeedbackIsOwn

(***************************************************************************)
(* The numbers of the actions a channel's commands carry never decrease,   *)
(* from what its motors execute through the transmit queue to the snapshot *)
(* a thread is sending, and none is newer than the stored action.          *)
(***************************************************************************)
MitsOf(c) == {i \in DOMAIN tx[c] : tx[c][i].kind = "MIT"}

QueueInv(c) ==
  \A i \in MitsOf(c) :
    /\ tx[c][i].act <= action
    /\ \A m \in MotorsOf(c) : cmd[m] <= tx[c][i].act
    /\ \A j \in MitsOf(c) : i < j => tx[c][i].act <= tx[c][j].act

SendInv(c) ==
  tpc[c] = "send" =>
    /\ act[c] <= action
    /\ \A m \in MotorsOf(c) : cmd[m] <= act[c]
    /\ \A i \in MitsOf(c) : tx[c][i].act <= act[c]

CmdInv == \A m \in Motors : cmd[m] <= action

AgeInv == CmdInv /\ \A c \in Channels : QueueInv(c) /\ SendInv(c)

-----------------------------------------------------------------------------
\* What the motor map gives: channels, each with at least one motor.
LEMMA Config ==
  /\ Channels \subseteq Int
  /\ \A c \in Channels :
       /\ Bindings[c] \in Seq(Motors)
       /\ Len(Bindings[c]) \in Nat \ {0}
       /\ DOMAIN Bindings[c] = 1 .. Len(Bindings[c])
       /\ MotorsOf(c) \subseteq Motors
  BY ConfigAssumption DEF Channels, MotorsOf

\* The limits, and the values the counters begin with.
LEMMA Bounds ==
  /\ MaxFrames \in Nat \ {0} /\ Timeout \in Nat \ {0}
  /\ MaxActions \in Nat /\ MaxFaults \in Nat
  /\ 0 \in 0 .. MaxActions /\ 0 \in 0 .. MaxFaults
  /\ 0 \in 0 .. MaxFrames /\ Timeout \in 0 .. Timeout
  BY BoundAssumption

\* A frame of enable(), stop() or send_mit_command() is a frame.
LEMMA FrameType ==
  ASSUME NEW kind \in {"ENABLE", "STOP", "MIT"}, NEW m \in Motors,
         NEW a \in 0 .. MaxActions
  PROVE  /\ Frame(kind, m, a) \in Frames
         /\ Frame(kind, m, a).kind = kind
         /\ Frame(kind, m, a).motor = m
         /\ Frame(kind, m, a).act = a
  BY DEF Frame, Frames

\* The count of a motor's missed STOPs stays at two.
LEMMA MissedType ==
  ASSUME MotorType, NEW f \in Frames, Missed(f)
  PROVE  lostStops' \in [Motors -> 0 .. 2]
<1>1. f.motor \in Motors
  BY DEF Frames
<1>2. lostStops[f.motor] < 2 => lostStops[f.motor] + 1 \in 0 .. 2
  BY <1>1 DEF MotorType
<1>. QED
  BY <1>1, <1>2 DEF MotorType, Missed

\* What a write leaves in the queues.
LEMMA WriteType ==
  ASSUME BusType, MotorType, NEW c \in Channels, NEW f \in Frames, Write(c, f)
  PROVE  /\ tx' \in [Channels -> Seq(Frames)]
         /\ lostStops' \in [Motors -> 0 .. 2]
<1>1. CASE tx' = [tx EXCEPT ![c] = Append(@, f)] /\ UNCHANGED lostStops
  <2>1. Append(tx[c], f) \in Seq(Frames)
    BY DEF BusType
  <2>. QED
    BY <1>1, <2>1 DEF BusType, MotorType
<1>2. CASE UNCHANGED tx /\ Missed(f)
  BY <1>2, MissedType DEF BusType
<1>. QED
  BY <1>1, <1>2 DEF Write

\* A frame that arrives leaves the receive queue a queue of replies.
LEMMA ReceiveType ==
  ASSUME BusType, NEW c \in Channels, NEW f \in Replies, Receive(c, f)
  PROVE  rx' \in [Channels -> Seq(Replies)]
<1>1. Append(rx[c], f) \in Seq(Replies)
  BY DEF BusType
<1>. QED
  BY <1>1 DEF BusType, Receive

\* Feedback is stored with the first motor it matches, one of the channel's.
LEMMA OfferType ==
  ASSUME ThreadType, NEW c \in Channels, NEW f \in Replies, Offer(c, f)
  PROVE  fb' \in [Motors -> [src : Motors \cup {NoMotor}, age : 0 .. Timeout]]
<1>1. CASE Matches(c, f) = {}
  BY <1>1 DEF Offer, ThreadType
<1>2. CASE Matches(c, f) # {}
  <2>1. f.motor \in Motors
    BY <1>2 DEF Matches, Replies, Other
  <2>2. [src |-> f.motor, age |-> 0] \in [src : Motors \cup {NoMotor}, age : 0 .. Timeout]
    BY <2>1, Bounds
  <2>. QED
    BY <1>2, <2>2 DEF Offer, ThreadType
<1>. QED
  BY <1>1, <1>2

\* The frames the three writers hand to write_extended().
LEMMA EnableWrites ==
  ASSUME CallType, Enable
  PROVE  /\ call.ch \in Channels
         /\ Bindings[call.ch][call.i] \in MotorsOf(call.ch)
         /\ Frame("ENABLE", Bindings[call.ch][call.i], 0) \in Frames
<1>1. call.ch \in Channels /\ call.i \in DOMAIN Bindings[call.ch]
  BY DEF CallType, Enable, NoCall
<1>2. Bindings[call.ch][call.i] \in MotorsOf(call.ch)
  BY <1>1 DEF MotorsOf
<1>3. Bindings[call.ch][call.i] \in Motors
  BY <1>1, <1>2, Config
<1>. QED
  BY <1>1, <1>2, <1>3, FrameType, Bounds

\* stop() goes through the channel's motors twice: its index, halved, is one
\* of theirs.
LEMMA StopWrites ==
  ASSUME CallType, Stop
  PROVE  LET m == Bindings[call.ch][(call.i + 1) \div 2]
         IN /\ call.ch \in Channels
            /\ m \in MotorsOf(call.ch)
            /\ Frame("STOP", m, 0) \in Frames
<1>1. call.ch \in Channels /\ call.i \in 1 .. 2 * Len(Bindings[call.ch])
  BY DEF CallType, Stop, NoCall
<1>2. (call.i + 1) \div 2 \in 1 .. Len(Bindings[call.ch])
  BY <1>1, Config
<1>3. Bindings[call.ch][(call.i + 1) \div 2] \in MotorsOf(call.ch)
  BY <1>1, <1>2, Config DEF MotorsOf
<1>4. Bindings[call.ch][(call.i + 1) \div 2] \in Motors
  BY <1>1, <1>3, Config
<1>. QED
  BY <1>1, <1>3, <1>4, FrameType, Bounds

\* send_commands() writes to a motor of its channel, an action that was stored.
LEMMA SendWrites ==
  ASSUME ThreadType, NEW c \in Channels
  PROVE  /\ Bindings[c][next[c]] \in MotorsOf(c)
         /\ Frame("MIT", Bindings[c][next[c]], act[c]) \in Frames
<1>1. Bindings[c][next[c]] \in MotorsOf(c) /\ act[c] \in 0 .. MaxActions
  BY DEF ThreadType, MotorsOf
<1>. QED
  BY <1>1, Config, FrameType

\* The constructed objects, before the first start().
THEOREM InitType == Init => TypeOK
<1>. SUFFICES ASSUME Init PROVE TypeOK
  OBVIOUS
<1>2. SharedType
  BY Bounds DEF Init, SharedType
<1>3. CallType
  BY DEF Init, CallType, NoCall
<1>4. ThreadType
  BY Bounds, Config DEF Init, ThreadType
<1>5. BusType
  BY DEF Init, BusType
<1>6. MotorType
  BY Bounds DEF Init, MotorType
<1>. QED
  BY <1>2, <1>3, <1>4, <1>5, <1>6 DEF TypeOK

-----------------------------------------------------------------------------
(***************************************************************************)
(* Each part of TypeOK over one step.  What an action leaves alone it      *)
(* names in UNCHANGED, so that a part is lost only by its own writers.     *)
(***************************************************************************)
\* shutdown, the action and the channel slots keep their types.
LEMMA SharedStep == TypeOK /\ [Next]_vars => SharedType'
<1>. SUFFICES ASSUME TypeOK, [Next]_vars PROVE SharedType'
  OBVIOUS
<1>. USE DEF SharedType
<1>0. SharedType /\ ThreadType
  BY DEF TypeOK
<1>1. CASE UNCHANGED sharedVars
  BY <1>0, <1>1 DEF sharedVars
<1>2. CASE (\E c \in Channels : BeginStop(c)) \/ SetShutdown
  BY <1>0, <1>2 DEF BeginStop, SetShutdown
<1>3. CASE StoreAction
  BY <1>0, <1>3, Bounds DEF StoreAction
<1>4. ASSUME NEW c \in Channels, Publish(c) PROVE SharedType'
  <2>1. \A m \in Motors : fb[m].src \in Motors \cup {NoMotor}
    BY <1>0 DEF ThreadType
  <2>. QED
    BY <1>0, <1>4, <2>1 DEF Publish
<1>5. \/ UNCHANGED sharedVars
      \/ (\E c \in Channels : BeginStop(c)) \/ SetShutdown
      \/ StoreAction
      \/ \E c \in Channels : Publish(c)
  BY DEF Next, vars, sharedVars, Calls, CallStep, ThreadStep, BusStep, BeginStart, Enable, CreateThread,
     CreateFails, Join, Stop, Test, Load, Send, DrainFrame, DrainEnds, Wake,
     Tick, Deliver, Lose, OtherTraffic, Unplug
<1>. QED
  BY <1>1, <1>2, <1>3, <1>4, <1>5

\* start() and stop() keep their loop index among the channel's motors.
LEMMA CallTypeStep == TypeOK /\ [Next]_vars => CallType'
<1>. SUFFICES ASSUME TypeOK, [Next]_vars PROVE CallType'
  OBVIOUS
<1>. USE DEF CallType
<1>0. CallType
  BY DEF TypeOK
<1>1. CASE UNCHANGED objectVars
  BY <1>0, <1>1 DEF objectVars
<1>2. ASSUME NEW c \in Channels, BeginStart(c) PROVE CallType'
  BY <1>0, <1>2, Config DEF BeginStart
<1>3. CASE Enable
  <2>1. /\ call \in [fn : {"start"}, ch : Channels, at : {"enable", "create"}, i : Nat]
        /\ call.i \in 1 .. Len(Bindings[call.ch])
    BY <1>0, <1>3, Config DEF Enable, NoCall
  <2>2. CASE call.i < Len(Bindings[call.ch]) /\ call' = [call EXCEPT !.i = @ + 1]
    BY <1>0, <1>3, <2>1, <2>2, Config DEF Enable
  <2>3. CASE call' = [call EXCEPT !.at = "create"]
    BY <1>0, <1>3, <2>1, <2>3 DEF Enable
  <2>. QED
    BY <1>3, <2>2, <2>3 DEF Enable
<1>4. CASE CreateThread \/ CreateFails
  <2>1. call \in [fn : {"start"}, ch : Channels, at : {"enable", "create"}, i : Nat]
    BY <1>0, <1>4 DEF CreateThread, CreateFails, NoCall
  <2>2. started' \in [Channels -> BOOLEAN] /\ call' = NoCall
    BY <1>0, <1>4, <2>1 DEF CreateThread, CreateFails
  <2>. QED
    BY <2>2 DEF NoCall
<1>5. ASSUME NEW c \in Channels, BeginStop(c) PROVE CallType'
  BY <1>0, <1>5, Config DEF BeginStop
<1>6. CASE Join
  <2>1. call \in [fn : {"stop"}, ch : Channels, at : {"join", "stop"}, i : Nat]
    BY <1>0, <1>6 DEF Join, NoCall
  <2>2. /\ call' = [call EXCEPT !.at = "stop"]
        /\ UNCHANGED started
    BY <1>6 DEF Join
  <2>. QED
    BY <1>0, <2>1, <2>2
<1>7. CASE Stop
  <2>1. /\ call \in [fn : {"stop"}, ch : Channels, at : {"join", "stop"}, i : Nat]
        /\ call.i \in 1 .. 2 * Len(Bindings[call.ch])
    BY <1>0, <1>7 DEF Stop, NoCall
  <2>2. started' \in [Channels -> BOOLEAN]
    BY <1>0, <1>7, <2>1 DEF Stop
  <2>3. CASE call.i # 2 * Len(Bindings[call.ch]) /\ call' = [call EXCEPT !.i = @ + 1]
    <3>1. call.i + 1 \in 1 .. 2 * Len(Bindings[call.ch])
      BY <2>1, <2>3, Config
    <3>2. /\ call' \in [fn : {"stop"}, ch : Channels, at : {"join", "stop"}, i : Nat]
          /\ call'.i = call.i + 1 /\ call'.ch = call.ch
      BY <2>1, <2>3
    <3>. QED
      BY <2>2, <2>3, <3>1, <3>2
  <2>4. CASE call' = NoCall
    BY <2>2, <2>4 DEF NoCall
  <2>. QED
    BY <1>7, <2>3, <2>4 DEF Stop
<1>8. \/ UNCHANGED objectVars
      \/ \E c \in Channels : BeginStart(c) \/ BeginStop(c)
      \/ Enable \/ CreateThread \/ CreateFails \/ Join \/ Stop
  BY DEF Next, vars, objectVars, Calls, CallStep, ThreadStep, BusStep, SetShutdown, Test, Load,
     Send, DrainFrame, DrainEnds, Publish, Wake,
     StoreAction, Tick, Deliver, Lose, OtherTraffic, Unplug
<1>. QED
  BY <1>1, <1>2, <1>3, <1>4, <1>5, <1>6, <1>7, <1>8

\* run() keeps next among the channel's motors and count below its limit.
LEMMA ThreadTypeStep == TypeOK /\ [Next]_vars => ThreadType'
<1>. SUFFICES ASSUME TypeOK, [Next]_vars PROVE ThreadType'
  OBVIOUS
<1>. USE DEF ThreadType
<1>0. ThreadType /\ action \in 0 .. MaxActions
  BY DEF TypeOK, SharedType
<1>1. CASE UNCHANGED threadVars
  BY <1>0, <1>1 DEF threadVars
<1>2. CASE CreateThread \/ Join
  BY <1>0, <1>2 DEF CreateThread, Join
<1>3. ASSUME NEW c \in Channels, Test(c) \/ Load(c) \/ Publish(c) \/ Wake(c)
      PROVE  ThreadType'
  <2>1. CASE Load(c)
    BY <1>0, <2>1 DEF Load
  <2>2. CASE Test(c) \/ Publish(c) \/ Wake(c)
    BY <1>0, <2>2 DEF Test, Publish, Wake
  <2>. QED
    BY <1>3, <2>1, <2>2
<1>4. ASSUME NEW c \in Channels, Send(c) PROVE ThreadType'
  <2>1. next[c] \in 1 .. Len(Bindings[c])
    BY <1>0, Config
  <2>2. CASE next[c] = Len(Bindings[c])
    <3>1. /\ tpc' = [tpc EXCEPT ![c] = "drain"]
          /\ next' = [next EXCEPT ![c] = 1]
          /\ act' = [act EXCEPT ![c] = 0]
          /\ UNCHANGED <<count, fb>>
      BY <1>4, <2>2 DEF Send
    <3>2. 1 \in DOMAIN Bindings[c] /\ 0 \in 0 .. MaxActions
      BY Config, Bounds
    <3>. QED
      BY <1>0, <3>1, <3>2
  <2>3. CASE next[c] # Len(Bindings[c])
    <3>1. next' = [next EXCEPT ![c] = @ + 1] /\ UNCHANGED <<tpc, act, count, fb>>
      BY <1>4, <2>3 DEF Send
    <3>2. next[c] + 1 \in Nat /\ next[c] + 1 \in DOMAIN Bindings[c]
      BY <2>1, <2>3, Config
    <3>. QED
      BY <1>0, <3>1, <3>2
  <2>. QED
    BY <2>2, <2>3
<1>5. ASSUME NEW c \in Channels, DrainFrame(c) PROVE ThreadType'
  <2>1. Head(rx[c]) \in Replies
    BY <1>5 DEF DrainFrame, TypeOK, BusType
  <2>2. CASE count[c] >= MaxFrames
    <3>1. /\ tpc' = [tpc EXCEPT ![c] = "publish"]
          /\ count' = [count EXCEPT ![c] = 0]
          /\ UNCHANGED <<next, act, fb>>
      BY <1>0, <1>5, <2>2, Bounds DEF DrainFrame
    <3>. QED
      BY <1>0, <3>1, Bounds
  <2>3. CASE count[c] < MaxFrames
    <3>1. Offer(c, Head(rx[c])) /\ count' = [count EXCEPT ![c] = @ + 1] /\ UNCHANGED <<tpc, next, act>>
      BY <1>5, <2>3, Bounds, <1>0 DEF DrainFrame
    <3>2. count' \in [Channels -> 0 .. MaxFrames]
      BY <1>0, <2>3, <3>1, Bounds
    <3>3. fb' \in [Motors -> [src : Motors \cup {NoMotor}, age : 0 .. Timeout]]
      BY <1>0, <2>1, <3>1, OfferType
    <3>. QED
      BY <1>0, <3>1, <3>2, <3>3
  <2>. QED
    BY <1>0, <2>2, <2>3, Bounds
<1>6. ASSUME NEW c \in Channels, DrainEnds(c) PROVE ThreadType'
  BY <1>0, <1>6, Bounds DEF DrainEnds
<1>7. ASSUME NEW c \in Channels, Tick(c) PROVE ThreadType'
  <2>1. \A m \in Motors : fb[m].age < Timeout => fb[m].age + 1 \in 0 .. Timeout
    BY <1>0, Bounds
  <2>. QED
    BY <1>0, <1>7, <2>1 DEF Tick
<1>8. \/ UNCHANGED threadVars
      \/ CreateThread \/ Join
      \/ \E c \in Channels : Test(c) \/ Load(c) \/ Send(c) \/ DrainFrame(c)
                               \/ DrainEnds(c) \/ Publish(c) \/ Wake(c) \/ Tick(c)
  BY DEF Next, vars, threadVars, Calls, CallStep, ThreadStep, BusStep, SetShutdown,
     BeginStart, Enable, CreateFails, BeginStop, Stop, StoreAction, Deliver, Lose,
     OtherTraffic, Unplug
<1>. QED
  BY <1>1, <1>2, <1>3, <1>4, <1>5, <1>6, <1>7, <1>8

\* Whatever is written, received or lost, the queues hold frames and replies.
LEMMA BusTypeStep == TypeOK /\ [Next]_vars => BusType'
<1>. SUFFICES ASSUME TypeOK, [Next]_vars PROVE BusType'
  OBVIOUS
<1>0. BusType /\ MotorType /\ ThreadType /\ CallType
  BY DEF TypeOK
<1>1. CASE UNCHANGED busVars
  BY <1>0, <1>1 DEF busVars, BusType
<1>2. CASE Enable
  BY <1>0, <1>2, EnableWrites, WriteType DEF Enable, BusType
<1>3. CASE Stop
  BY <1>0, <1>3, StopWrites, WriteType DEF Stop, BusType
<1>4. ASSUME NEW c \in Channels, Send(c) PROVE BusType'
  BY <1>0, <1>4, SendWrites, WriteType DEF Send, BusType
<1>5. ASSUME NEW c \in Channels, DrainFrame(c) PROVE BusType'
  BY <1>0, <1>5 DEF DrainFrame, BusType
<1>6. ASSUME NEW c \in Channels, Deliver(c) PROVE BusType'
  <2>1. tx' \in [Channels -> Seq(Frames)]
    BY <1>0, <1>6 DEF Deliver, BusType
  <2>2. Head(tx[c]).motor \in Motors
    <3>1. Head(tx[c]) \in Frames
      BY <1>0, <1>6 DEF Deliver, BusType
    <3>. QED
      BY <3>1 DEF Frames
  <2>3. ASSUME Receive(c, [kind |-> "FEEDBACK", motor |-> Head(tx[c]).motor])
        PROVE  rx' \in [Channels -> Seq(Replies)]
    BY <1>0, <2>2, <2>3, ReceiveType DEF Replies
  <2>. QED
    BY <1>0, <1>6, <2>1, <2>3 DEF Deliver, BusType
<1>7. ASSUME NEW c \in Channels, Lose(c) PROVE BusType'
  BY <1>0, <1>7 DEF Lose, BusType
<1>8. ASSUME NEW c \in Channels, OtherTraffic(c) PROVE BusType'
  BY <1>0, <1>8, ReceiveType DEF OtherTraffic, BusType, Replies
<1>9. \/ UNCHANGED busVars
      \/ Enable \/ Stop
      \/ \E c \in Channels : Send(c) \/ DrainFrame(c) \/ Deliver(c) \/ Lose(c)
                               \/ OtherTraffic(c)
  BY DEF Next, vars, busVars, Calls, CallStep, ThreadStep, BusStep, SetShutdown,
     BeginStart, CreateThread, CreateFails, BeginStop, Join, Test, Load,
     DrainEnds, Publish, Wake, StoreAction, Tick, Unplug
<1>. QED
  BY <1>1, <1>2, <1>3, <1>4, <1>5, <1>6, <1>7, <1>8, <1>9

\* The motors' states and the history of their STOPs keep their types.
LEMMA MotorTypeStep == TypeOK /\ [Next]_vars => MotorType'
<1>. SUFFICES ASSUME TypeOK, [Next]_vars PROVE MotorType'
  OBVIOUS
<1>0. BusType /\ MotorType /\ ThreadType /\ CallType
  BY DEF TypeOK
<1>1. CASE UNCHANGED <<motorVars, faults, lostStops>>
  BY <1>0, <1>1 DEF motorVars, MotorType
<1>2. CASE Enable
  BY <1>0, <1>2, EnableWrites, WriteType DEF Enable, MotorType, motorVars
<1>3. CASE Stop
  BY <1>0, <1>3, StopWrites, WriteType DEF Stop, MotorType, motorVars
<1>4. ASSUME NEW c \in Channels, Send(c) PROVE MotorType'
  BY <1>0, <1>4, SendWrites, WriteType DEF Send, MotorType, motorVars
<1>5. ASSUME Fault PROVE faults' \in 0 .. MaxFaults
  BY <1>0, <1>5, Bounds DEF Fault, MotorType
<1>6. ASSUME NEW c \in Channels, CreateFails \/ DrainEnds(c) PROVE MotorType'
  BY <1>0, <1>5, <1>6 DEF CreateFails, DrainEnds, MotorType, motorVars
<1>7. ASSUME NEW c \in Channels, Deliver(c) PROVE MotorType'
  <2>. DEFINE f == Head(tx[c])
  <2>1. f \in Frames
    BY <1>0, <1>7 DEF Deliver, BusType
  <2>2. f.motor \in Motors /\ f.act \in 0 .. MaxActions
    BY <2>1 DEF Frames
  <2>3. CASE plugged[f.motor]
    <3>1. Execute(f) /\ UNCHANGED <<plugged, faults, lostStops>>
      BY <1>7, <2>3 DEF Deliver
    <3>. HIDE DEF f
    <3>. QED
      BY <1>0, <2>2, <3>1 DEF Execute, MotorType
  <2>4. CASE ~plugged[f.motor]
    <3>1. Missed(f) /\ UNCHANGED <<drive, cmd, plugged, faults>>
      BY <1>7, <2>4 DEF Deliver
    <3>. QED
      BY <1>0, <2>1, <3>1, MissedType DEF MotorType
  <2>. QED
    BY <2>3, <2>4
<1>8. ASSUME NEW c \in Channels, Lose(c) PROVE MotorType'
  <2>1. Head(tx[c]) \in Frames
    BY <1>0, <1>8 DEF Lose, BusType
  <2>. QED
    BY <1>0, <1>5, <1>8, <2>1, MissedType DEF Lose, MotorType, motorVars
<1>9. ASSUME NEW m \in Motors, Unplug(m) PROVE MotorType'
  BY <1>0, <1>5, <1>9 DEF Unplug, MotorType
<1>10. \/ UNCHANGED <<motorVars, faults, lostStops>>
       \/ Enable \/ Stop \/ CreateFails
       \/ \E c \in Channels : Send(c) \/ DrainEnds(c) \/ Deliver(c) \/ Lose(c)
       \/ \E m \in Motors : Unplug(m)
  BY DEF Next, vars, Calls, CallStep, ThreadStep, BusStep, SetShutdown,
     BeginStart, CreateThread, BeginStop, Join, Test, Load, DrainFrame,
     Publish, Wake, StoreAction, Tick, OtherTraffic
<1>11. CreateFails => MotorType'
  BY <1>0, <1>5 DEF CreateFails, MotorType, motorVars
<1>. QED
  BY <1>1, <1>2, <1>3, <1>4, <1>6, <1>7, <1>8, <1>9, <1>10, <1>11

\* Whatever the threads, the caller and the bus do, in any order, the loops
\* of start(), stop(), send_commands() and drain_feedback() keep their
\* indices inside the channel's motors and their bounds.
THEOREM TypeCorrect == Spec => []TypeOK
<1>1. TypeOK /\ [Next]_vars => TypeOK'
  BY SharedStep, CallTypeStep, ThreadTypeStep, BusTypeStep, MotorTypeStep DEF TypeOK
<1>. QED
  BY <1>1, InitType, PTL DEF Spec

-----------------------------------------------------------------------------
(***************************************************************************)
(* Who queues what and when, and how a thread gets past its first test:    *)
(* all that NoMitAfterStop needs to know of a step.                        *)
(***************************************************************************)
Queued(c, f) ==
  /\ f.motor \in MotorsOf(c)
  /\ \/ f.kind = "ENABLE"
     \/ f.kind = "MIT" /\ tpc[c] = "send"
     \/ f.kind = "STOP" /\ shutdown /\ tpc[c] = "none"

QueueStep(c) ==
  \/ tx'[c] = tx[c]
  \/ tx[c] # <<>> /\ tx'[c] = Tail(tx[c])
  \/ \E f \in Frames : Queued(c, f) /\ tx'[c] = Append(tx[c], f)

Idle == {"none", "test", "exited"}

PlaceStep(c) ==
  \/ tpc'[c] \in Idle
  \/ tpc[c] \notin Idle
  \/ tpc[c] = "test" /\ ~shutdown

\* All that one step does to a transmit queue: nothing, take its head, or add
\* a frame of the call under way or of the channel's thread.
LEMMA QueueSteps ==
  ASSUME TypeOK, CallInv, [Next]_vars
  PROVE  \A c \in Channels : QueueStep(c)
<1>0. BusType /\ ThreadType /\ CallType
  BY DEF TypeOK
<1>1. CASE UNCHANGED tx
  BY <1>1 DEF QueueStep
<1>2. ASSUME NEW c \in Channels, NEW f \in Frames, Write(c, f), Queued(c, f)
      PROVE  \A d \in Channels : QueueStep(d)
  BY <1>0, <1>2 DEF Write, QueueStep, BusType
<1>3. CASE Enable
  <2>1. /\ Frame("ENABLE", Bindings[call.ch][call.i], 0).kind = "ENABLE"
        /\ Frame("ENABLE", Bindings[call.ch][call.i], 0).motor = Bindings[call.ch][call.i]
    BY DEF Frame
  <2>. QED
    BY <1>0, <1>2, <1>3, <2>1, EnableWrites DEF Enable, Queued
<1>4. CASE Stop
  <2>. DEFINE m == Bindings[call.ch][(call.i + 1) \div 2]
  <2>1. Frame("STOP", m, 0).kind = "STOP" /\ Frame("STOP", m, 0).motor = m
    BY DEF Frame
  <2>2. call.ch \in Channels /\ call.fn = "stop" /\ call.at = "stop"
    BY <1>0, <1>4 DEF CallType, Stop, NoCall
  <2>. QED
    BY <1>0, <1>2, <1>4, <2>1, <2>2, StopWrites DEF Stop, Queued, CallInv
<1>5. ASSUME NEW c \in Channels, Send(c) PROVE \A d \in Channels : QueueStep(d)
  <2>1. /\ Frame("MIT", Bindings[c][next[c]], act[c]).kind = "MIT"
        /\ Frame("MIT", Bindings[c][next[c]], act[c]).motor = Bindings[c][next[c]]
    BY DEF Frame
  <2>. QED
    BY <1>0, <1>2, <1>5, <2>1, SendWrites DEF Send, Queued
<1>6. ASSUME NEW c \in Channels, Deliver(c) \/ Lose(c)
      PROVE  \A d \in Channels : QueueStep(d)
  <2>1. tx[c] # <<>> /\ tx' = [tx EXCEPT ![c] = Tail(@)]
    BY <1>6 DEF Deliver, Lose
  <2>. QED
    BY <1>0, <2>1 DEF QueueStep, BusType
<1>7. \/ UNCHANGED tx
      \/ Enable \/ Stop
      \/ \E c \in Channels : Send(c) \/ Deliver(c) \/ Lose(c)
  BY DEF Next, vars, busVars, Calls, CallStep, ThreadStep, BusStep, SetShutdown,
     BeginStart, CreateThread, CreateFails, BeginStop, Join, Test, Load,
     DrainFrame, DrainEnds, Publish, Wake, StoreAction, Tick, OtherTraffic, Unplug
<1>. QED
  BY <1>1, <1>3, <1>4, <1>5, <1>6, <1>7

\* shutdown is never cleared, and a thread leaves its places outside of the
\* cycle only by a test of shutdown that finds it false.
LEMMA PlaceSteps ==
  ASSUME TypeOK, [Next]_vars
  PROVE  /\ shutdown => shutdown'
         /\ \A c \in Channels : PlaceStep(c)
<1>0. ThreadType /\ CallType
  BY DEF TypeOK
<1>1. CASE UNCHANGED <<tpc, shutdown>>
  BY <1>1 DEF PlaceStep
<1>2. CASE (\E c \in Channels : BeginStop(c)) \/ SetShutdown
  BY <1>2 DEF BeginStop, SetShutdown, threadVars, PlaceStep
<1>3. CASE CreateThread \/ Join
  BY <1>0, <1>3 DEF CreateThread, Join, sharedVars, PlaceStep, Idle, ThreadType
<1>4. ASSUME NEW c \in Channels, ThreadStep(c)
      PROVE  shutdown' = shutdown /\ \A d \in Channels : PlaceStep(d)
  <2>1. shutdown' = shutdown
    BY <1>4 DEF ThreadStep, Test, Load, Send, DrainFrame, DrainEnds, Publish, Wake, sharedVars
  <2>2. tpc[c] \notin Idle \/ Test(c)
    BY <1>4 DEF ThreadStep, Load, Send, DrainFrame, DrainEnds, Publish, Wake, Idle
  <2>3. tpc' = [tpc EXCEPT ![c] = tpc'[c]]
    BY <1>0, <1>4 DEF ThreadStep, Test, Load, Send, DrainFrame, DrainEnds, Publish, Wake, ThreadType
  <2>4. PlaceStep(c)
    BY <1>0, <2>2 DEF Test, PlaceStep, Idle, ThreadType
  <2>. QED
    BY <1>0, <2>1, <2>3, <2>4 DEF PlaceStep, ThreadType, Idle
<1>5. \/ UNCHANGED <<tpc, shutdown>>
      \/ (\E c \in Channels : BeginStop(c)) \/ SetShutdown
      \/ CreateThread \/ Join
      \/ \E c \in Channels : ThreadStep(c)
  BY DEF Next, vars, sharedVars, threadVars, Calls, CallStep, BusStep, BeginStart, Enable,
     CreateFails, Stop, StoreAction, Tick, Deliver, Lose, OtherTraffic, Unplug
<1>. QED
  BY <1>1, <1>2, <1>3, <1>4, <1>5

\* start() and stop() never overlap, and stop() writes after its join.
LEMMA CallInvStep ==
  ASSUME TypeOK, CallInv, [Next]_vars
  PROVE  CallInv'
<1>. USE DEF CallInv
<1>0. ThreadType /\ CallType
  BY DEF TypeOK
<1>1. CASE UNCHANGED <<started, call, tpc>> /\ (shutdown => shutdown')
  BY <1>1
<1>2. ASSUME NEW c \in Channels, BeginStart(c) PROVE CallInv'
  BY <1>2 DEF BeginStart, threadVars
<1>3. CASE Enable
  BY <1>0, <1>3 DEF Enable, CallType, NoCall, sharedVars, threadVars
<1>4. CASE CreateThread
  BY <1>0, <1>4 DEF CreateThread, CallType, ThreadType, NoCall
<1>5. CASE CreateFails
  BY <1>5 DEF CreateFails, NoCall, threadVars
<1>6. ASSUME NEW c \in Channels, BeginStop(c) PROVE CallInv'
  BY <1>6 DEF BeginStop, threadVars
<1>7. CASE Join
  <2>1. call \in [fn : {"stop"}, ch : Channels, at : {"join", "stop"}, i : Nat]
    BY <1>0, <1>7 DEF Join, CallType, NoCall
  <2>. QED
    BY <1>0, <1>7, <2>1 DEF Join, ThreadType, sharedVars
<1>8. CASE Stop
  <2>1. call \in [fn : {"stop"}, ch : Channels, at : {"join", "stop"}, i : Nat]
    BY <1>0, <1>8 DEF Stop, CallType, NoCall
  <2>. QED
    BY <1>0, <1>8, <2>1 DEF Stop, CallType, NoCall, sharedVars, threadVars
<1>9. ASSUME NEW c \in Channels, ThreadStep(c) PROVE CallInv'
  <2>1. tpc[c] # "none" /\ UNCHANGED <<shutdown, started, call>>
    BY <1>9 DEF ThreadStep, Test, Load, Send, DrainFrame, DrainEnds, Publish, Wake,
       sharedVars, objectVars
  <2>2. tpc' = [tpc EXCEPT ![c] = tpc'[c]]
    BY <1>0, <1>9 DEF ThreadStep, Test, Load, Send, DrainFrame, DrainEnds, Publish,
       Wake, ThreadType
  <2>3. \A d \in Channels : tpc[d] = "none" => tpc'[d] = "none"
    BY <1>0, <2>1, <2>2 DEF ThreadType
  <2>4. call.at = "stop" => call.ch \in Channels
    BY <1>0 DEF CallType, NoCall
  <2>. QED
    BY <2>1, <2>3, <2>4
<1>10. \/ UNCHANGED <<started, call, tpc>> /\ (shutdown => shutdown')
       \/ \E c \in Channels : BeginStart(c) \/ BeginStop(c) \/ ThreadStep(c)
       \/ Enable \/ CreateThread \/ CreateFails \/ Join \/ Stop
  BY DEF Next, vars, sharedVars, objectVars, threadVars, Calls, CallStep, BusStep,
     SetShutdown, StoreAction, Tick, Deliver, Lose, OtherTraffic, Unplug
<1>. QED
  BY <1>1, <1>2, <1>3, <1>4, <1>5, <1>6, <1>7, <1>8, <1>9, <1>10

\* While a STOP is queued, shutdown is set and the thread sends nothing.
LEMMA StopInvStep ==
  ASSUME TypeOK, CallInv, StopInv, [Next]_vars
  PROVE  StopInv'
<1>. SUFFICES ASSUME NEW c \in Channels, QueuedStop(c)'
              PROVE  shutdown' /\ tpc'[c] \in Idle
  BY DEF StopInv, Idle
<1>1. tx[c] \in Seq(Frames)
  BY DEF TypeOK, BusType
<1>2. QueueStep(c) /\ PlaceStep(c) /\ (shutdown => shutdown')
  BY QueueSteps, PlaceSteps
<1>3. CASE QueuedStop(c)
  BY <1>2, <1>3 DEF StopInv, PlaceStep, Idle
<1>4. CASE ~QueuedStop(c)
  <2>1. PICK f \in Frames : Queued(c, f) /\ tx'[c] = Append(tx[c], f)
    <3>1. PICK i \in DOMAIN tx'[c] : tx'[c][i].kind = "STOP"
      BY DEF QueuedStop
    <3>2. tx'[c] # tx[c]
      BY <1>4, <3>1 DEF QueuedStop
    <3>3. ~(tx[c] # <<>> /\ tx'[c] = Tail(tx[c]))
      <4>. SUFFICES ASSUME tx[c] # <<>>, tx'[c] = Tail(tx[c]) PROVE FALSE
        OBVIOUS
      <4>1. i + 1 \in DOMAIN tx[c] /\ tx'[c][i] = tx[c][i + 1]
        BY <1>1
      <4>. QED
        BY <1>4, <3>1, <4>1 DEF QueuedStop
    <3>. QED
      BY <1>2, <3>2, <3>3 DEF QueueStep
  <2>2. f.kind = "STOP"
    BY <1>1, <1>4, <2>1 DEF QueuedStop
  <2>. QED
    BY <1>2, <2>1, <2>2 DEF Queued, PlaceStep, Idle
<1>. QED
  BY <1>3, <1>4

\* No step queues an MIT command behind a STOP.
LEMMA NoMitStep ==
  ASSUME TypeOK, CallInv, StopInv, StopsLast, [Next]_vars
  PROVE  StopsLast'
<1>. SUFFICES ASSUME NEW c \in Channels, NEW i \in DOMAIN tx'[c], NEW j \in DOMAIN tx'[c],
                     i < j, tx'[c][i].kind = "STOP", tx'[c][j].kind = "MIT"
              PROVE  FALSE
  BY DEF StopsLast
<1>1. tx[c] \in Seq(Frames)
  BY DEF TypeOK, BusType
<1>2. QueueStep(c)
  BY QueueSteps
<1>3. CASE tx'[c] = tx[c]
  BY <1>3 DEF StopsLast
<1>4. CASE tx[c] # <<>> /\ tx'[c] = Tail(tx[c])
  <2>1. /\ i + 1 \in DOMAIN tx[c] /\ j + 1 \in DOMAIN tx[c] /\ i + 1 < j + 1
        /\ tx'[c][i] = tx[c][i + 1] /\ tx'[c][j] = tx[c][j + 1]
    BY <1>1, <1>4
  <2>. QED
    BY <2>1 DEF StopsLast
<1>5. ASSUME NEW f \in Frames, Queued(c, f), tx'[c] = Append(tx[c], f)
      PROVE  FALSE
  <2>1. i \in DOMAIN tx[c] /\ tx'[c][i] = tx[c][i]
    BY <1>1, <1>5
  <2>2. CASE j \in DOMAIN tx[c]
    <3>1. tx'[c][j] = tx[c][j]
      BY <1>1, <1>5, <2>2
    <3>. QED
      BY <2>1, <2>2, <3>1 DEF StopsLast
  <2>3. CASE j \notin DOMAIN tx[c]
    <3>1. f.kind = "MIT"
      BY <1>1, <1>5, <2>3
    <3>. QED
      BY <1>5, <2>1, <3>1 DEF Queued, StopInv, QueuedStop
  <2>. QED
    BY <2>2, <2>3
<1>. QED
  BY <1>2, <1>3, <1>4, <1>5 DEF QueueStep

\* stop() joins the thread before it queues a STOP and leaves shutdown set
\* for good, so that no MIT command follows a STOP to the same motor, for
\* any number of channels, stop() and start() calls, and full queues.
THEOREM StopsComeLast == Spec => []NoMitAfterStop
<1>1. Init => OrderInv
  BY DEF Init, NoCall, OrderInv, CallInv, StopInv, QueuedStop, StopsLast
<1>2. TypeOK /\ OrderInv /\ [Next]_vars => OrderInv'
  BY CallInvStep, StopInvStep, NoMitStep DEF OrderInv
<1>3. OrderInv => NoMitAfterStop
  BY DEF OrderInv, StopsLast, NoMitAfterStop
<1>. QED
  BY <1>1, <1>2, <1>3, TypeCorrect, PTL DEF Spec

-----------------------------------------------------------------------------
(***************************************************************************)
(* Feedback, from the frame a motor answers to the slot that shows it.     *)
(***************************************************************************)
\* Frames are written to the channel of their motor.
LEMMA TxInvStep ==
  ASSUME TypeOK, CallInv, TxInv, [Next]_vars
  PROVE  TxInv'
<1>. SUFFICES ASSUME NEW c \in Channels, NEW i \in DOMAIN tx'[c]
              PROVE  tx'[c][i].motor \in MotorsOf(c)
  BY DEF TxInv
<1>1. tx[c] \in Seq(Frames)
  BY DEF TypeOK, BusType
<1>2. CASE tx'[c] = tx[c]
  BY <1>2 DEF TxInv
<1>3. CASE tx[c] # <<>> /\ tx'[c] = Tail(tx[c])
  <2>1. i + 1 \in DOMAIN tx[c] /\ tx'[c][i] = tx[c][i + 1]
    BY <1>1, <1>3
  <2>. QED
    BY <2>1 DEF TxInv
<1>4. ASSUME NEW f \in Frames, Queued(c, f), tx'[c] = Append(tx[c], f)
      PROVE  tx'[c][i].motor \in MotorsOf(c)
  <2>1. tx'[c][i] = f \/ (i \in DOMAIN tx[c] /\ tx'[c][i] = tx[c][i])
    BY <1>1, <1>4
  <2>. QED
    BY <1>4, <2>1 DEF TxInv, Queued
<1>. QED
  BY QueueSteps, <1>2, <1>3, <1>4 DEF QueueStep

\* A motor's answer arrives on its own channel.
LEMMA ReceiveInv ==
  ASSUME BusType, RxInv, NEW c \in Channels, NEW f, Receive(c, f),
         f.kind = "FEEDBACK" => f.motor \in MotorsOf(c)
  PROVE  RxInv'
<1>1. ASSUME NEW d \in Channels, NEW i \in DOMAIN rx'[d], rx'[d][i].kind = "FEEDBACK"
      PROVE  rx'[d][i].motor \in MotorsOf(d)
  <2>1. (i \in DOMAIN rx[d] /\ rx'[d][i] = rx[d][i]) \/ (d = c /\ rx'[d][i] = f)
    BY DEF BusType, Receive
  <2>. QED
    BY <1>1, <2>1 DEF RxInv
<1>. QED
  BY <1>1 DEF RxInv

\* The replies in a receive queue are of motors of its channel.
LEMMA RxInvStep ==
  ASSUME TypeOK, TxInv, RxInv, [Next]_vars
  PROVE  RxInv'
<1>0. BusType
  BY DEF TypeOK
<1>1. CASE UNCHANGED rx
  BY <1>1 DEF RxInv
<1>2. ASSUME NEW c \in Channels, DrainFrame(c) PROVE RxInv'
  <2>1. rx[c] \in Seq(Replies) /\ rx[c] # <<>> /\ rx' = [rx EXCEPT ![c] = Tail(@)]
    BY <1>0, <1>2 DEF DrainFrame, BusType
  <2>2. \A i \in DOMAIN Tail(rx[c]) : i + 1 \in DOMAIN rx[c] /\ Tail(rx[c])[i] = rx[c][i + 1]
    BY <2>1
  <2>. QED
    BY <1>0, <2>1, <2>2 DEF RxInv, BusType
<1>3. ASSUME NEW c \in Channels, Deliver(c) PROVE RxInv'
  <2>. DEFINE f == Head(tx[c])
              a == [kind |-> "FEEDBACK", motor |-> f.motor]
  <2>1. f.motor \in MotorsOf(c)
    BY <1>0, <1>3 DEF Deliver, TxInv, BusType
  <2>2. Receive(c, a) \/ UNCHANGED rx
    BY <1>3 DEF Deliver
  <2>3. a.motor = f.motor
    OBVIOUS
  <2>. HIDE DEF a
  <2>. QED
    BY <1>0, <1>1, <2>1, <2>2, <2>3, ReceiveInv
<1>4. ASSUME NEW c \in Channels, OtherTraffic(c) PROVE RxInv'
  <2>1. Other.kind # "FEEDBACK"
    BY DEF Other
  <2>. QED
    BY <1>0, <1>4, <2>1, ReceiveInv DEF OtherTraffic
<1>5. UNCHANGED rx \/ \E c \in Channels : DrainFrame(c) \/ Deliver(c) \/ OtherTraffic(c)
  BY DEF Next, vars, busVars, Calls, CallStep, ThreadStep, BusStep, SetShutdown,
     BeginStart, Enable, CreateThread, CreateFails, BeginStop, Join, Stop, Test, Load,
     Send, DrainEnds, Publish, Wake, StoreAction, Tick, Lose, Unplug
<1>. QED
  BY <1>1, <1>2, <1>3, <1>4, <1>5

\* Ids are unique within a channel, so a motor's feedback matches it alone.
LEMMA UniqueMatch ==
  ASSUME NEW c \in Channels, NEW f, f.kind = "FEEDBACK", f.motor \in MotorsOf(c)
  PROVE  Matches(c, f) # {} /\ FirstMatch(c, f) = f.motor
<1>1. PICK k \in DOMAIN Bindings[c] : Bindings[c][k] = f.motor
  BY DEF MotorsOf
<1>2. Matches(c, f) = {k}
  BY <1>1, IdAssumption DEF Matches
<1>3. k \in Int
  BY <1>1, Config
<1>4. (CHOOSE i \in Matches(c, f) : \A j \in Matches(c, f) : i <= j) = k
  BY <1>2, <1>3
<1>. QED
  BY <1>1, <1>2, <1>4 DEF FirstMatch

\* drain_feedback() keeps with a motor its own feedback, and Tick ages it.
LEMMA FbInvStep ==
  ASSUME TypeOK, RxInv, FbInv, [Next]_vars
  PROVE  FbInv'
<1>0. BusType /\ ThreadType
  BY DEF TypeOK
<1>1. CASE UNCHANGED fb
  BY <1>1 DEF FbInv
<1>2. ASSUME NEW c \in Channels, DrainFrame(c) PROVE FbInv'
  <2>. DEFINE f == Head(rx[c])
  <2>1. f.kind = "FEEDBACK" => f.motor \in MotorsOf(c)
    BY <1>0, <1>2 DEF DrainFrame, RxInv, BusType
  <2>2. Offer(c, f) \/ UNCHANGED fb
    BY <1>2 DEF DrainFrame
  <2>3. ASSUME f.kind = "FEEDBACK", Offer(c, f) PROVE FbInv'
    BY <1>0, <2>1, <2>3, UniqueMatch DEF Offer, FbInv, ThreadType
  <2>4. ASSUME f.kind # "FEEDBACK", Offer(c, f) PROVE UNCHANGED fb
    BY <2>4 DEF Offer, Matches
  <2>. QED
    BY <1>1, <2>2, <2>3, <2>4
<1>3. ASSUME NEW c \in Channels, Tick(c) PROVE FbInv'
  <2>1. ASSUME NEW m \in Motors
        PROVE  fb'[m].src = m \/ fb'[m] = [src |-> NoMotor, age |-> Timeout]
    <3>1. CASE fb[m].src = m
      BY <1>0, <1>3, <3>1 DEF Tick, ThreadType
    <3>2. CASE fb[m] = [src |-> NoMotor, age |-> Timeout]
      BY <1>3, <3>2, Bounds DEF Tick
    <3>. QED
      BY <3>1, <3>2 DEF FbInv
  <2>. QED
    BY <2>1 DEF FbInv
<1>4. UNCHANGED fb \/ \E c \in Channels : DrainFrame(c) \/ Tick(c)
  BY DEF Next, vars, threadVars, Calls, CallStep, ThreadStep, BusStep, SetShutdown,
     BeginStart, Enable, CreateThread, CreateFails, BeginStop, Join, Stop, Test, Load,
     Send, DrainEnds, Publish, Wake, StoreAction, Deliver, Lose, OtherTraffic, Unplug
<1>. QED
  BY <1>1, <1>2, <1>3, <1>4

\* publish_state() shows what is kept, offline before the first feedback.
LEMMA SlotStep ==
  ASSUME TypeOK, FbInv, FeedbackIsOwn, [Next]_vars
  PROVE  FeedbackIsOwn'
<1>1. CASE UNCHANGED slot
  BY <1>1 DEF FeedbackIsOwn
<1>2. ASSUME NEW c \in Channels, Publish(c), NEW m \in Motors
      PROVE  slot'[m].src = m \/ slot'[m] = [src |-> NoMotor, online |-> FALSE]
  <2>1. CASE m \notin MotorsOf(c)
    BY <1>2, <2>1 DEF Publish, FeedbackIsOwn
  <2>2. CASE m \in MotorsOf(c) /\ fb[m].src = m
    BY <1>2, <2>2 DEF Publish
  <2>3. CASE m \in MotorsOf(c) /\ fb[m] = [src |-> NoMotor, age |-> Timeout]
    <3>1. fb[m].src = NoMotor /\ (fb[m].age < Timeout) = FALSE
      BY <2>3, Bounds
    <3>. QED
      BY <1>2, <2>3, <3>1 DEF Publish
  <2>. QED
    BY <2>1, <2>2, <2>3 DEF FbInv
<1>3. UNCHANGED slot \/ \E c \in Channels : Publish(c)
  BY DEF Next, vars, sharedVars, Calls, CallStep, ThreadStep, BusStep, SetShutdown,
     BeginStart, Enable, CreateThread, CreateFails, BeginStop, Join, Stop, Test, Load,
     Send, DrainFrame, DrainEnds, Wake, StoreAction, Tick, Deliver, Lose, OtherTraffic,
     Unplug
<1>. QED
  BY <1>1, <1>2, <1>3 DEF FeedbackIsOwn

\* A slot shows a motor its own feedback or none at all, for any wiring in
\* which ids are unique within a channel: try_parse_feedback() matches no
\* other motor's frame, and publish_state() shows nothing before the first.
THEOREM SlotsShowTheirMotor == Spec => []FeedbackIsOwn
<1>1. Init => CallInv /\ RouteInv
  <2>1. Init => TxInv /\ RxInv
    BY DEF Init, TxInv, RxInv
  <2>2. Init => FbInv /\ FeedbackIsOwn
    BY DEF Init, FbInv, FeedbackIsOwn
  <2>3. Init => CallInv
    BY DEF Init, NoCall, CallInv
  <2>. QED
    BY <2>1, <2>2, <2>3 DEF RouteInv
<1>2. TypeOK /\ CallInv /\ RouteInv /\ [Next]_vars => CallInv' /\ RouteInv'
  BY CallInvStep, TxInvStep, RxInvStep, FbInvStep, SlotStep DEF RouteInv
<1>3. RouteInv => FeedbackIsOwn
  BY DEF RouteInv
<1>. QED
  BY <1>1, <1>2, <1>3, TypeCorrect, PTL DEF Spec

\* Only drain_feedback() takes a frame off a receive queue.
LEMMA RxShrinks ==
  ASSUME TypeOK, [Next]_vars, NEW c \in Channels, Len(rx'[c]) < Len(rx[c])
  PROVE  DrainFrame(c)
<1>0. rx \in [Channels -> Seq(Replies)]
  BY DEF TypeOK, BusType
<1>1. Len(rx[c]) \in Nat
  BY <1>0
<1>2. CASE UNCHANGED rx
  BY <1>1, <1>2
<1>3. ASSUME NEW d \in Channels, DrainFrame(d) PROVE d = c
  BY <1>0, <1>1, <1>3 DEF DrainFrame
<1>4. ASSUME NEW d \in Channels, NEW f, Receive(d, f) PROVE ~(Len(rx'[c]) < Len(rx[c]))
  <2>1. Len(Append(rx[c], f)) = Len(rx[c]) + 1
    BY <1>0
  <2>2. rx'[c] = rx[c] \/ rx'[c] = Append(rx[c], f)
    BY <1>0, <1>4 DEF Receive
  <2>. QED
    BY <1>1, <2>1, <2>2
<1>5. \/ UNCHANGED rx
      \/ \E d \in Channels : DrainFrame(d)
      \/ \E d \in Channels : \E f \in Replies : Receive(d, f)
  <2>1. ASSUME NEW d \in Channels, Deliver(d)
        PROVE  UNCHANGED rx \/ \E f \in Replies : Receive(d, f)
    <3>0. tx[d] \in Seq(Frames) /\ tx[d] # <<>>
      BY <2>1 DEF Deliver, TypeOK, BusType
    <3>1. Head(tx[d]).motor \in Motors
      <4>1. Head(tx[d]) \in Frames
        BY <3>0
      <4>. QED
        BY <4>1 DEF Frames
    <3>2. [kind |-> "FEEDBACK", motor |-> Head(tx[d]).motor] \in Replies
      BY <3>1 DEF Replies
    <3>. QED
      BY <2>1, <3>2 DEF Deliver
  <2>2. ASSUME NEW d \in Channels, OtherTraffic(d)
        PROVE  \E f \in Replies : Receive(d, f)
    BY <2>2 DEF OtherTraffic, Replies
  <2>3. UNCHANGED rx \/ \E d \in Channels : DrainFrame(d) \/ Deliver(d) \/ OtherTraffic(d)
    BY DEF Next, vars, busVars, Calls, CallStep, ThreadStep, BusStep, SetShutdown,
       BeginStart, Enable, CreateThread, CreateFails, BeginStop, Join, Stop, Test, Load,
       Send, DrainEnds, Publish, Wake, StoreAction, Tick, Lose, Unplug
  <2>. QED
    BY <2>1, <2>2, <2>3
<1>. QED
  BY <1>2, <1>3, <1>4, <1>5

\* Every frame of feedback that drain_feedback() takes off a queue, but the one
\* behind the last it may take in a cycle, is stored for the motor that sent it:
\* of the motors it is offered to that one matches, also one with the id 0.
THEOREM FeedbackIsKept == Spec => FeedbackIsStored
<1>1. ASSUME TypeOK, RxInv, [Next]_vars, NEW c \in Channels,
             Len(rx'[c]) < Len(rx[c]), Head(rx[c]).kind = "FEEDBACK"
      PROVE  \/ fb'[Head(rx[c]).motor] = [src |-> Head(rx[c]).motor, age |-> 0]
             \/ count[c] = MaxFrames
  <2>. DEFINE f == Head(rx[c])
  <2>0. BusType /\ ThreadType
    BY <1>1 DEF TypeOK
  <2>1. DrainFrame(c)
    BY <1>1, RxShrinks
  <2>2. f.motor \in MotorsOf(c)
    BY <1>1, <2>0, <2>1 DEF DrainFrame, RxInv, BusType
  <2>3. CASE Offer(c, f)
    <3>1. f.motor \in Motors
      BY <2>2, Config
    <3>. QED
      BY <1>1, <2>0, <2>2, <2>3, <3>1, UniqueMatch DEF Offer, ThreadType
  <2>4. CASE count[c] >= MaxFrames
    BY <2>0, <2>4, Bounds DEF ThreadType
  <2>. QED
    BY <2>1, <2>3, <2>4 DEF DrainFrame
<1>2. TypeOK /\ RxInv /\ [Next]_vars
        => [\A c \in Channels :
              LET f == Head(rx[c])
              IN (Len(rx'[c]) < Len(rx[c]) /\ f.kind = "FEEDBACK")
                   => \/ fb'[f.motor] = [src |-> f.motor, age |-> 0]
                      \/ count[c] = MaxFrames]_vars
  BY <1>1
<1>3. Init => CallInv /\ TxInv /\ RxInv
  BY DEF Init, NoCall, CallInv, TxInv, RxInv
<1>4. TypeOK /\ CallInv /\ TxInv /\ RxInv /\ [Next]_vars => CallInv' /\ TxInv' /\ RxInv'
  BY CallInvStep, TxInvStep, RxInvStep
<1>. QED
  BY <1>2, <1>3, <1>4, TypeCorrect, PTL DEF Spec, FeedbackIsStored

-----------------------------------------------------------------------------
(***************************************************************************)
(* Actions, from the slot they are stored in to the motor.                 *)
(***************************************************************************)
\* Channels have no motors in common.
LEMMA NotFromHere ==
  ASSUME NEW c \in Channels, NEW d \in Channels, c # d,
         NEW m \in MotorsOf(c), NEW n \in MotorsOf(d)
  PROVE  m # n
  BY ConfigAssumption

\* Every step keeps the order of the actions from the slot to the motors.
LEMMA AgeInvStep ==
  ASSUME TypeOK, TxInv, AgeInv, [Next]_vars
  PROVE  AgeInv' /\ \A m \in Motors : cmd'[m] \in cmd[m] .. action
<1>. DEFINE Good == AgeInv' /\ \A m \in Motors : cmd'[m] \in cmd[m] .. action
<1>0. /\ BusType /\ ThreadType /\ MotorType /\ CallType
      /\ action \in Int
      /\ \A m \in Motors : cmd[m] \in Int
      /\ \A c \in Channels : act[c] \in Int /\ tx[c] \in Seq(Frames)
  BY DEF TypeOK, SharedType, BusType, ThreadType, MotorType
<1>1. \A c \in Channels : \A i \in DOMAIN tx[c] : tx[c][i].act \in Int
  <2>1. \A f \in Frames : f.act \in Int
    BY DEF Frames
  <2>. QED
    BY <1>0, <2>1
<1>2. \A m \in Motors : cmd[m] \in cmd[m] .. action
  BY <1>0 DEF AgeInv, CmdInv
<1>3. CASE UNCHANGED <<tx, tpc, act, action, cmd>>
  BY <1>2, <1>3 DEF AgeInv, CmdInv, QueueInv, SendInv, MitsOf
<1>4. CASE StoreAction
  <2>1. action' = action + 1 /\ UNCHANGED <<tx, tpc, act, cmd>>
    BY <1>4 DEF StoreAction, threadVars, busVars, motorVars
  <2>2. CmdInv'
    BY <1>0, <2>1 DEF AgeInv, CmdInv
  <2>3. ASSUME NEW c \in Channels PROVE QueueInv(c)' /\ SendInv(c)'
    BY <1>0, <1>1, <2>1 DEF AgeInv, QueueInv, SendInv, MitsOf
  <2>. QED
    BY <1>2, <2>1, <2>2, <2>3 DEF AgeInv
\* A thread that is not sending: its snapshot does not matter.
<1>5. ASSUME NEW c \in Channels, UNCHANGED <<tx, action, cmd>>,
             tpc' = [tpc EXCEPT ![c] = tpc'[c]], UNCHANGED act, tpc'[c] # "send"
      PROVE  Good
  <2>1. ASSUME NEW d \in Channels PROVE QueueInv(d)' /\ SendInv(d)'
    BY <1>0, <1>5, <2>1 DEF AgeInv, QueueInv, SendInv, MitsOf, ThreadType
  <2>. QED
    BY <1>2, <1>5, <2>1 DEF AgeInv, CmdInv
<1>6. CASE CreateThread \/ Join
  <2>1. call.ch \in Channels
    BY <1>0, <1>6 DEF CreateThread, Join, CallType, NoCall
  <2>. QED
    BY <1>0, <1>5, <1>6, <2>1 DEF CreateThread, Join, ThreadType, sharedVars, busVars, motorVars
<1>7. ASSUME NEW c \in Channels,
             Test(c) \/ DrainFrame(c) \/ DrainEnds(c) \/ Publish(c) \/ Wake(c)
      PROVE  Good
  BY <1>0, <1>3, <1>5, <1>7 DEF Test, DrainFrame, DrainEnds, Publish, Wake, ThreadType,
     sharedVars, busVars, motorVars
<1>8. ASSUME NEW c \in Channels, Load(c) PROVE Good
  <2>1. /\ act' = [act EXCEPT ![c] = action] /\ tpc' = [tpc EXCEPT ![c] = "send"]
        /\ UNCHANGED <<tx, action, cmd>>
    BY <1>8 DEF Load, sharedVars, busVars, motorVars
  <2>2. ASSUME NEW d \in Channels PROVE QueueInv(d)' /\ SendInv(d)'
    <3>1. QueueInv(d)'
      BY <2>1 DEF AgeInv, QueueInv, MitsOf
    <3>2. CASE d # c
      BY <1>0, <2>1, <3>1, <3>2 DEF AgeInv, SendInv, MitsOf, ThreadType
    <3>3. CASE d = c
      BY <1>0, <2>1, <3>1, <3>3, Config DEF AgeInv, CmdInv, QueueInv, SendInv, MitsOf, ThreadType
    <3>. QED
      BY <3>2, <3>3
  <2>. QED
    BY <1>2, <2>1, <2>2 DEF AgeInv, CmdInv
\* A write: the frame goes behind all others, or is refused.
<1>9. ASSUME NEW c \in Channels, NEW f \in Frames, Write(c, f), UNCHANGED <<action, cmd>>,
             f.kind = "MIT" => tpc[c] = "send" /\ f.act = act[c]
      PROVE  /\ \A d \in Channels : QueueInv(d)'
             /\ \A i \in MitsOf(c)' : tpc[c] = "send" => tx'[c][i].act <= act[c]
             /\ \A d \in Channels \ {c} : tx'[d] = tx[d]
  <2>1. CASE UNCHANGED tx
    BY <1>9, <2>1 DEF AgeInv, QueueInv, SendInv, MitsOf
  <2>2. CASE tx' = [tx EXCEPT ![c] = Append(@, f)]
    <3>1. /\ \A d \in Channels \ {c} : tx'[d] = tx[d]
          /\ \A i \in MitsOf(c)' : \/ i \in MitsOf(c) /\ tx'[c][i] = tx[c][i]
                                   \/ i = Len(tx[c]) + 1 /\ tx'[c][i] = f /\ f.kind = "MIT"
          /\ \A i \in MitsOf(c) : i \in 1 .. Len(tx[c])
      BY <1>0, <2>2 DEF MitsOf, BusType
    <3>2. \A d \in Channels \ {c} : QueueInv(d)'
      BY <1>9, <3>1 DEF AgeInv, QueueInv, MitsOf
    <3>3. \A i \in MitsOf(c)' : tpc[c] = "send" => tx'[c][i].act <= act[c]
      BY <1>0, <1>9, <3>1 DEF AgeInv, SendInv
    <3>4. \A i \in MitsOf(c)' : /\ tx'[c][i].act <= action
                                /\ \A m \in MotorsOf(c) : cmd[m] <= tx'[c][i].act
      BY <1>9, <3>1 DEF AgeInv, QueueInv, SendInv
    <3>5. \A i, j \in MitsOf(c)' : i < j => tx'[c][i].act <= tx'[c][j].act
      BY <1>0, <1>9, <3>1 DEF AgeInv, QueueInv, SendInv
    <3>6. QueueInv(c)'
      BY <1>9, <3>4, <3>5 DEF QueueInv
    <3>. QED
      BY <3>1, <3>2, <3>3, <3>6
  <2>. QED
    BY <1>9, <2>1, <2>2 DEF Write
<1>10. ASSUME NEW c \in Channels, NEW f \in Frames, Write(c, f), f.kind # "MIT",
              UNCHANGED <<action, cmd, tpc, act>>
       PROVE  Good
  <2>1. \A d \in Channels : SendInv(d)'
    BY <1>9, <1>10 DEF AgeInv, SendInv, MitsOf
  <2>. QED
    BY <1>2, <1>9, <1>10, <2>1 DEF AgeInv, CmdInv
<1>11. CASE Enable
  <2>1. Frame("ENABLE", Bindings[call.ch][call.i], 0).kind # "MIT"
    BY DEF Frame
  <2>. QED
    BY <1>0, <1>10, <1>11, <2>1, EnableWrites DEF Enable, sharedVars, threadVars, motorVars
<1>12. CASE Stop
  <2>1. Frame("STOP", Bindings[call.ch][(call.i + 1) \div 2], 0).kind # "MIT"
    BY DEF Frame
  <2>. QED
    BY <1>0, <1>10, <1>12, <2>1, StopWrites DEF Stop, sharedVars, threadVars, motorVars
<1>13. ASSUME NEW c \in Channels, Send(c) PROVE Good
  <2>. DEFINE f == Frame("MIT", Bindings[c][next[c]], act[c])
  <2>1. f \in Frames /\ f.act = act[c]
    BY <1>0, SendWrites DEF Frame
  <2>2. Write(c, f) /\ UNCHANGED <<action, cmd>> /\ tpc[c] = "send"
    BY <1>13 DEF Send, sharedVars, motorVars
  <2>3. /\ \A d \in Channels : QueueInv(d)'
        /\ \A i \in MitsOf(c)' : tx'[c][i].act <= act[c]
        /\ \A d \in Channels \ {c} : tx'[d] = tx[d]
    <3>. HIDE DEF f
    <3>. QED
      BY <1>9, <2>1, <2>2
  <2>4. /\ \A d \in Channels \ {c} : tpc'[d] = tpc[d] /\ act'[d] = act[d]
        /\ tpc'[c] = "send" => act'[c] = act[c]
    BY <1>0, <1>13 DEF Send, ThreadType
  <2>5. ASSUME NEW d \in Channels PROVE SendInv(d)'
    BY <2>2, <2>3, <2>4 DEF AgeInv, SendInv, MitsOf
  <2>. QED
    BY <1>2, <2>2, <2>3, <2>5 DEF AgeInv, CmdInv
\* The first frame leaves the queue, and the motor may execute it.
<1>14. ASSUME NEW c \in Channels, tx[c] # <<>>, tx' = [tx EXCEPT ![c] = Tail(@)],
              UNCHANGED <<action, tpc, act>>,
              \/ UNCHANGED cmd
              \/ /\ Head(tx[c]).kind = "MIT"
                 /\ cmd' = [cmd EXCEPT ![Head(tx[c]).motor] = Head(tx[c]).act]
       PROVE  Good
  <2>. DEFINE f == Head(tx[c])
  <2>1. /\ 1 \in DOMAIN tx[c] /\ f = tx[c][1] /\ f.motor \in MotorsOf(c)
        /\ f.motor \in Motors /\ f.act \in Int
    BY <1>0, <1>1, <1>14, Config DEF TxInv
  <2>2. /\ \A d \in Channels \ {c} : tx'[d] = tx[d]
        /\ \A i \in MitsOf(c)' : i + 1 \in MitsOf(c) /\ tx'[c][i] = tx[c][i + 1] /\ 1 < i + 1
    BY <1>0, <1>14 DEF MitsOf, BusType
  <2>3. \A m \in Motors : cmd'[m] # cmd[m] =>
           m = f.motor /\ cmd'[m] = f.act /\ 1 \in MitsOf(c)
    BY <1>0, <1>14, <2>1 DEF MitsOf, MotorType
  <2>4. \A m \in Motors : cmd'[m] \in cmd[m] .. action
    BY <1>0, <1>2, <2>1, <2>3 DEF AgeInv, QueueInv
  <2>5. \A d \in Channels \ {c} : QueueInv(d)' /\ SendInv(d)'
    <3>1. \A d \in Channels \ {c} : \A m \in MotorsOf(d) : cmd'[m] = cmd[m]
      BY <2>1, <2>3, NotFromHere, Config
    <3>. QED
      BY <1>14, <2>2, <3>1 DEF AgeInv, QueueInv, SendInv, MitsOf
  <2>6. QueueInv(c)'
    <3>1. ASSUME NEW i \in MitsOf(c)' PROVE
            /\ tx'[c][i].act <= action
            /\ \A m \in MotorsOf(c) : cmd'[m] <= tx'[c][i].act
      <4>1. i + 1 \in MitsOf(c) /\ tx'[c][i] = tx[c][i + 1] /\ 1 < i + 1
        BY <2>2
      <4>. QED
        BY <2>1, <2>3, <4>1, Config DEF AgeInv, QueueInv
    <3>2. ASSUME NEW i \in MitsOf(c)', NEW j \in MitsOf(c)', i < j
          PROVE  tx'[c][i].act <= tx'[c][j].act
      <4>1. i \in Int /\ j \in Int
        BY <1>0, <1>14 DEF MitsOf, BusType
      <4>. QED
        BY <2>2, <3>2, <4>1 DEF AgeInv, QueueInv
    <3>. QED
      BY <1>14, <3>1, <3>2 DEF QueueInv
  <2>7. SendInv(c)'
    <3>1. ASSUME tpc[c] = "send" PROVE \A i \in MitsOf(c)' : tx'[c][i].act <= act[c]
      BY <2>2, <3>1 DEF AgeInv, SendInv
    <3>2. ASSUME tpc[c] = "send", NEW m \in MotorsOf(c) PROVE cmd'[m] <= act[c]
      <4>1. m \in Motors
        BY Config
      <4>2. /\ cmd[m] <= act[c]
            /\ \A i \in MitsOf(c) : tx[c][i].act <= act[c]
        BY <3>2 DEF AgeInv, SendInv
      <4>3. CASE cmd'[m] = cmd[m]
        BY <4>2, <4>3
      <4>4. CASE cmd'[m] # cmd[m]
        <5>1. cmd'[m] = tx[c][1].act /\ 1 \in MitsOf(c)
          BY <2>1, <2>3, <4>1, <4>4
        <5>. QED
          BY <4>2, <5>1
      <4>. QED
        BY <4>3, <4>4
    <3>3. tpc[c] = "send" => act[c] <= action
      BY DEF AgeInv, SendInv
    <3>. QED
      BY <1>14, <3>1, <3>2, <3>3 DEF SendInv
  <2>8. CmdInv'
    BY <1>0, <1>14, <2>4 DEF CmdInv
  <2>. QED
    BY <2>4, <2>5, <2>6, <2>7, <2>8 DEF AgeInv
<1>15. ASSUME NEW c \in Channels, Deliver(c) \/ Lose(c) PROVE Good
  BY <1>14, <1>15 DEF Deliver, Lose, Execute, sharedVars, threadVars, motorVars
<1>16. \/ UNCHANGED <<tx, tpc, act, action, cmd>>
       \/ StoreAction \/ CreateThread \/ Join \/ Enable \/ Stop
       \/ \E c \in Channels :
            \/ Test(c) \/ DrainFrame(c) \/ DrainEnds(c) \/ Publish(c) \/ Wake(c)
            \/ Load(c) \/ Send(c) \/ Deliver(c) \/ Lose(c)
  BY DEF Next, vars, sharedVars, threadVars, busVars, motorVars, Calls, CallStep,
     ThreadStep, BusStep, SetShutdown, BeginStart, CreateFails, BeginStop, Tick,
     OtherTraffic, Unplug
<1>. QED
  BY <1>3, <1>4, <1>6, <1>7, <1>8, <1>11, <1>12, <1>13, <1>15, <1>16

(***************************************************************************)
(* No motor is ever commanded an older action than the one it executes, or *)
(* one that was not stored: one load() per cycle for all the motors, and   *)
(* the order of the queue.                                                 *)
(***************************************************************************)
CommandsFollowAction ==
  [][\A m \in Motors : cmd'[m] \in cmd[m] .. action]_vars

\* One load() of the action per cycle and the order of the transmit queue:
\* no motor goes back to an older action, nor to one that was never stored.
THEOREM CommandsAreInOrder == Spec => CommandsFollowAction
<1>1. Init => CallInv /\ TxInv /\ AgeInv
  BY DEF Init, NoCall, CallInv, TxInv, AgeInv, CmdInv, QueueInv, SendInv, MitsOf
<1>2. TypeOK /\ CallInv /\ TxInv /\ AgeInv /\ [Next]_vars => CallInv' /\ TxInv' /\ AgeInv'
  BY CallInvStep, TxInvStep, AgeInvStep
<1>3. TypeOK /\ TxInv /\ AgeInv /\ [Next]_vars
        => [\A m \in Motors : cmd'[m] \in cmd[m] .. action]_vars
  BY AgeInvStep
<1>. QED
  BY <1>1, <1>2, <1>3, TypeCorrect, PTL DEF Spec, CommandsFollowAction

-----------------------------------------------------------------------------
(***************************************************************************)
(* start() and stop() of an object, and its thread.                        *)
(***************************************************************************)
\* Threads come with CreateThread and go with Join only.
LEMMA ThreadInvStep ==
  ASSUME TypeOK, CallInv, ThreadInv, [Next]_vars
  PROVE  ThreadInv'
<1>. USE DEF ThreadInv, JoinHasThread
<1>0. ThreadType /\ CallType
  BY DEF TypeOK
<1>1. CASE UNCHANGED <<started, call, tpc>> /\ (shutdown => shutdown')
  BY <1>1
<1>2. ASSUME NEW c \in Channels, BeginStart(c) PROVE ThreadInv'
  BY <1>2 DEF BeginStart, threadVars, NoCall
<1>3. CASE Enable
  BY <1>0, <1>3 DEF Enable, CallType, NoCall, sharedVars, threadVars
<1>4. CASE CreateThread
  BY <1>0, <1>4 DEF CreateThread, CallType, ThreadType, NoCall
<1>5. CASE CreateFails
  BY <1>5 DEF CreateFails, NoCall, threadVars
<1>6. ASSUME NEW c \in Channels, BeginStop(c) PROVE ThreadInv'
  BY <1>6 DEF BeginStop, threadVars, NoCall
<1>7. CASE Join
  <2>1. call \in [fn : {"stop"}, ch : Channels, at : {"join", "stop"}, i : Nat]
    BY <1>0, <1>7 DEF Join, CallType, NoCall
  <2>. QED
    BY <1>0, <1>7, <2>1 DEF Join, ThreadType, sharedVars
<1>8. CASE Stop
  <2>1. call \in [fn : {"stop"}, ch : Channels, at : {"join", "stop"}, i : Nat]
    BY <1>0, <1>8 DEF Stop, CallType, NoCall
  <2>. QED
    BY <1>0, <1>8, <2>1 DEF Stop, CallType, NoCall, sharedVars, threadVars
<1>9. ASSUME NEW c \in Channels, ThreadStep(c) PROVE ThreadInv'
  <2>1. UNCHANGED <<shutdown, started, call>>
    BY <1>9 DEF ThreadStep, Test, Load, Send, DrainFrame, DrainEnds, Publish, Wake,
       sharedVars, objectVars
  <2>2. tpc' = [tpc EXCEPT ![c] = tpc'[c]]
    BY <1>0, <1>9 DEF ThreadStep, Test, Load, Send, DrainFrame, DrainEnds, Publish,
       Wake, ThreadType
  <2>3. tpc[c] # "none" /\ tpc'[c] # "none"
    BY <1>0, <1>9 DEF ThreadStep, Test, Load, Send, DrainFrame, DrainEnds, Publish,
       Wake, ThreadType
  <2>4. \A d \in Channels : tpc[d] # "none" => tpc'[d] # "none"
    BY <1>0, <2>2, <2>3 DEF ThreadType
  <2>5. call.at = "join" => call.ch \in Channels
    BY <1>0 DEF CallType, NoCall
  <2>. QED
    BY <2>1, <2>4, <2>5
<1>10. \/ UNCHANGED <<started, call, tpc>> /\ (shutdown => shutdown')
       \/ \E c \in Channels : BeginStart(c) \/ BeginStop(c) \/ ThreadStep(c)
       \/ Enable \/ CreateThread \/ CreateFails \/ Join \/ Stop
  BY DEF Next, vars, sharedVars, objectVars, threadVars, Calls, CallStep, BusStep,
     SetShutdown, StoreAction, Tick, Deliver, Lose, OtherTraffic, Unplug
<1>. QED
  BY <1>1, <1>2, <1>3, <1>4, <1>5, <1>6, <1>7, <1>8, <1>9, <1>10

\* started_ keeps stop() from joining a thread that does not exist, or twice,
\* and what it joins has been told to end.
THEOREM JoinsAThread == Spec => []JoinHasThread
<1>1. Init => CallInv /\ ThreadInv
  BY DEF Init, NoCall, CallInv, ThreadInv, JoinHasThread
<1>2. TypeOK /\ CallInv /\ ThreadInv /\ [Next]_vars => CallInv' /\ ThreadInv'
  BY CallInvStep, ThreadInvStep
<1>3. ThreadInv => JoinHasThread
  BY DEF ThreadInv
<1>. QED
  BY <1>1, <1>2, <1>3, TypeCorrect, PTL DEF Spec

-----------------------------------------------------------------------------
(***************************************************************************)
(* The steps of the threads, the queues and the motors as steps of         *)
(* CommandStream.                                                          *)
(***************************************************************************)
\* After shutdown, no thread that has left its loop comes back to it, and
\* nothing but a thread in its loop queues a command.
LEMMA SilentLasts ==
  ASSUME TypeOK, CallInv, [Next]_vars, NEW c \in Channels, Silent(c)
  PROVE  Silent(c)'
<1>1. tx[c] \in Seq(Frames)
  BY DEF TypeOK, BusType
<1>2. shutdown' /\ PlaceStep(c) /\ QueueStep(c)
  BY QueueSteps, PlaceSteps DEF Silent
<1>3. tpc'[c] \in Idle
  BY <1>2 DEF Silent, PlaceStep, Idle
<1>4. ASSUME NEW i \in DOMAIN tx'[c] PROVE tx'[c][i].kind # "MIT"
  <2>1. CASE tx'[c] = tx[c]
    BY <2>1 DEF Silent
  <2>2. CASE tx[c] # <<>> /\ tx'[c] = Tail(tx[c])
    <3>1. i + 1 \in DOMAIN tx[c] /\ tx'[c][i] = tx[c][i + 1]
      BY <1>1, <2>2
    <3>. QED
      BY <3>1 DEF Silent
  <2>3. ASSUME NEW f \in Frames, Queued(c, f), tx'[c] = Append(tx[c], f)
        PROVE  tx'[c][i].kind # "MIT"
    <3>1. f.kind # "MIT"
      BY <2>3 DEF Queued, Silent
    <3>2. tx'[c][i] = f \/ (i \in DOMAIN tx[c] /\ tx'[c][i] = tx[c][i])
      BY <1>1, <2>3
    <3>. QED
      BY <3>1, <3>2 DEF Silent
  <2>. QED
    BY <1>2, <2>1, <2>2, <2>3 DEF QueueStep
<1>. QED
  BY <1>2, <1>3, <1>4 DEF Silent, Idle

\* Streams end, none begins again.
LEMMA StreamsEnd ==
  ASSUME TypeOK, CallInv, [Next]_vars
  PROVE  Stream!Ends
<1>1. Over' \in [Motors -> BOOLEAN]
  BY DEF Over
<1>2. ASSUME NEW m \in Motors, Over[m] PROVE Over'[m]
  <2>1. PICK c \in Channels : m \in MotorsOf(c) /\ Silent(c)
    BY <1>2 DEF Over
  <2>2. Silent(c)'
    BY <2>1, SilentLasts
  <2>. QED
    BY <2>1, <2>2 DEF Over
<1>. QED
  BY <1>1, <1>2 DEF Stream!Ends

\* A frame that is no command leaves a queue: no stream ends by it.
LEMMA SilentKept ==
  ASSUME BusType, NEW c \in Channels, tx[c] # <<>>, Head(tx[c]).kind # "MIT",
         tx' = [tx EXCEPT ![c] = Tail(@)], UNCHANGED <<shutdown, tpc>>
  PROVE  UNCHANGED Over
<1>1. ASSUME NEW d \in Channels PROVE Silent(d)' <=> Silent(d)
  <2>1. CASE d # c
    BY <2>1 DEF Silent, BusType
  <2>2. CASE d = c
    <3>1. /\ tx[c] \in Seq(Frames) /\ tx'[c] = Tail(tx[c]) /\ Head(tx[c]) = tx[c][1]
          /\ \A i \in DOMAIN tx'[c] : i + 1 \in DOMAIN tx[c] /\ tx'[c][i] = tx[c][i + 1]
          /\ \A i \in DOMAIN tx[c] : i = 1 \/ (i - 1 \in DOMAIN tx'[c] /\ tx'[c][i - 1] = tx[c][i])
      BY DEF BusType
    <3>2. (\A i \in DOMAIN tx'[c] : tx'[c][i].kind # "MIT")
            <=> (\A i \in DOMAIN tx[c] : tx[c][i].kind # "MIT")
      BY <3>1
    <3>. QED
      BY <2>2, <3>2 DEF Silent
  <2>. QED
    BY <2>1, <2>2
<1>. QED
  BY <1>1 DEF Over

\* The STOP at the head of a queue has no command behind it.
LEMMA StoppedIsOver ==
  ASSUME TypeOK, StopInv, StopsLast, NEW c \in Channels, tx[c] # <<>>,
         Head(tx[c]).kind = "STOP"
  PROVE  Silent(c)
<1>1. tx[c] \in Seq(Frames)
  BY DEF TypeOK, BusType
<1>2. 1 \in DOMAIN tx[c] /\ Head(tx[c]) = tx[c][1] /\ \A i \in DOMAIN tx[c] : i = 1 \/ 1 < i
  BY <1>1
<1>3. \A i \in DOMAIN tx[c] : tx[c][i].kind # "MIT"
  BY <1>2 DEF StopsLast
<1>4. shutdown /\ tpc[c] \in {"none", "test", "exited"}
  BY <1>2 DEF StopInv, QueuedStop
<1>. QED
  BY <1>3, <1>4 DEF Silent

\* While a command is at the head of a queue, its motor's stream is not over.
LEMMA CommandedIsNotOver ==
  ASSUME TypeOK, TxInv, NEW c \in Channels, tx[c] # <<>>, Head(tx[c]).kind = "MIT"
  PROVE  ~Over[Head(tx[c]).motor]
<1>1. 1 \in DOMAIN tx[c] /\ Head(tx[c]) = tx[c][1]
  BY DEF TypeOK, BusType
<1>2. Head(tx[c]).motor \in MotorsOf(c) /\ Head(tx[c]).motor \in Motors
  BY <1>1, Config DEF TxInv
<1>3. ~Silent(c)
  BY <1>1 DEF Silent
<1>4. \A d \in Channels : Head(tx[c]).motor \in MotorsOf(d) => d = c
  BY <1>2, NotFromHere
<1>. QED
  BY <1>2, <1>3, <1>4 DEF Over

\* What a motor does with the frame it gets is a step of its stream.
LEMMA DeliverImplements ==
  ASSUME TypeOK, OrderInv, TxInv, AgeInv, [Next]_vars, NEW c \in Channels, Deliver(c)
  PROVE  [Stream!Next]_(Stream!streamVars)
<1>. DEFINE f == Head(tx[c])
<1>1. /\ tx[c] # <<>> /\ tx' = [tx EXCEPT ![c] = Tail(@)]
      /\ UNCHANGED <<shutdown, tpc, action>>
  BY DEF Deliver, sharedVars, threadVars
<1>2. f \in Frames /\ BusType /\ MotorType
  BY <1>1 DEF TypeOK, BusType
<1>3. f.motor \in Motors /\ f.kind \in {"ENABLE", "STOP", "MIT"} /\ f.motor \in MotorsOf(c)
  <2>1. f.motor \in Motors /\ f.kind \in {"ENABLE", "STOP", "MIT"}
    BY <1>2 DEF Frames
  <2>2. 1 \in DOMAIN tx[c] /\ f = tx[c][1]
    BY <1>1, <1>2 DEF BusType
  <2>. QED
    BY <2>1, <2>2 DEF TxInv
<1>4. Stream!Ends /\ (f.kind # "MIT" => UNCHANGED Over)
  <2>1. Stream!Ends
    BY StreamsEnd DEF OrderInv
  <2>2. f.kind # "MIT" => UNCHANGED Over
    BY <1>1, <1>2, SilentKept
  <2>. QED
    BY <2>1, <2>2
<1>5. CASE UNCHANGED <<drive, cmd>>
  BY <1>1, <1>4, <1>5 DEF Stream!Next, Stream!End
<1>6. CASE Execute(f)
  <2>1. CASE f.kind = "ENABLE"
    <3>1. drive' = [drive EXCEPT ![f.motor] = "run"] /\ cmd' = cmd
      BY <1>6, <2>1 DEF Execute
    <3>2. Stream!Enable(f.motor)
      BY <1>1, <1>4, <2>1, <3>1 DEF Stream!Enable
    <3>. QED
      BY <1>3, <3>2 DEF Stream!Next
  <2>2. CASE f.kind = "STOP"
    <3>1. drive' = [drive EXCEPT ![f.motor] = "reset"] /\ cmd' = cmd
      BY <1>6, <2>2 DEF Execute
    <3>2. Over[f.motor]
      BY <1>1, <1>3, <2>2, StoppedIsOver DEF OrderInv, Over
    <3>3. Stream!Reset(f.motor)
      BY <1>1, <1>4, <2>2, <3>1, <3>2 DEF Stream!Reset
    <3>. QED
      BY <1>3, <3>3 DEF Stream!Next
  <2>3. CASE f.kind = "MIT" /\ drive[f.motor] = "run"
    <3>1. drive' = drive /\ cmd' = [cmd EXCEPT ![f.motor] = f.act]
      BY <1>2, <1>6, <2>3 DEF Execute, MotorType
    <3>2. f.act \in cmd[f.motor] .. action
      <4>1. cmd'[f.motor] = f.act
        BY <1>2, <1>3, <3>1 DEF MotorType
      <4>2. cmd'[f.motor] \in cmd[f.motor] .. action
        BY <1>3, AgeInvStep
      <4>. QED
        BY <4>1, <4>2
    <3>3. ~Over[f.motor]
      BY <1>1, <2>3, CommandedIsNotOver
    <3>4. Stream!Command(f.motor)
      BY <1>1, <1>4, <2>3, <3>1, <3>2, <3>3 DEF Stream!Command
    <3>. QED
      BY <1>3, <3>4 DEF Stream!Next
  <2>4. CASE f.kind = "MIT" /\ drive[f.motor] # "run"
    <3>1. drive' = drive /\ cmd' = cmd
      BY <1>2, <1>6, <2>4 DEF Execute, MotorType
    <3>. QED
      BY <1>5, <3>1
  <2>. QED
    BY <1>3, <2>1, <2>2, <2>3, <2>4
<1>. QED
  BY <1>5, <1>6 DEF Deliver

LEMMA StreamStep ==
  ASSUME TypeOK, OrderInv, TxInv, AgeInv, [Next]_vars
  PROVE  [Stream!Next]_(Stream!streamVars)
<1>1. Stream!Ends
  BY StreamsEnd DEF OrderInv
<1>2. CASE UNCHANGED <<action, drive, cmd>>
  BY <1>1, <1>2 DEF Stream!Next, Stream!End
<1>3. CASE StoreAction
  <2>1. action' = action + 1 /\ UNCHANGED <<shutdown, tpc, tx, drive, cmd>>
    BY <1>3 DEF StoreAction, threadVars, busVars, motorVars
  <2>2. UNCHANGED Over
    BY <2>1 DEF Over, Silent
  <2>. QED
    BY <2>1, <2>2 DEF Stream!Next, Stream!Store
<1>4. ASSUME NEW c \in Channels, Deliver(c) PROVE [Stream!Next]_(Stream!streamVars)
  BY <1>4, DeliverImplements
<1>5. UNCHANGED <<action, drive, cmd>> \/ StoreAction \/ \E c \in Channels : Deliver(c)
  BY DEF Next, vars, sharedVars, motorVars, Calls, CallStep, ThreadStep, BusStep, SetShutdown,
     BeginStart, Enable, CreateThread, CreateFails, BeginStop, Join, Stop, Test, Load,
     Send, DrainFrame, DrainEnds, Publish, Wake, Tick, Lose, OtherTraffic, Unplug
<1>. QED
  BY <1>2, <1>3, <1>4, <1>5

(***************************************************************************)
(* Whatever the caller, the threads, the signals and the buses do: motors  *)
(* get stored actions in their order, are stopped behind their last        *)
(* command, and get no command afterwards, enabled again or not.           *)
(***************************************************************************)
THEOREM StreamImplemented == Spec => ImplementsStream
<1>1. Init => OrderInv /\ TxInv /\ AgeInv
  <2>1. Init => OrderInv
    BY DEF Init, NoCall, OrderInv, CallInv, StopInv, QueuedStop, StopsLast
  <2>2. Init => TxInv /\ AgeInv
    BY DEF Init, TxInv, AgeInv, CmdInv, QueueInv, SendInv, MitsOf
  <2>. QED
    BY <2>1, <2>2
<1>2. TypeOK /\ OrderInv /\ TxInv /\ AgeInv /\ [Next]_vars => OrderInv' /\ TxInv' /\ AgeInv'
  BY CallInvStep, StopInvStep, NoMitStep, TxInvStep, AgeInvStep DEF OrderInv
<1>3. Init => Stream!Init
  <2>. SUFFICES ASSUME Init PROVE Stream!Init
    OBVIOUS
  <2>1. ~shutdown
    BY DEF Init
  <2>2. Over = [m \in Motors |-> FALSE]
    BY <2>1 DEF Over, Silent
  <2>. QED
    BY <2>2 DEF Init, Stream!Init
<1>4. TypeOK /\ OrderInv /\ TxInv /\ AgeInv /\ [Next]_vars => [Stream!Next]_(Stream!streamVars)
  BY StreamStep
<1>. QED
  BY <1>1, <1>2, <1>3, <1>4, TypeCorrect, PTL DEF Spec, ImplementsStream, Stream!Spec
=============================================================================
