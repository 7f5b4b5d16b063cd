----------------------------- MODULE MotorThread -----------------------------
(***************************************************************************)
(* MotorThread (src/motor_thread.cpp), one object per CAN channel, with    *)
(* the Robstride objects it drives (src/robstride.cpp) and the channel it  *)
(* writes to and reads from (src/pcan_channel.cpp).                        *)
(*                                                                         *)
(* Actors: the one thread of the program that calls start() and stop(),    *)
(* the RT thread of each started object, and outside src/ the thread that  *)
(* stores actions, the CAN bus, the motors and the clock.  A load() or     *)
(* store() of a shared slot is one step: SeqLock implements AtomicCell.    *)
(* A local variable has its first value again when it goes out of scope.   *)
(***************************************************************************)
EXTENDS Integers, Sequences

CONSTANTS
  NumChannels,  \* NUM_CHANNELS
  Motors,       \* all the motors
  Bindings,     \* per channel, its motors in the order of motors_
  Id,           \* per motor, its CAN id
  MaxFrames,    \* MAX_FRAMES_PER_CYCLE
  Timeout,      \* MOTOR_TIMEOUT_CYCLES, in periods
  TxCap,        \* frames the driver's transmit queue of a channel holds
  RxCap,        \* frames its receive queue holds; 0: nothing is received
  MaxActions,   \* bound: actions stored in one behaviour
  MaxFaults     \* bound: faults of system, bus and motors in one behaviour

Channels == 0 .. NumChannels - 1

MotorsOf(c) == {Bindings[c][i] : i \in DOMAIN Bindings[c]}

ASSUME ConfigAssumption ==
  /\ NumChannels \in Nat \ {0}
  /\ Bindings \in [Channels -> Seq(Motors) \ {<<>>}]
  /\ \A c, d \in Channels : c # d => MotorsOf(c) \cap MotorsOf(d) = {}

\* "A CAN id only has to be unique within its channel" (robot_config.hpp).
ASSUME IdAssumption ==
  /\ Id \in [Motors -> Nat]
  /\ \A c \in Channels : \A i, j \in DOMAIN Bindings[c] :
       Id[Bindings[c][i]] = Id[Bindings[c][j]] => i = j

ASSUME BoundAssumption ==
  /\ {MaxFrames, Timeout, TxCap} \subseteq Nat \ {0}
  /\ {RxCap, MaxActions, MaxFaults} \subseteq Nat

VARIABLES
  shutdown,     \* SharedState::shutdown
  action,       \* SharedState::action: number of the stored action, 0: !valid
  slot,         \* SharedState::channel: per motor, the sender of q, and online
  started,      \* started_
  call,         \* start() or stop() under way, and where it is
  tpc,          \* per channel, where its RT thread is; "none": no thread
  next,         \* index of the motor the send loop is at
  act,          \* act of send_commands()
  count,        \* count of drain_feedback()
  fb,           \* last_feedback_: its sender, its age in periods
  tx, rx,       \* the queues of each channel
  drive,        \* motor: "run" once enabled, "reset" once stopped
  cmd,          \* motor: number of the action it executes
  plugged,      \* motor: on the bus
  faults,       \* faults so far
  lostStops     \* history: STOPs the motor did not execute; 2: two or more

sharedVars == <<shutdown, action, slot>>
objectVars == <<started, call>>
threadVars == <<tpc, next, act, count, fb>>
busVars    == <<tx, rx>>
motorVars  == <<drive, cmd, plugged>>
vars == <<sharedVars, objectVars, threadVars, busVars, motorVars, faults, lostStops>>

NoCall == [fn |-> "none", ch |-> 0, at |-> "none", i |-> 0]

NoMotor == "no motor"

Frames == [kind : {"ENABLE", "STOP", "MIT"}, motor : Motors, act : 0 .. MaxActions]

Frame(kind, m, a) == [kind |-> kind, motor |-> m, act |-> a]

\* A frame that is no motor's feedback: another type, or not extended.
Other == [kind |-> "OTHER", motor |-> NoMotor]

Replies == {Other} \cup [kind : {"FEEDBACK"}, motor : Motors]

-----------------------------------------------------------------------------
Init ==
  /\ shutdown = FALSE
  /\ action = 0
  /\ slot = [m \in Motors |-> [src |-> NoMotor, online |-> FALSE]]
  /\ started = [c \in Channels |-> FALSE]
  /\ call = NoCall
  /\ tpc = [c \in Channels |-> "none"]
  /\ next = [c \in Channels |-> 1]
  /\ act = [c \in Channels |-> 0]
  /\ count = [c \in Channels |-> 0]
  /\ fb = [m \in Motors |-> [src |-> NoMotor, age |-> Timeout]]
  /\ tx = [c \in Channels |-> <<>>]
  /\ rx = [c \in Channels |-> <<>>]
  /\ drive = [m \in Motors |-> "reset"]
  /\ cmd = [m \in Motors |-> 0]
  /\ plugged = [m \in Motors |-> TRUE]
  /\ faults = 0
  /\ lostStops = [m \in Motors |-> 0]

Fault == faults < MaxFaults /\ faults' = faults + 1

Missed(f) ==
  lostStops' = IF f.kind = "STOP" /\ lostStops[f.motor] < 2
               THEN [lostStops EXCEPT ![f.motor] = @ + 1] ELSE lostStops

(***************************************************************************)
(* PcanChannel::write_extended(): CAN_Write refuses a frame when the       *)
(* transmit queue is full.  None of the callers below looks at the result  *)
(* (start() only prints it), so a refused frame is a lost one.             *)
(***************************************************************************)
Write(c, f) ==
  \/ /\ Len(tx[c]) < TxCap
     /\ tx' = [tx EXCEPT ![c] = Append(@, f)]
     /\ UNCHANGED lostStops
  \/ /\ Len(tx[c]) >= TxCap
     /\ UNCHANGED tx
     /\ Missed(f)

(***************************************************************************)
(* start(): enable() for each motor, then pthread_create().                *)
(***************************************************************************)
BeginStart(c) ==
  /\ call = NoCall
  /\ ~started[c]
  /\ call' = [fn |-> "start", ch |-> c, at |-> "enable", i |-> 1]
  /\ UNCHANGED <<sharedVars, started, threadVars, busVars, motorVars, faults, lostStops>>

Enable ==
  /\ call.at = "enable"
  /\ Write(call.ch, Frame("ENABLE", Bindings[call.ch][call.i], 0))
  /\ call' = IF call.i < Len(Bindings[call.ch])
             THEN [call EXCEPT !.i = @ + 1] ELSE [call EXCEPT !.at = "create"]
  /\ UNCHANGED <<sharedVars, started, threadVars, rx, motorVars, faults>>

\* Faulty: do ... while (!shutdown).
CreateInLoop ==
  /\ call.at = "create"
  /\ tpc' = [tpc EXCEPT ![call.ch] = "load"]
  /\ started' = [started EXCEPT ![call.ch] = TRUE]
  /\ call' = NoCall
  /\ UNCHANGED <<sharedVars, next, act, count, fb, busVars, motorVars, faults, lostStops>>

CreateThread ==
  /\ call.at = "create"
  /\ tpc' = [tpc EXCEPT ![call.ch] = "test"]
  /\ started' = [started EXCEPT ![call.ch] = TRUE]
  /\ call' = NoCall
  /\ UNCHANGED <<sharedVars, next, act, count, fb, busVars, motorVars, faults, lostStops>>

\* start() returns the error; the motors stay as enable() left them.
CreateFails ==
  /\ call.at = "create"
  /\ Fault
  /\ call' = NoCall
  /\ UNCHANGED <<sharedVars, started, threadVars, busVars, motorVars, lostStops>>

(***************************************************************************)
(* stop(): shutdown for every thread, join, then STOP twice per motor.     *)
(***************************************************************************)
BeginStop(c) ==
  /\ call = NoCall
  /\ started[c]
  /\ shutdown' = TRUE
  /\ call' = [fn |-> "stop", ch |-> c, at |-> "join", i |-> 1]
  /\ UNCHANGED <<action, slot, started, threadVars, busVars, motorVars, faults, lostStops>>

\* Faulty: stop() does not wait for the thread to end.
JoinAtOnce ==
  /\ call.at = "join"
  /\ call' = [call EXCEPT !.at = "stop"]
  /\ UNCHANGED <<sharedVars, started, threadVars, busVars, motorVars, faults, lostStops>>

Join ==
  /\ call.at = "join"
  /\ tpc[call.ch] = "exited"
  /\ tpc' = [tpc EXCEPT ![call.ch] = "none"]
  /\ call' = [call EXCEPT !.at = "stop"]
  /\ UNCHANGED <<sharedVars, started, next, act, count, fb, busVars, motorVars, faults, lostStops>>

\* Faulty: one STOP per motor.
StopOnce ==
  LET last == call.i = Len(Bindings[call.ch])
  IN /\ call.at = "stop"
     /\ Write(call.ch, Frame("STOP", Bindings[call.ch][call.i], 0))
     /\ call' = IF last THEN NoCall ELSE [call EXCEPT !.i = @ + 1]
     /\ started' = [started EXCEPT ![call.ch] = ~last]
     /\ UNCHANGED <<sharedVars, threadVars, rx, motorVars, faults>>

Stop ==
  LET last == call.i = 2 * Len(Bindings[call.ch])
  IN /\ call.at = "stop"
     /\ Write(call.ch, Frame("STOP", Bindings[call.ch][(call.i + 1) \div 2], 0))
     /\ call' = IF last THEN NoCall ELSE [call EXCEPT !.i = @ + 1]
     /\ started' = [started EXCEPT ![call.ch] = ~last]
     /\ UNCHANGED <<sharedVars, threadVars, rx, motorVars, faults>>

\* A signal handler, or main() itself: shared.shutdown.store(true).
SetShutdown ==
  /\ shutdown' = TRUE
  /\ UNCHANGED <<action, slot, objectVars, threadVars, busVars, motorVars, faults, lostStops>>

-----------------------------------------------------------------------------
(***************************************************************************)
(* run(): the loop of the RT thread of channel c.                          *)
(***************************************************************************)
\* Faulty: while (true).
TestForever(c) ==
  /\ tpc[c] = "test"
  /\ tpc' = [tpc EXCEPT ![c] = "load"]
  /\ UNCHANGED <<sharedVars, objectVars, next, act, count, fb, busVars, motorVars, faults, lostStops>>

Test(c) ==
  /\ tpc[c] = "test"
  /\ tpc' = [tpc EXCEPT ![c] = IF shutdown THEN "exited" ELSE "load"]
  /\ UNCHANGED <<sharedVars, objectVars, next, act, count, fb, busVars, motorVars, faults, lostStops>>

\* Faulty: act.valid is tested the wrong way round.
LoadInverted(c) ==
  /\ tpc[c] = "load"
  /\ tpc' = [tpc EXCEPT ![c] = "send"]
  /\ act' = [act EXCEPT ![c] = 0]
  /\ UNCHANGED <<sharedVars, objectVars, next, count, fb, busVars, motorVars, faults, lostStops>>

\* send_commands(): one snapshot for all the motors of the channel.
Load(c) ==
  /\ tpc[c] = "load"
  /\ tpc' = [tpc EXCEPT ![c] = "send"]
  /\ act' = [act EXCEPT ![c] = action]
  /\ UNCHANGED <<sharedVars, objectVars, next, count, fb, busVars, motorVars, faults, lostStops>>

\* Faulty: the send loop goes one motor too far.
SendTooFar(c) ==
  LET last == next[c] > Len(Bindings[c])
  IN /\ tpc[c] = "send"
     /\ Write(c, Frame("MIT", Bindings[c][next[c]], act[c]))
     /\ IF last THEN /\ tpc' = [tpc EXCEPT ![c] = "drain"]
                     /\ next' = [next EXCEPT ![c] = 1]
                     /\ act' = [act EXCEPT ![c] = 0]
                ELSE /\ next' = [next EXCEPT ![c] = @ + 1]
                     /\ UNCHANGED <<tpc, act>>
     /\ UNCHANGED <<sharedVars, objectVars, count, fb, rx, motorVars, faults>>

\* One MIT frame; act 0 stands for zero gains and zero torque.
Send(c) ==
  LET last == next[c] = Len(Bindings[c])
  IN /\ tpc[c] = "send"
     /\ Write(c, Frame("MIT", Bindings[c][next[c]], act[c]))
     /\ IF last THEN /\ tpc' = [tpc EXCEPT ![c] = "drain"]
                     /\ next' = [next EXCEPT ![c] = 1]
                     /\ act' = [act EXCEPT ![c] = 0]
                ELSE /\ next' = [next EXCEPT ![c] = @ + 1]
                     /\ UNCHANGED <<tpc, act>>
     /\ UNCHANGED <<sharedVars, objectVars, count, fb, rx, motorVars, faults>>

\* Faulty: the id in the frame is not compared.
MatchesAny(c, f) == {i \in DOMAIN Bindings[c] : f.kind = "FEEDBACK"}

\* Faulty: the id 0 is taken for no id.
MatchesSet(c, f) ==
  {i \in DOMAIN Bindings[c] :
     f.kind = "FEEDBACK" /\ Id[f.motor] # 0 /\ Id[Bindings[c][i]] = Id[f.motor]}

\* try_parse_feedback() of every bound motor in turn, up to the first match.
Matches(c, f) ==
  {i \in DOMAIN Bindings[c] :
     f.kind = "FEEDBACK" /\ Id[Bindings[c][i]] = Id[f.motor]}

FirstMatch(c, f) ==
  Bindings[c][CHOOSE i \in Matches(c, f) : \A j \in Matches(c, f) : i <= j]

Offer(c, f) ==
  IF Matches(c, f) = {} THEN fb' = fb
  ELSE fb' = [fb EXCEPT ![FirstMatch(c, f)] = [src |-> f.motor, age |-> 0]]

\* Faulty: frames are not counted.
DrainUncounted(c) ==
  /\ tpc[c] = "drain"
  /\ rx[c] # <<>>
  /\ rx' = [rx EXCEPT ![c] = Tail(@)]
  /\ Offer(c, Head(rx[c]))
  /\ UNCHANGED <<sharedVars, objectVars, tpc, next, act, count, tx, motorVars, faults, lostStops>>

(***************************************************************************)
(* drain_feedback(): the condition of the loop reads a frame first and     *)
(* looks at count afterwards, so the frame after the last one the loop may *)
(* take is read too, and dropped.                                          *)
(***************************************************************************)
DrainFrame(c) ==
  /\ tpc[c] = "drain"
  /\ rx[c] # <<>>
  /\ rx' = [rx EXCEPT ![c] = Tail(@)]
  /\ \/ /\ count[c] < MaxFrames
        /\ Offer(c, Head(rx[c]))
        /\ count' = [count EXCEPT ![c] = @ + 1]
        /\ UNCHANGED tpc
     \/ /\ count[c] >= MaxFrames
        /\ tpc' = [tpc EXCEPT ![c] = "publish"]
        /\ count' = [count EXCEPT ![c] = 0]
        /\ UNCHANGED fb
  /\ UNCHANGED <<sharedVars, objectVars, next, act, tx, motorVars, faults, lostStops>>

\* read() finds the queue empty, or fails: the error is printed, no more.
DrainEnds(c) ==
  /\ tpc[c] = "drain"
  /\ \/ rx[c] = <<>> /\ UNCHANGED faults
     \/ Fault
  /\ tpc' = [tpc EXCEPT ![c] = "publish"]
  /\ count' = [count EXCEPT ![c] = 0]
  /\ UNCHANGED <<sharedVars, objectVars, next, act, fb, busVars, motorVars, lostStops>>

\* Faulty: a motor that was heard of once is online.
PublishAgeless(c) ==
  /\ tpc[c] = "publish"
  /\ slot' = [m \in Motors |->
                IF m \in MotorsOf(c)
                THEN [src |-> fb[m].src, online |-> fb[m].src # NoMotor]
                ELSE slot[m]]
  /\ tpc' = [tpc EXCEPT ![c] = "sleep"]
  /\ UNCHANGED <<shutdown, action, objectVars, next, act, count, fb, busVars, motorVars, faults, lostStops>>

\* channel[c].store(s) replaces the entries of all the motors of channel c.
Publish(c) ==
  /\ tpc[c] = "publish"
  /\ slot' = [m \in Motors |->
                IF m \in MotorsOf(c)
                THEN [src |-> fb[m].src, online |-> fb[m].age < Timeout]
                ELSE slot[m]]
  /\ tpc' = [tpc EXCEPT ![c] = "sleep"]
  /\ UNCHANGED <<shutdown, action, objectVars, next, act, count, fb, busVars, motorVars, faults, lostStops>>

\* sleep_until_next_period(): returns sooner or later, see Tick.
Wake(c) ==
  /\ tpc[c] = "sleep"
  /\ tpc' = [tpc EXCEPT ![c] = "test"]
  /\ UNCHANGED <<sharedVars, objectVars, next, act, count, fb, busVars, motorVars, faults, lostStops>>

-----------------------------------------------------------------------------
(***************************************************************************)
(* Outside src/.                                                           *)
(***************************************************************************)
\* Another thread, the policy or main(), stores a valid action.
StoreAction ==
  /\ action < MaxActions
  /\ action' = action + 1
  /\ UNCHANGED <<shutdown, slot, objectVars, threadVars, busVars, motorVars, faults, lostStops>>

\* A period passes; the thread may be anywhere, late or catching up.
Tick(c) ==
  /\ fb' = [m \in Motors |->
              IF m \in MotorsOf(c) /\ fb[m].age < Timeout
              THEN [fb[m] EXCEPT !.age = @ + 1] ELSE fb[m]]
  /\ UNCHANGED <<sharedVars, objectVars, tpc, next, act, count, busVars, motorVars, faults, lostStops>>

\* A frame that reaches a full receive queue is lost.
Receive(c, f) ==
  rx' = IF Len(rx[c]) < RxCap THEN [rx EXCEPT ![c] = Append(@, f)] ELSE rx

(***************************************************************************)
(* A motor on the bus executes the next frame and answers it with its      *)
(* feedback.  An MIT command has no effect on a motor that is not enabled. *)
(***************************************************************************)
Execute(f) ==
  /\ drive' = [drive EXCEPT ![f.motor] =
                  IF f.kind = "ENABLE" THEN "run"
                  ELSE IF f.kind = "STOP" THEN "reset" ELSE @]
  /\ cmd' = IF f.kind = "MIT" /\ drive[f.motor] = "run"
            THEN [cmd EXCEPT ![f.motor] = f.act] ELSE cmd

Deliver(c) ==
  /\ tx[c] # <<>>
  /\ tx' = [tx EXCEPT ![c] = Tail(@)]
  /\ LET f == Head(tx[c])
     IN IF plugged[f.motor]
        THEN /\ Execute(f)
             /\ Receive(c, [kind |-> "FEEDBACK", motor |-> f.motor])
             /\ UNCHANGED lostStops
        ELSE /\ Missed(f)
             /\ UNCHANGED <<drive, cmd, rx>>
  /\ UNCHANGED <<sharedVars, objectVars, threadVars, plugged, faults>>

\* A frame is lost on the bus.
Lose(c) ==
  /\ tx[c] # <<>>
  /\ Fault
  /\ tx' = [tx EXCEPT ![c] = Tail(@)]
  /\ Missed(Head(tx[c]))
  /\ UNCHANGED <<sharedVars, objectVars, threadVars, rx, motorVars>>

\* Traffic that is not feedback: type-24 reports, other tools, error frames.
OtherTraffic(c) ==
  /\ Len(rx[c]) < RxCap
  /\ Receive(c, Other)
  /\ UNCHANGED <<sharedVars, objectVars, threadVars, tx, motorVars, faults, lostStops>>

Unplug(m) ==
  /\ plugged[m]
  /\ Fault
  /\ plugged' = [plugged EXCEPT ![m] = FALSE]
  /\ UNCHANGED <<sharedVars, objectVars, threadVars, busVars, drive, cmd, lostStops>>

-----------------------------------------------------------------------------
Calls == (\E c \in Channels : BeginStart(c) \/ BeginStop(c)) \/ SetShutdown

CallStep == Enable \/ CreateThread \/ CreateFails \/ Join \/ Stop

ThreadStep(c) ==
  Test(c) \/ Load(c) \/ Send(c) \/ DrainFrame(c) \/ DrainEnds(c) \/ Publish(c) \/ Wake(c)

BusStep ==
  \/ \E c \in Channels : Tick(c) \/ Deliver(c) \/ Lose(c) \/ OtherTraffic(c)
  \/ \E m \in Motors : Unplug(m)

Next ==
  \/ Calls
  \/ CallStep
  \/ \E c \in Channels : ThreadStep(c)
  \/ BusStep
  \/ StoreAction

Spec == Init /\ [][Next]_vars

(***************************************************************************)
(* A started thread keeps running (SCHED_FIFO 90, the highest priority of  *)
(* the program), a call that was begun goes on, the bus carries what is    *)
(* queued, and time passes.  Nobody has to call anything or store an       *)
(* action, nothing has to fail, and other traffic need not come or stop.   *)
(***************************************************************************)
Fairness ==
  /\ WF_vars(CallStep)
  /\ \A c \in Channels :
       WF_vars(ThreadStep(c)) /\ WF_vars(Deliver(c)) /\ WF_vars(Tick(c))

FairSpec == Spec /\ Fairness

-----------------------------------------------------------------------------
SharedType ==
  /\ shutdown \in BOOLEAN
  /\ action \in 0 .. MaxActions
  /\ slot \in [Motors -> [src : Motors \cup {NoMotor}, online : BOOLEAN]]

CallType ==
  /\ started \in [Channels -> BOOLEAN]
  /\ call \in {NoCall} \cup
       [fn : {"start"}, ch : Channels, at : {"enable", "create"}, i : Nat] \cup
       [fn : {"stop"}, ch : Channels, at : {"join", "stop"}, i : Nat]
  /\ call.at = "enable" => call.i \in DOMAIN Bindings[call.ch]
  /\ call.fn = "stop" => call.i \in 1 .. 2 * Len(Bindings[call.ch])

ThreadType ==
  /\ tpc \in [Channels -> {"none", "test", "load", "send", "drain",
                           "publish", "sleep", "exited"}]
  /\ next \in [Channels -> Nat]
  /\ \A c \in Channels : next[c] \in DOMAIN Bindings[c]
  /\ act \in [Channels -> 0 .. MaxActions]
  /\ count \in [Channels -> 0 .. MaxFrames]
  /\ fb \in [Motors -> [src : Motors \cup {NoMotor}, age : 0 .. Timeout]]

BusType ==
  /\ tx \in [Channels -> Seq(Frames)]
  /\ rx \in [Channels -> Seq(Replies)]

MotorType ==
  /\ drive \in [Motors -> {"reset", "run"}]
  /\ cmd \in [Motors -> 0 .. MaxActions]
  /\ plugged \in [Motors -> BOOLEAN]
  /\ faults \in 0 .. MaxFaults
  /\ lostStops \in [Motors -> 0 .. 2]

\* Types, and the bounds the loops of the code keep their indices within.
TypeOK == SharedType /\ CallType /\ ThreadType /\ BusType /\ MotorType

(***************************************************************************)
(* stop() joins the thread before it writes the first STOP (lines 70-77 of *)
(* motor_thread.cpp), so no MIT command is queued behind a STOP for the    *)
(* same motor, not even when another channel's stop(), a signal or a       *)
(* second start() comes in between.                                        *)
(***************************************************************************)
NoMitAfterStop ==
  \A c \in Channels : \A i, j \in DOMAIN tx[c] :
    ~ /\ i < j
      /\ tx[c][i].kind = "STOP"
      /\ tx[c][j].kind = "MIT"
      /\ tx[c][i].motor = tx[c][j].motor

(***************************************************************************)
(* What a slot shows for a motor is that motor's own feedback, or nothing  *)
(* and offline: frames of other types, and feedback that carries the id of *)
(* another motor of the channel, do not get in.  Any feedback of its own   *)
(* does, in answer to MIT, ENABLE or STOP alike (try_parse_feedback(), and *)
(* publish_state() lines 217-221).                                         *)
(***************************************************************************)
FeedbackIsOwn ==
  \A m \in Motors :
    slot[m].src = m \/ slot[m] = [src |-> NoMotor, online |-> FALSE]

(***************************************************************************)
(* "stop(): shared.shutdown = true, then join": whatever traffic the bus   *)
(* carries, the call returns (MAX_FRAMES_PER_CYCLE bounds the drain loop). *)
(***************************************************************************)
StopReturns == (call.fn = "stop") ~> (call.fn # "stop")

(***************************************************************************)
(* "After N cycles without feedback the link is taken as lost"             *)
(* (robot_config.hpp line 168): the slot of a motor that has left the bus  *)
(* shows it offline for good, once its thread runs and unless shutdown is  *)
(* set: a thread that ends leaves its last word in the slot.               *)
(***************************************************************************)
SilentGoesOffline ==
  \A m \in Motors : ~plugged[m] ~> [](~slot[m].online \/ shutdown)

(***************************************************************************)
(* An action that is stored is executed, it or a later one, by every motor *)
(* of a running thread that is on the bus and enabled, as long as the bus  *)
(* keeps up and the thread is not told to end.                             *)
(***************************************************************************)
ActionReachesMotors ==
  \A c \in Channels : \A m \in MotorsOf(c) : \A a \in 1 .. MaxActions :
    <>[](Len(tx[c]) < TxCap)
      => ((action = a /\ tpc[c] = "test" /\ drive[m] = "run")
            ~> (cmd[m] >= a \/ shutdown \/ ~plugged[m]))

(***************************************************************************)
(* "Every frame is given to every motor of the channel" (motor_thread.cpp  *)
(* lines 162-163), also to one with the id 0: feedback taken off the queue *)
(* is stored for the motor that sent it, or MAX_FRAMES_PER_CYCLE frames    *)
(* were taken in this cycle before it.                                     *)
(***************************************************************************)
FeedbackIsStored ==
  [][\A c \in Channels :
       LET f == Head(rx[c])
       IN (Len(rx'[c]) < Len(rx[c]) /\ f.kind = "FEEDBACK")
            => \/ fb'[f.motor] = [src |-> f.motor, age |-> 0]
               \/ count[c] = MaxFrames]_vars

-----------------------------------------------------------------------------
(***************************************************************************)
(* The stream of commands to the motors of channel c is over: shutdown is  *)
(* set, the thread is not in its loop, and no command is on its way.       *)
(***************************************************************************)
Silent(c) ==
  /\ shutdown
  /\ tpc[c] \in {"none", "test", "exited"}
  /\ \A i \in DOMAIN tx[c] : tx[c][i].kind # "MIT"

Over == [m \in Motors |-> \E c \in Channels : m \in MotorsOf(c) /\ Silent(c)]

Stream ==
  INSTANCE CommandStream WITH newest <- action, seen <- cmd, power <- drive, over <- Over

(***************************************************************************)
(* The threads keep what CommandStream promises the motors: stored actions *)
(* in their order, STOPs only after the last command, and no command after *)
(* it, through stop(), signals, lost frames and a start() that follows.    *)
(***************************************************************************)
ImplementsStream == Stream!Spec
=============================================================================
