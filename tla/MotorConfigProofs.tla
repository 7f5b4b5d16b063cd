------------------------- MODULE MotorConfigProofs -------------------------
(***************************************************************************)
(* Proofs about MotorConfig, for any motors, ids, channels, retries and    *)
(* other traffic, any number of faults, and any command line.              *)
(***************************************************************************)
EXTENDS MotorConfig, MotorBusProofs

PlaceType == cmd \in Commands /\ ch \in Channels /\ target \in Ids

ResultType ==
  /\ seen \in Motors \cup {None}
  /\ found \subseteq Channels \X Ids \X Motors
  /\ result \in {None, "ok", "absent", "in use", "cancelled", "not sent", "unverified", "collision",
                 "unacknowledged", "off zero", "verified", "acknowledged", "error"}

-----------------------------------------------------------------------------
\* The constants of the bus and of the tool.
LEMMA Constants ==
  /\ Channels \subseteq Int /\ 0 \in Channels
  /\ Chan \in [Motors -> Channels]
  /\ Ids \subseteq Nat /\ \A i, j \in Ids : i .. j \subseteq Ids
  /\ Retries \in Nat \ {0} /\ MaxDrain \in Nat \ {0} /\ MaxFaults \in Nat
  BY BusConstants, ToolAssumption

\* The command line, as main() has checked it.
LEMMA CommandType ==
  ASSUME cmd \in Commands
  PROVE  /\ cmd.name \in {"scan", "get", "set-id", "set-zero"}
         /\ cmd.dry \in BOOLEAN /\ cmd.all \in BOOLEAN
         /\ cmd.ch \in Channels /\ cmd.a \in Ids /\ cmd.b \in Ids
         /\ cmd.name = "set-id" => cmd.a # cmd.b
  BY DEF Commands

\* drain() leaves the end of the queue, and the others alone.
LEMMA DrainedIsEnd ==
  ASSUME BusType, ch \in Channels, Drained
  PROVE  /\ rx' \in [Channels -> Seq(Replies \cup {Standard})]
         /\ \A c \in Channels : \A k \in DOMAIN rx'[c] :
              \E j \in DOMAIN rx[c] : rx'[c][k] = rx[c][j]
<1>. DEFINE q == rx[ch]
<1>1. q \in Seq(Replies \cup {Standard}) /\ rx \in [Channels -> Seq(Replies \cup {Standard})]
  BY DEF BusType
<1>2. PICK n \in 0 .. Len(q) : rx' = [rx EXCEPT ![ch] = SubSeq(q, n + 1, Len(q))]
  BY DEF Drained
<1>3. /\ SubSeq(q, n + 1, Len(q)) \in Seq(Replies \cup {Standard})
      /\ Len(SubSeq(q, n + 1, Len(q))) = Len(q) - n
      /\ \A k \in 1 .. Len(q) - n : SubSeq(q, n + 1, Len(q))[k] = q[n + k]
  BY <1>1
<1>4. \A k \in 1 .. Len(q) - n : n + k \in DOMAIN q
  BY <1>1
<1>5. \A k \in DOMAIN SubSeq(q, n + 1, Len(q)) :
        \E j \in DOMAIN q : SubSeq(q, n + 1, Len(q))[k] = q[j]
  <2>1. DOMAIN SubSeq(q, n + 1, Len(q)) = 1 .. Len(q) - n
    BY <1>1, <1>3
  <2>. QED
    BY <1>3, <1>4, <2>1
<1>6. rx' \in [Channels -> Seq(Replies \cup {Standard})]
  BY <1>1, <1>2, <1>3
<1>7. ASSUME NEW c \in Channels, NEW k \in DOMAIN rx'[c]
      PROVE  \E j \in DOMAIN rx[c] : rx'[c][k] = rx[c][j]
  <2>1. rx'[c] = IF c = ch THEN SubSeq(q, n + 1, Len(q)) ELSE rx[c]
    BY <1>1, <1>2
  <2>. QED
    BY <1>5, <1>7, <2>1
<1>. QED
  BY <1>6, <1>7

-----------------------------------------------------------------------------
(***************************************************************************)
(* The bus over one step.  The tool writes one frame to all the motors of  *)
(* its channel, and a motor takes one frame and answers it.                *)
(***************************************************************************)
Posted(f) ==
  \/ f.kind \in {"GET_ID", "PARAM_READ"}
  \/ f.kind = "STOP" /\ at = "stop" /\ f.to = cmd.a
  \/ f.kind = "SET_CAN_ID" /\ at = "set" /\ cmd.name = "set-id" /\ f.to = cmd.a /\ f.arg = cmd.b
  \/ f.kind = "SET_ZERO" /\ at = "set" /\ cmd.name = "set-zero" /\ f.to = cmd.a

ToolWrites ==
  \/ UNCHANGED inbox
  \/ ~cmd.dry /\ \E f \in Frames : Posted(f) /\ Write(ch, f)

\* What the tool does to the bus: it drains and writes, or takes a frame.
ToolOnBus ==
  /\ UNCHANGED motorVars
  /\ ToolWrites
  /\ \/ UNCHANGED rx
     \/ Drained
     \/ rx[ch] # <<>> /\ rx' = [rx EXCEPT ![ch] = Tail(@)]
  /\ UNCHANGED faults \/ Fault
  /\ UNCHANGED missed \/ \E kind \in Kinds \cup {"OPEN"} : HostFails(kind)

LEMMA ToolOnBusStep ==
  ASSUME PlaceType, ToolStep \/ Expire \/ Confirm
  PROVE  ToolOnBus
<1>. USE DEF PlaceType, ToolOnBus, ToolWrites
<1>0. cmd.dry \in BOOLEAN /\ cmd.a \in Ids /\ cmd.b \in Ids
  BY CommandType
<1>1. ASSUME NEW f \in Frames, Send(f), Posted(f) PROVE ToolOnBus
  BY <1>1 DEF Send, Drain
<1>. HIDE DEF ToolOnBus
<1>2. ASSUME NEW kind \in Kinds, Refused(kind) PROVE ToolOnBus
  BY <1>2 DEF Refused, HostFails, ToolOnBus
<1>3. CASE Open
  BY <1>3 DEF Open, HostFails, ToolOnBus
<1>4. CASE Query
  <2>1. Frame("GET_ID", target) \in Frames /\ Posted(Frame("GET_ID", target))
    BY FrameType DEF Kinds, Posted
  <2>2. Send(Frame("GET_ID", target)) \/ Refused("GET_ID")
    BY <1>4 DEF Query
  <2>. QED
    BY <1>1, <1>2, <2>1, <2>2 DEF Kinds
<1>5. CASE Receive
  BY <1>5 DEF Receive, ToolOnBus
<1>6. CASE SendStop
  <2>1. Frame("STOP", cmd.a) \in Frames /\ Posted(Frame("STOP", cmd.a))
    BY <1>0, <1>6, FrameType DEF Kinds, Posted, SendStop
  <2>2. Send(Frame("STOP", cmd.a)) \/ Refused("STOP")
    BY <1>6 DEF SendStop
  <2>. QED
    BY <1>1, <1>2, <2>1, <2>2 DEF Kinds
<1>7. CASE Set
  <2>1. CASE cmd.name = "set-id" /\ Send([kind |-> "SET_CAN_ID", to |-> cmd.a, arg |-> cmd.b])
    <3>. DEFINE f == [kind |-> "SET_CAN_ID", to |-> cmd.a, arg |-> cmd.b]
    <3>1. f \in Frames
      BY <1>0, FrameType DEF Kinds
    <3>2. Posted(f)
      BY <1>7, <2>1 DEF Posted, Set
    <3>. QED
      BY <1>1, <2>1, <3>1, <3>2
  <2>2. CASE cmd.name = "set-zero" /\ Send(Frame("SET_ZERO", cmd.a))
    <3>1. Frame("SET_ZERO", cmd.a) \in Frames
      BY <1>0, FrameType DEF Kinds
    <3>2. Posted(Frame("SET_ZERO", cmd.a))
      BY <1>7, <2>2 DEF Posted, Set, Frame
    <3>. QED
      BY <1>1, <2>2, <3>1, <3>2
  <2>3. ASSUME NEW kind \in {"SET_CAN_ID", "SET_ZERO"}, Refused(kind) PROVE ToolOnBus
    BY <1>2, <2>3 DEF Kinds
  <2>. QED
    BY <1>7, <2>1, <2>2, <2>3 DEF Set
<1>8. CASE Read
  <2>1. Frame("PARAM_READ", target) \in Frames /\ Posted(Frame("PARAM_READ", target))
    BY FrameType DEF Kinds, Posted
  <2>2. Send(Frame("PARAM_READ", target)) \/ Refused("PARAM_READ")
    BY <1>8 DEF Read
  <2>. QED
    BY <1>1, <1>2, <2>1, <2>2 DEF Kinds
<1>9. CASE Expire \/ Confirm
  BY <1>9 DEF Expire, Confirm, busVars, ToolOnBus
<1>. QED
  BY <1>3, <1>4, <1>5, <1>6, <1>7, <1>8, <1>9 DEF ToolStep

\* Whatever the tool does, the queues hold frames and replies.
LEMMA ToolBusType ==
  ASSUME BusType, PlaceType, ToolOnBus
  PROVE  BusType'
<1>0. ch \in Channels
  BY DEF PlaceType
<1>1. inbox' \in [Motors -> Seq(Frames)]
  BY <1>0, WriteType DEF BusType, ToolOnBus, ToolWrites
<1>2. rx' \in [Channels -> Seq(Replies \cup {Standard})]
  <2>1. CASE rx[ch] # <<>> /\ rx' = [rx EXCEPT ![ch] = Tail(@)]
    <3>1. Tail(rx[ch]) \in Seq(Replies \cup {Standard})
      BY <1>0, <2>1 DEF BusType
    <3>. QED
      BY <2>1, <3>1 DEF BusType
  <2>. QED
    BY <1>0, <2>1, DrainedIsEnd DEF ToolOnBus, BusType
<1>3. faults' \in 0 .. MaxFaults
  BY FaultType DEF ToolOnBus
<1>4. missed' \subseteq (Motors \cup {Host}) \X (Kinds \cup {"OPEN"})
  BY DEF ToolOnBus, BusType, HostFails
<1>5. id' \in [Motors -> Ids] /\ run' \in [Motors -> BOOLEAN] /\ pos' \in [Motors -> Positions]
  BY DEF ToolOnBus, BusType, motorVars
<1>. QED
  BY <1>1, <1>2, <1>3, <1>4, <1>5 DEF BusType

\* The bus keeps its type over every step.
LEMMA BusTypeStep == BusType /\ PlaceType /\ [Next]_vars => BusType'
<1>. SUFFICES ASSUME BusType, PlaceType, [Next]_vars PROVE BusType'
  OBVIOUS
<1>1. CASE ToolStep \/ Expire \/ Confirm
  BY <1>1, ToolOnBusStep, ToolBusType
<1>2. CASE BusStep({ch} \ Closed)
  <2>1. {ch} \ Closed \subseteq Channels
    BY DEF PlaceType, Closed
  <2>. QED
    BY <1>2, <2>1, ObeyBusType, TrafficBusType DEF BusStep
<1>4. ToolStep \/ Expire \/ Confirm \/ BusStep({ch} \ Closed) \/ UNCHANGED vars
  BY DEF Next
<1>3. CASE UNCHANGED vars
  BY <1>3 DEF vars, busVars, motorVars, BusType
<1>. QED
  BY <1>1, <1>2, <1>3, <1>4, Zenon

-----------------------------------------------------------------------------
(***************************************************************************)
(* The course of a command: which steps belong to which command, and where *)
(* in the program they are taken.                                          *)
(***************************************************************************)
StepsOf(name) ==
  IF name = "set-id" THEN {"set-id", "new", "verify"}
  ELSE IF name = "set-zero" THEN {"set-zero", "before", "after"} ELSE {name}

PlaceOK(a, s, i, t) ==
  /\ a \in {"open", "query", "reply", "confirm", "stop", "set", "ack", "read", "value", "done"}
  /\ s \in StepsOf(cmd.name)
  /\ i \in Ids
  /\ t \in Nat \ {0}
  /\ a # "done" => t <= IF a \in {"query", "reply"} THEN Retries ELSE 3
  /\ a = "open" => t = 1
  /\ a \in {"open", "stop", "set", "ack"} => s = cmd.name
  /\ a \in {"confirm", "stop", "set"} => cmd.name \in {"set-id", "set-zero"}
  /\ a = "confirm" => s \notin {"verify", "after"}
  /\ a = "ack" => cmd.name = "set-zero"
  /\ a \in {"query", "reply"} => s \notin {"before", "after"}
  /\ a \in {"read", "value"} => s \in {"before", "after"}
  /\ (a # "done" /\ s = "verify") => i = cmd.b

Flow == PlaceOK(at, step, target, try) /\ (at # "done" => result = None)

Course == cmd \in Commands /\ ch \in Channels /\ ResultType /\ Flow

LEMMA CourseIsPlaced == Course => PlaceType
  BY DEF Course, PlaceType, Flow, PlaceOK

\* One run has one command line.
LEMMA CommandStays == [Next]_vars => UNCHANGED cmd
  BY DEF Next, ToolStep, Open, Query, Receive, SendStop, Set, Read, Expire, Confirm, Send, Refused,
         vars

\* The tool goes on, or ends.
LEMMA GoCourse ==
  ASSUME Course, at # "done", UNCHANGED <<cmd, result>>, ch' \in Channels, ResultType',
         NEW a, NEW s, NEW i, NEW t, Go(a, s, i, t), PlaceOK(a, s, i, t)
  PROVE  Course'
<1>1. /\ at' = a /\ step' = s /\ target' = i /\ try' = t
      /\ cmd' = cmd /\ result' = None /\ cmd \in Commands
  BY DEF Go, Course, Flow
<1>2. Flow'
  BY <1>1 DEF Flow, PlaceOK
<1>. QED
  BY <1>1, <1>2 DEF Course

LEMMA FinishCourse ==
  ASSUME Course, UNCHANGED cmd, ch' \in Channels, ResultType', NEW r, Finish(r)
  PROVE  Course'
<1>1. /\ at' = "done" /\ step' = step /\ target' = target /\ try' = try /\ cmd' = cmd
      /\ cmd \in Commands
  BY DEF Finish, Course
<1>2. step \in StepsOf(cmd.name) /\ target \in Ids /\ try \in Nat \ {0}
  BY DEF Course, Flow, PlaceOK
<1>3. Flow'
  BY <1>1, <1>2 DEF Flow, PlaceOK
<1>. QED
  BY <1>1, <1>3 DEF Course

Same == UNCHANGED <<cmd, toolVars>>

LEMMA SameCourse == Course /\ Same => Course'
<1>. SUFFICES ASSUME Course, Same PROVE Course'
  OBVIOUS
<1>1. UNCHANGED <<cmd, at, step, target, try, ch, seen, found, result>>
  BY DEF Same, toolVars, placeVars
<1>2. ResultType'
  BY <1>1 DEF Course, ResultType
<1>3. PlaceOK(at, step, target, try)'
  BY <1>1 DEF Course, Flow, PlaceOK
<1>. QED
  BY <1>1, <1>2, <1>3 DEF Course, Flow

\* What a command does with a device that answered, or with none.
LEMMA ReturnedStep ==
  ASSUME Course, at \in {"query", "reply"}, UNCHANGED cmd,
         NEW dev \in Motors \cup {None}, Returned(dev)
  PROVE  Course'
<1>0. /\ cmd.name \in {"scan", "get", "set-id", "set-zero"}
      /\ cmd.a \in Ids /\ cmd.b \in Ids /\ Retries \in Nat \ {0} /\ Channels \subseteq Int
      /\ ch \in Channels /\ target \in Ids /\ step \in StepsOf(cmd.name)
      /\ at # "done" /\ ResultType /\ result = None
  BY CommandType, Constants DEF Course, Flow, PlaceOK
<1>1. CASE Scanned(dev)
  <2>1. step = "scan" /\ cmd.name = "scan"
    BY <1>0, <1>1 DEF Scanned, StepsOf
  <2>2. seen' = seen /\ found' \subseteq Channels \X Ids \X Motors
    BY <1>0, <1>1 DEF Scanned, ResultType
  <2>3. CASE target < cmd.b /\ Go("query", step, target + 1, 1) /\ UNCHANGED <<ch, result>>
    <3>1. target + 1 \in Ids
      <4>1. target + 1 \in target .. cmd.b
        <5>1. target \in Nat /\ cmd.b \in Nat
          BY <1>0, Constants
        <5>. QED
          BY <2>3, <5>1
      <4>. QED
        BY <1>0, <4>1, Constants
    <3>2. PlaceOK("query", step, target + 1, 1)
      BY <1>0, <2>1, <3>1 DEF PlaceOK, StepsOf
    <3>3. ResultType'
      BY <1>0, <2>2, <2>3 DEF ResultType
    <3>. QED
      BY <1>0, <2>3, <3>2, <3>3, GoCourse
  <2>4. CASE NextChannel(found')
    <3>1. CASE ch + 1 \in Channels /\ ch' = ch + 1 /\ Go("open", step, cmd.a, 1) /\ UNCHANGED result
      <4>1. PlaceOK("open", step, cmd.a, 1)
        BY <1>0, <2>1 DEF PlaceOK, StepsOf
      <4>2. ResultType'
        BY <1>0, <2>2, <3>1 DEF ResultType
      <4>. QED
        BY <1>0, <3>1, <4>1, <4>2, GoCourse
    <3>2. ASSUME NEW r \in {"absent", "ok"}, Finish(r), UNCHANGED ch PROVE Course'
      <4>1. ResultType'
        BY <1>0, <2>2, <3>2 DEF ResultType, Finish
      <4>. QED
        BY <1>0, <3>2, <4>1, FinishCourse
    <3>. QED
      BY <2>4, <3>1, <3>2 DEF NextChannel
  <2>. QED
    BY <1>1, <2>3, <2>4 DEF Scanned
<1>r. ASSUME NEW r, Finish(r), UNCHANGED ch, ResultType' PROVE Course'
  BY <1>0, <1>r, FinishCourse
<1>2. CASE Got(dev)
  <2>1. found' \subseteq Channels \X Ids \X Motors
    BY <1>0, <1>2 DEF Got, ResultType
  <2>2. ResultType'
    BY <1>0, <1>2, <2>1 DEF Got, ResultType, Finish
  <2>. QED
    BY <1>2, <1>r, <2>2 DEF Got
<1>3. CASE OldChecked(dev)
  <2>1. CASE Finish("absent")
    BY <1>0, <1>3, <1>r, <2>1 DEF OldChecked, ResultType, Finish
  <2>2. CASE Go("query", "new", cmd.b, 1) /\ UNCHANGED result
    <3>1. PlaceOK("query", "new", cmd.b, 1)
      BY <1>0, <1>3 DEF PlaceOK, StepsOf, OldChecked
    <3>2. ResultType'
      BY <1>0, <1>3, <2>2 DEF OldChecked, ResultType
    <3>. QED
      BY <1>0, <1>3, <2>2, <3>1, <3>2, GoCourse DEF OldChecked
  <2>. QED
    BY <1>3, <2>1, <2>2 DEF OldChecked
<1>4. CASE NewChecked(dev)
  <2>1. CASE Finish("in use")
    BY <1>0, <1>4, <1>r, <2>1 DEF NewChecked, ResultType, Finish
  <2>2. CASE Go("confirm", step, target, 1) /\ UNCHANGED result
    <3>1. PlaceOK("confirm", step, target, 1)
      <4>1. step = "new" /\ cmd.name = "set-id"
        BY <1>0, <1>4 DEF StepsOf, NewChecked
      <4>. QED
        BY <1>0, <4>1 DEF PlaceOK, StepsOf
    <3>2. ResultType'
      BY <1>0, <1>4, <2>2 DEF NewChecked, ResultType
    <3>. QED
      BY <1>0, <1>4, <2>2, <3>1, <3>2, GoCourse DEF NewChecked
  <2>. QED
    BY <1>4, <2>1, <2>2 DEF NewChecked
<1>5. CASE Verified(dev)
  <2>1. ResultType'
    BY <1>0, <1>5 DEF Verified, ResultType, Finish
  <2>. QED
    BY <1>5, <1>r, <2>1 DEF Verified
<1>6. CASE Identified(dev)
  <2>1. CASE Finish("absent")
    BY <1>0, <1>6, <1>r, <2>1 DEF Identified, ResultType, Finish
  <2>2. CASE Go("read", "before", cmd.a, 1) /\ UNCHANGED result
    <3>1. PlaceOK("read", "before", cmd.a, 1)
      BY <1>0, <1>6 DEF PlaceOK, StepsOf, Identified
    <3>2. ResultType'
      BY <1>0, <1>6, <2>2 DEF Identified, ResultType
    <3>. QED
      BY <1>0, <1>6, <2>2, <3>1, <3>2, GoCourse DEF Identified
  <2>. QED
    BY <1>6, <2>1, <2>2 DEF Identified
<1>. QED
  BY <1>1, <1>2, <1>3, <1>4, <1>5, <1>6 DEF Returned

\* The reads of the position around SET_ZERO.
LEMMA ReadStep ==
  ASSUME Course, at \in {"read", "value"}, UNCHANGED cmd,
         NEW p, Shown \/ ReadBack(p)
  PROVE  Course'
<1>0. /\ cmd.name = "set-zero" /\ step \in {"before", "after"}
      /\ ch \in Channels /\ target \in Ids /\ at # "done" /\ ResultType /\ result = None
      /\ try \in Nat \ {0}
  BY CommandType DEF Course, Flow, PlaceOK, StepsOf
<1>1. UNCHANGED <<ch, seen, found>>
  BY DEF Shown, ReadBack
<1>2. ASSUME NEW a, NEW s, NEW t, Go(a, s, target, t), UNCHANGED result, PlaceOK(a, s, target, t)
      PROVE  Course'
  <2>1. ResultType'
    BY <1>0, <1>1, <1>2 DEF ResultType
  <2>. QED
    BY <1>0, <1>1, <1>2, <2>1, GoCourse
<1>3. CASE Shown
  <2>1. PlaceOK("confirm", step, target, 1)
    BY <1>0, <1>3 DEF Shown, PlaceOK, StepsOf
  <2>. QED
    BY <1>2, <1>3, <2>1 DEF Shown
<1>4. CASE ReadBack(p)
  <2>1. ASSUME NEW r \in {"off zero", "verified", "acknowledged"}, Finish(r) PROVE Course'
    <3>1. ResultType'
      BY <1>0, <1>1, <2>1 DEF ResultType, Finish
    <3>. QED
      BY <1>0, <1>1, <2>1, <3>1, FinishCourse
  <2>2. CASE try < 3 /\ Go("read", step, target, try + 1) /\ UNCHANGED result
    <3>1. PlaceOK("read", step, target, try + 1)
      BY <1>0, <2>2 DEF PlaceOK, StepsOf
    <3>. QED
      BY <1>2, <2>2, <3>1
  <2>. QED
    BY <1>4, <2>1, <2>2 DEF ReadBack
<1>. QED
  BY <1>3, <1>4

\* Every step of the tool follows the course of its command.
LEMMA CourseStep == BusType /\ Course /\ [Next]_vars => Course'
<1>. SUFFICES ASSUME BusType, Course, [Next]_vars PROVE Course'
  OBVIOUS
<1>0. /\ cmd.name \in {"scan", "get", "set-id", "set-zero"}
      /\ cmd.a \in Ids /\ cmd.b \in Ids /\ Retries \in Nat \ {0} /\ Channels \subseteq Int
      /\ ch \in Channels /\ target \in Ids /\ try \in Nat \ {0} /\ step \in StepsOf(cmd.name)
      /\ ResultType /\ (at # "done" => result = None)
  BY CommandType, Constants DEF Course, Flow, PlaceOK
<1>g. ASSUME NEW a, NEW s, NEW i, NEW t, Go(a, s, i, t), at # "done",
             UNCHANGED <<cmd, ch, seen, found, result>>, PlaceOK(a, s, i, t)
      PROVE  Course'
  <2>1. ResultType'
    BY <1>0, <1>g DEF ResultType
  <2>. QED
    BY <1>0, <1>g, <2>1, GoCourse
<1>f. ASSUME NEW r \in {"ok", "absent", "cancelled", "not sent", "unacknowledged", "error"},
             Finish(r), UNCHANGED <<cmd, ch, seen, found>>
      PROVE  Course'
  <2>1. ResultType'
    BY <1>0, <1>f DEF ResultType, Finish
  <2>. QED
    BY <1>0, <1>f, <2>1, FinishCourse
<1>n. ASSUME NEW all, NextChannel(all), step = "scan", at \in {"open", "query"},
             UNCHANGED <<cmd, seen, found>>
      PROVE  Course'
  <2>1. CASE ch + 1 \in Channels /\ ch' = ch + 1 /\ Go("open", step, cmd.a, 1) /\ UNCHANGED result
    <3>1. PlaceOK("open", step, cmd.a, 1)
      BY <1>0, <1>n DEF PlaceOK, StepsOf
    <3>2. ResultType'
      BY <1>0, <1>n, <2>1 DEF ResultType
    <3>. QED
      BY <1>0, <1>n, <2>1, <3>1, <3>2, GoCourse
  <2>. QED
    BY <1>n, <1>f, <2>1 DEF NextChannel
<1>1. CASE Open
  <2>1. at = "open" /\ step = cmd.name /\ try = 1 /\ UNCHANGED <<cmd, seen, found>>
    BY <1>1 DEF Open, Course, Flow, PlaceOK
  <2>2. ASSUME NEW a \in {"confirm", "query"}, at' = a, UNCHANGED <<step, target, try, ch, result>>,
               a = "confirm" => cmd.name \in {"set-id", "set-zero"}
        PROVE  Course'
    <3>1. PlaceOK(a, step, target, try)
      BY <1>0, <2>1, <2>2 DEF PlaceOK, StepsOf
    <3>2. Go(a, step, target, try)
      BY <2>2 DEF Go
    <3>. QED
      BY <1>g, <2>1, <2>2, <3>1, <3>2
  <2>. QED
    BY <1>1, <1>n, <1>f, <2>1, <2>2 DEF Open
<1>2. CASE Query
  <2>1. at = "query" /\ UNCHANGED cmd
    BY <1>2 DEF Query, Send, Refused
  <2>2. CASE Returned(None)
    BY <2>1, <2>2, ReturnedStep
  <2>3. CASE Go("reply", step, target, try) /\ UNCHANGED <<ch, result, seen, found>>
    <3>1. PlaceOK("reply", step, target, try)
      BY <2>1 DEF Course, Flow, PlaceOK
    <3>. QED
      BY <1>g, <2>1, <2>3, <3>1
  <2>. QED
    BY <1>2, <1>n, <1>f, <2>1, <2>2, <2>3 DEF Query
<1>3. CASE Receive
  <2>. DEFINE f == Head(rx[ch])
  <2>1. f \in Replies \cup {Standard} /\ UNCHANGED cmd
    BY <1>0, <1>3 DEF Receive, BusType
  <2>. HIDE DEF f
  <2>2. CASE UNCHANGED toolVars
    BY <2>1, <2>2, SameCourse DEF Same
  <2>3. CASE Expects(f) /\ Accept(f)
    <3>1. f \in Replies
      BY <2>1, <2>3 DEF Expects, Standard
    <3>2. CASE at = "reply" /\ Returned(f.uid)
      BY <2>1, <3>1, <3>2, ReturnedStep DEF Replies
    <3>3. CASE at = "value" /\ (Shown \/ ReadBack(f.pos))
      BY <2>1, <3>3, ReadStep
    <3>4. CASE at = "ack" /\ Go("read", "after", target, 1) /\ UNCHANGED <<ch, seen, found, result>>
      <4>1. cmd.name = "set-zero"
        BY <3>4 DEF Course, Flow, PlaceOK
      <4>2. PlaceOK("read", "after", target, 1)
        BY <1>0, <4>1 DEF PlaceOK, StepsOf
      <4>. QED
        BY <1>g, <2>1, <3>4, <4>2
    <3>. QED
      BY <2>3, <3>2, <3>3, <3>4 DEF Accept
  <2>. QED
    BY <1>3, <2>2, <2>3 DEF Receive, f
<1>4. CASE Expire
  <2>1. UNCHANGED cmd /\ GiveUp
    BY <1>4 DEF Expire
  <2>2. CASE at = "reply" /\ try < Retries /\ Go("query", step, target, try + 1)
             /\ UNCHANGED <<ch, seen, found, result>>
    <3>1. PlaceOK("query", step, target, try + 1)
      BY <1>0, <2>2 DEF Course, Flow, PlaceOK
    <3>. QED
      BY <1>g, <2>1, <2>2, <3>1
  <2>3. CASE at = "reply" /\ Returned(None)
    BY <2>1, <2>3, ReturnedStep
  <2>4. CASE at = "value" /\ (Shown \/ ReadBack(None))
    BY <2>1, <2>4, ReadStep
  <2>. QED
    BY <1>f, <2>1, <2>2, <2>3, <2>4 DEF GiveUp
<1>5. CASE Confirm
  <2>1. at = "confirm" /\ UNCHANGED <<cmd, ch, seen, found>>
    BY <1>5 DEF Confirm
  <2>2. CASE Go("stop", cmd.name, cmd.a, 1) /\ UNCHANGED result
    <3>1. cmd.name \in {"set-id", "set-zero"}
      BY <2>1 DEF Course, Flow, PlaceOK
    <3>2. PlaceOK("stop", cmd.name, cmd.a, 1)
      BY <1>0, <3>1 DEF PlaceOK, StepsOf
    <3>. QED
      BY <1>g, <2>1, <2>2, <3>2
  <2>. QED
    BY <1>5, <1>f, <2>1, <2>2 DEF Confirm
<1>6. CASE SendStop
  <2>1. UNCHANGED <<cmd, ch, seen, found>> /\ at = "stop"
    BY <1>6 DEF SendStop, Send, Refused
  <2>2. CASE Go("set", step, target, try) /\ UNCHANGED result
    <3>1. PlaceOK("set", step, target, try)
      BY <2>1 DEF Course, Flow, PlaceOK
    <3>. QED
      BY <1>g, <2>1, <2>2, <3>1
  <2>. QED
    BY <1>6, <1>f, <2>1, <2>2 DEF SendStop
<1>7. CASE Set
  <2>1. UNCHANGED <<cmd, ch, seen, found>> /\ at = "set" /\ step = cmd.name
    BY <1>7 DEF Set, Send, Refused, Course, Flow, PlaceOK
  <2>2. CASE cmd.name = "set-id" /\ Go("query", "verify", cmd.b, 1) /\ UNCHANGED result
    <3>1. PlaceOK("query", "verify", cmd.b, 1)
      BY <1>0, <2>2 DEF PlaceOK, StepsOf
    <3>. QED
      BY <1>g, <2>1, <2>2, <3>1
  <2>3. CASE cmd.name = "set-zero" /\ Go("ack", step, target, 1) /\ UNCHANGED result
    <3>1. PlaceOK("ack", step, target, 1)
      BY <1>0, <2>1, <2>3 DEF PlaceOK, StepsOf
    <3>. QED
      BY <1>g, <2>1, <2>3, <3>1
  <2>. QED
    BY <1>7, <1>f, <2>1, <2>2, <2>3 DEF Set, AwaitAck
<1>8. CASE Read
  <2>1. UNCHANGED cmd /\ at = "read"
    BY <1>8 DEF Read, Send, Refused
  <2>2. CASE Go("value", step, target, try) /\ UNCHANGED <<ch, seen, found, result>>
    <3>1. PlaceOK("value", step, target, try)
      BY <2>1 DEF Course, Flow, PlaceOK
    <3>. QED
      BY <1>g, <2>1, <2>2, <3>1
  <2>. QED
    BY <1>8, <2>1, <2>2, ReadStep DEF Read
<1>9. CASE Same
  BY <1>9, SameCourse
<1>. QED
  BY <1>1, <1>2, <1>3, <1>4, <1>5, <1>6, <1>7, <1>8, <1>9 DEF Next, ToolStep, vars, Same

LEMMA InitCourse == Init => BusType /\ Course
<1>. SUFFICES ASSUME Init PROVE BusType /\ Course
  OBVIOUS
<1>0. /\ cmd \in Commands /\ cmd.name \in {"scan", "get", "set-id", "set-zero"}
      /\ cmd.a \in Ids /\ cmd.ch \in Channels /\ Retries \in Nat \ {0} /\ MaxFaults \in Nat
  BY CommandType, Constants DEF Init
<1>1. BusType
  <2>1. inbox \in [Motors -> Seq(Frames)]
    BY DEF Init, BusInit
  <2>2. rx \in [Channels -> Seq(Replies \cup {Standard})]
    BY DEF Init, BusInit
  <2>. QED
    BY <1>0, <2>1, <2>2 DEF Init, BusInit, BusType
<1>2. ResultType
  BY DEF Init, ResultType
<1>3. PlaceOK(at, step, target, try)
  BY <1>0 DEF Init, PlaceOK, StepsOf
<1>. QED
  BY <1>0, <1>1, <1>2, <1>3 DEF Init, Course, Flow

(***************************************************************************)
(* A tool that runs has well-typed state, whatever its command line, and   *)
(* never makes more attempts than --retries and its three reads allow.     *)
(***************************************************************************)
THEOREM ConfigTypeCorrect == Spec => []ConfigTypeOK
<1>1. BusType /\ Course /\ [Next]_vars => (BusType /\ Course)'
  BY BusTypeStep, CourseStep, CourseIsPlaced
<1>2. BusType /\ Course => ConfigTypeOK
  <2>. SUFFICES ASSUME BusType, Course PROVE ConfigTypeOK
    OBVIOUS
  <2>1. step \in {"scan", "get", "set-id", "new", "verify", "set-zero", "before", "after"}
    BY CommandType DEF Course, Flow, PlaceOK, StepsOf
  <2>. QED
    BY <2>1 DEF Course, Flow, PlaceOK, ResultType, ConfigTypeOK
<1>. QED
  BY InitCourse, <1>1, <1>2, PTL DEF Spec

-----------------------------------------------------------------------------
(***************************************************************************)
(* The frames on their way: a change of an id or a zero is the one the     *)
(* command line asks for, and a motor that answered at the new id has it,  *)
(* for no frame takes it away again.                                       *)
(***************************************************************************)
Ordered(f) ==
  /\ f.kind = "SET_CAN_ID" => cmd.name = "set-id" /\ f.to = cmd.a /\ f.arg = cmd.b
  /\ f.kind = "SET_ZERO" => cmd.name = "set-zero" /\ f.to = cmd.a

OrderInv == \A m \in Motors : \A k \in DOMAIN inbox[m] : Ordered(inbox[m][k])

HasNewId(f, ids) == f.kind = "GET_ID" /\ f.from = cmd.b => ids[f.uid] = cmd.b

AnswerInv ==
  cmd.name = "set-id" => \A c \in Channels : \A k \in DOMAIN rx[c] : HasNewId(rx[c][k], id)

\* The inboxes after a write: at most one frame more, at the end.
LEMMA WriteAppends ==
  ASSUME BusType, PlaceType, ToolWrites, NEW m \in Motors
  PROVE  \/ inbox'[m] = inbox[m]
         \/ \E f \in Frames : /\ Posted(f) /\ ~cmd.dry /\ Write(ch, f)
                              /\ inbox'[m] = Append(inbox[m], f)
                              /\ DOMAIN inbox'[m] = 1 .. Len(inbox[m]) + 1
                              /\ inbox'[m][Len(inbox[m]) + 1] = f
                              /\ \A k \in 1 .. Len(inbox[m]) : inbox'[m][k] = inbox[m][k]
<1>1. ch \in Channels
  BY DEF PlaceType
<1>2. ASSUME NEW f \in Frames, Posted(f), ~cmd.dry, Write(ch, f), inbox'[m] # inbox[m]
      PROVE  /\ inbox'[m] = Append(inbox[m], f)
             /\ DOMAIN inbox'[m] = 1 .. Len(inbox[m]) + 1
             /\ inbox'[m][Len(inbox[m]) + 1] = f
             /\ \A k \in 1 .. Len(inbox[m]) : inbox'[m][k] = inbox[m][k]
  BY <1>1, <1>2, WriteArrives
<1>. QED
  BY <1>2 DEF ToolWrites

LEMMA OrderStep == BusType /\ Course /\ OrderInv /\ [Next]_vars => OrderInv'
<1>. SUFFICES ASSUME BusType, Course, OrderInv, [Next]_vars PROVE OrderInv'
  OBVIOUS
<1>0. PlaceType
  BY CourseIsPlaced
<1>1. UNCHANGED cmd
  BY CommandStays
<1>2. ASSUME \A m \in Motors : \A k \in DOMAIN inbox'[m] : Ordered(inbox'[m][k]) PROVE OrderInv'
  BY <1>1, <1>2 DEF OrderInv, Ordered
<1>3. CASE ToolStep \/ Expire \/ Confirm
  <2>1. ToolWrites
    BY <1>0, <1>3, ToolOnBusStep DEF ToolOnBus
  <2>2. ASSUME NEW f \in Frames, Posted(f) PROVE Ordered(f)
    BY <2>2 DEF Posted, Ordered
  <2>3. ASSUME NEW m \in Motors, NEW k \in DOMAIN inbox'[m] PROVE Ordered(inbox'[m][k])
    <3>0. inbox[m] \in Seq(Frames) /\ DOMAIN inbox[m] = 1 .. Len(inbox[m]) /\ Len(inbox[m]) \in Nat
      BY DEF BusType
    <3>1. CASE inbox'[m] = inbox[m]
      BY <2>3, <3>1 DEF OrderInv
    <3>2. ASSUME NEW f \in Frames, Posted(f), DOMAIN inbox'[m] = 1 .. Len(inbox[m]) + 1,
                 inbox'[m][Len(inbox[m]) + 1] = f,
                 \A j \in 1 .. Len(inbox[m]) : inbox'[m][j] = inbox[m][j]
          PROVE  Ordered(inbox'[m][k])
      <4>1. CASE k \in 1 .. Len(inbox[m])
        BY <3>0, <3>2, <4>1 DEF OrderInv
      <4>2. CASE k = Len(inbox[m]) + 1
        BY <2>2, <3>2, <4>2
      <4>. QED
        BY <2>3, <3>0, <3>2, <4>1, <4>2
    <3>. QED
      BY <1>0, <2>1, <3>1, <3>2, WriteAppends
  <2>. QED
    BY <1>2, <2>3
<1>4. ASSUME NEW m \in Motors, Obey(m) PROVE OrderInv'
  <2>1. ASSUME NEW n \in Motors, NEW k \in DOMAIN inbox'[n] PROVE Ordered(inbox'[n][k])
    <3>1. CASE n = m
      <4>1. k \in 1 .. Len(inbox[m]) - 1 /\ k + 1 \in DOMAIN inbox[m]
        BY <1>4, <2>1, <3>1, TailShifts
      <4>. QED
        BY <1>4, <3>1, <4>1, TailShifts DEF OrderInv
    <3>2. CASE n # m
      <4>1. inbox'[n] = inbox[n]
        BY <1>4, <3>2, ObeyStep
      <4>. QED
        BY <2>1, <4>1 DEF OrderInv
    <3>. QED
      BY <3>1, <3>2
  <2>. QED
    BY <1>2, <2>1
<1>5. CASE UNCHANGED <<cmd, inbox>>
  BY <1>5 DEF OrderInv, Ordered
<1>6. UNCHANGED vars => UNCHANGED <<cmd, inbox>>
  BY DEF vars, busVars
<1>7. \A c \in {ch} \ Closed : OtherTraffic(c) => UNCHANGED inbox
  BY DEF OtherTraffic
<1>. QED
  BY <1>1, <1>3, <1>4, <1>5, <1>6, <1>7 DEF Next, BusStep

\* What the tool leaves in the receive queues was there before.
LEMMA ToolReads ==
  ASSUME BusType, PlaceType, ToolOnBus
  PROVE  \A c \in Channels : \A k \in DOMAIN rx'[c] :
           \E j \in DOMAIN rx[c] : rx'[c][k] = rx[c][j]
<1>0. ch \in Channels
  BY DEF PlaceType
<1>1. CASE rx[ch] # <<>> /\ rx' = [rx EXCEPT ![ch] = Tail(@)]
  BY <1>0, <1>1, ReadTakesHead
<1>2. CASE Drained
  BY <1>0, <1>2, DrainedIsEnd
<1>. QED
  BY <1>1, <1>2 DEF ToolOnBus

LEMMA AnswerStep ==
  BusType /\ Course /\ OrderInv /\ AnswerInv /\ [Next]_vars => AnswerInv'
<1>. SUFFICES ASSUME BusType, Course, OrderInv, AnswerInv, [Next]_vars, cmd'.name = "set-id"
              PROVE  AnswerInv'
  BY DEF AnswerInv
<1>0. PlaceType /\ UNCHANGED cmd
  BY CourseIsPlaced, CommandStays
<1>1. /\ cmd.a \in Ids /\ cmd.b \in Ids /\ cmd.a # cmd.b /\ cmd.name = "set-id"
  BY <1>0, CommandType DEF PlaceType
<1>2. ASSUME \A c \in Channels : \A k \in DOMAIN rx'[c] : HasNewId(rx'[c][k], id') PROVE AnswerInv'
  BY <1>0, <1>2 DEF AnswerInv, HasNewId
<1>3. CASE ToolStep \/ Expire \/ Confirm
  <2>1. ToolOnBus
    BY <1>0, <1>3, ToolOnBusStep
  <2>2. ASSUME NEW c \in Channels, NEW k \in DOMAIN rx'[c] PROVE HasNewId(rx'[c][k], id')
    <3>1. PICK j \in DOMAIN rx[c] : rx'[c][k] = rx[c][j]
      BY <1>0, <2>1, <2>2, ToolReads
    <3>2. id' = id
      BY <2>1 DEF ToolOnBus, motorVars
    <3>. QED
      BY <1>1, <3>1, <3>2 DEF AnswerInv
  <2>. QED
    BY <1>2, <2>2
<1>4. ASSUME NEW m \in Motors, Obey(m) PROVE AnswerInv'
  <2>. DEFINE f == Head(inbox[m])
  <2>1. ASSUME NEW u \in Motors, id[u] = cmd.b PROVE id'[u] = cmd.b
    <3>1. f.kind = "SET_CAN_ID" => f.to = cmd.a
      BY <1>4, ObeyStep DEF OrderInv, Ordered
    <3>2. id' = id \/ (f.kind = "SET_CAN_ID" /\ f.to = id[m] /\ id' = [id EXCEPT ![m] = f.arg])
      BY <1>4, ObeyStep DEF Execute, motorVars
    <3>. HIDE DEF f
    <3>. QED
      BY <1>1, <2>1, <3>1, <3>2 DEF BusType
  <2>2. ASSUME NEW c \in Channels, NEW j \in DOMAIN rx[c] PROVE HasNewId(rx[c][j], id')
    <3>1. rx[c][j] \in Replies \cup {Standard}
      BY <2>2 DEF BusType
    <3>2. rx[c][j].kind = "GET_ID" => rx[c][j].uid \in Motors
      BY <3>1 DEF Replies, Standard
    <3>. QED
      BY <1>1, <2>1, <2>2, <3>2 DEF AnswerInv, HasNewId
  <2>3. f.kind # "SET_CAN_ID" => HasNewId(Answer(m, f), id')
    <3>1. f.kind # "SET_CAN_ID" => Answer(m, f).from = id[m] /\ Answer(m, f).uid = m
      BY <1>4, ObeyStep, AnswerType
    <3>. QED
      BY <2>1, <3>1 DEF HasNewId
  <2>4. ASSUME NEW c \in Channels, NEW k \in DOMAIN rx'[c] PROVE HasNewId(rx'[c][k], id')
    <3>1. CASE UNCHANGED rx
      BY <2>2, <2>4, <3>1
    <3>2. CASE f.kind # "SET_CAN_ID" /\ rx' = [rx EXCEPT ![Chan[m]] = Append(@, Answer(m, f))]
      <4>1. (k \in DOMAIN rx[c] /\ rx'[c][k] = rx[c][k]) \/ rx'[c][k] = Answer(m, f)
        <5>. HIDE DEF f
        <5>1. Chan[m] \in Channels
          BY Constants
        <5>. QED
          BY <2>4, <3>2, <5>1, ArrivalAppends
      <4>. QED
        BY <2>2, <2>3, <3>2, <4>1
    <3>. QED
      BY <1>4, <3>1, <3>2, ObeyStep
  <2>. QED
    BY <1>2, <2>4
<1>5. ASSUME NEW d \in Channels, OtherTraffic(d) PROVE AnswerInv'
  <2>1. PICK r \in {Standard} \cup {Report(m) : m \in {n \in Motors : Chan[n] = d}} :
          rx' = [rx EXCEPT ![d] = Append(@, r)]
    BY <1>5 DEF OtherTraffic
  <2>2. r.kind # "GET_ID"
    BY DEF Standard, Report
  <2>3. id' = id
    BY <1>5 DEF OtherTraffic, motorVars
  <2>4. ASSUME NEW c \in Channels, NEW k \in DOMAIN rx'[c] PROVE HasNewId(rx'[c][k], id')
    <3>1. (k \in DOMAIN rx[c] /\ rx'[c][k] = rx[c][k]) \/ rx'[c][k] = r
      BY <2>1, <2>4, ArrivalAppends
    <3>. QED
      BY <1>1, <2>2, <2>3, <3>1 DEF AnswerInv, HasNewId
  <2>. QED
    BY <1>2, <2>4
<1>6. CASE UNCHANGED vars
  BY <1>0, <1>1, <1>6 DEF vars, busVars, motorVars, AnswerInv, HasNewId
<1>7. {ch} \ Closed \subseteq Channels
  BY <1>0 DEF PlaceType, Closed
<1>. QED
  BY <1>3, <1>4, <1>5, <1>6, <1>7 DEF Next, BusStep

\* set-id ends well only when the motor that was identified answers.
LEMMA OkIsVerified ==
  ASSUME Course, cmd.name = "set-id", ~cmd.dry, ToolStep \/ Expire \/ Confirm,
         result # "ok", result' = "ok"
  PROVE  \E f : /\ rx[ch] # <<>> /\ f = Head(rx[ch]) /\ f.kind = "GET_ID" /\ f.from = cmd.b
                /\ seen' = f.uid /\ f.uid # None
<1>1. step \in {"set-id", "new", "verify"} /\ (at # "done" /\ step = "verify" => target = cmd.b)
      /\ (at = "ack" => cmd.name = "set-zero") /\ (at \in {"open", "stop", "set"} => step = "set-id")
  BY DEF Course, Flow, PlaceOK, StepsOf
<1>2. ASSUME NEW dev, Returned(dev) PROVE dev # None /\ seen' = dev /\ step = "verify"
  BY <1>1, <1>2 DEF Returned, Scanned, Got, OldChecked, NewChecked, Verified, Identified, Finish
<1>3. ~Shown /\ \A p : ~ReadBack(p)
  BY <1>1 DEF Shown, ReadBack
<1>4. CASE Receive
  <2>. DEFINE f == Head(rx[ch])
  <2>1. CASE UNCHANGED toolVars
    BY <2>1 DEF toolVars
  <2>2. CASE Expects(f) /\ Accept(f)
    <3>1. at = "reply" /\ Returned(f.uid)
      BY <1>1, <1>3, <2>2 DEF Accept
    <3>2. f.kind = "GET_ID" /\ f.from = target
      BY <2>2, <3>1 DEF Expects
    <3>. QED
      BY <1>1, <1>2, <1>4, <3>1, <3>2 DEF Receive
  <2>. QED
    BY <1>4, <2>1, <2>2 DEF Receive
<1>5. ~Open
  BY <1>1 DEF Open, Finish
<1>6. ~Query
  BY <1>1, <1>2 DEF Query, Finish
<1>7. ~SendStop /\ ~Set /\ ~Confirm
  BY DEF SendStop, Set, Confirm, Finish
<1>8. ~Read
  BY <1>3 DEF Read
<1>9. ~Expire
  BY <1>2, <1>3 DEF Expire, GiveUp, Finish
<1>. QED
  BY <1>4, <1>5, <1>6, <1>7, <1>8, <1>9 DEF ToolStep

\* A tool that ended does nothing more.
LEMMA DoneIsLast ==
  ASSUME at = "done", ToolStep \/ Expire \/ Confirm
  PROVE  FALSE
  BY DEF ToolStep, Open, Query, Receive, SendStop, Set, Read, Expire, Confirm, GiveUp

RealInv == ChangeIsReal /\ (cmd.name = "set-id" /\ result = "ok" /\ ~cmd.dry => seen \in Motors)

(***************************************************************************)
(* When set-id says that the id was changed, the motor it had identified   *)
(* has the new id: for any ids, shared or not, and any number of frames    *)
(* and answers that are lost or late.                                      *)
(***************************************************************************)
THEOREM ChangesAreReal == Spec => []ChangeIsReal
<1>. DEFINE Inv == BusType /\ Course /\ OrderInv /\ AnswerInv /\ RealInv
<1>1. Init => Inv
  <2>. SUFFICES ASSUME Init PROVE OrderInv /\ AnswerInv /\ RealInv
    BY InitCourse
  <2>1. OrderInv /\ AnswerInv
    BY DEF Init, BusInit, OrderInv, AnswerInv
  <2>2. RealInv
    BY DEF Init, RealInv, ChangeIsReal, None
  <2>. QED
    BY <2>1, <2>2
<1>2. Inv /\ [Next]_vars => Inv'
  <2>. SUFFICES ASSUME Inv, [Next]_vars PROVE RealInv'
    BY BusTypeStep, CourseStep, CourseIsPlaced, OrderStep, AnswerStep
  <2>. SUFFICES ASSUME cmd'.name = "set-id", result' = "ok", ~cmd'.dry
                PROVE  seen' \in Motors /\ id'[seen'] = cmd'.b
    BY DEF RealInv, ChangeIsReal
  <2>0. PlaceType /\ UNCHANGED cmd
    BY CourseIsPlaced, CommandStays
  <2>1. /\ cmd.a \in Ids /\ cmd.b \in Ids /\ cmd.a # cmd.b /\ cmd.name = "set-id" /\ ~cmd.dry
        /\ ch \in Channels
    BY <2>0, CommandType DEF PlaceType
  <2>2. CASE ToolStep \/ Expire \/ Confirm
    <3>1. result # "ok"
      BY <2>2, DoneIsLast DEF Course, Flow, None
    <3>2. PICK f : /\ rx[ch] # <<>> /\ f = Head(rx[ch]) /\ f.kind = "GET_ID" /\ f.from = cmd.b
                   /\ seen' = f.uid /\ f.uid # None
      BY <2>1, <2>2, <3>1, OkIsVerified
    <3>3. 1 \in DOMAIN rx[ch] /\ f = rx[ch][1] /\ f \in Replies \cup {Standard}
      BY <2>1, <3>2 DEF BusType
    <3>4. f.uid \in Motors
      BY <3>2, <3>3 DEF Replies, Standard
    <3>5. id[f.uid] = cmd.b
      BY <2>1, <3>2, <3>3 DEF AnswerInv, HasNewId
    <3>6. id' = id
      BY <2>0, <2>2, ToolOnBusStep DEF ToolOnBus, motorVars
    <3>. QED
      BY <2>0, <3>2, <3>4, <3>5, <3>6
  <2>3. ASSUME UNCHANGED <<cmd, toolVars>> PROVE seen' = seen /\ result' = result
    BY <2>3 DEF toolVars
  <2>4. ASSUME UNCHANGED <<cmd, toolVars>> PROVE seen \in Motors /\ id[seen] = cmd.b
    BY <2>1, <2>3, <2>4 DEF RealInv, ChangeIsReal
  <2>5. ASSUME NEW m \in Motors, Obey(m), UNCHANGED <<cmd, toolVars>>
        PROVE  id'[seen] = cmd.b
    <3>. DEFINE f == Head(inbox[m])
    <3>1. f.kind = "SET_CAN_ID" => f.to = cmd.a
      BY <2>5, ObeyStep DEF OrderInv, Ordered
    <3>2. id' = id \/ (f.kind = "SET_CAN_ID" /\ f.to = id[m] /\ id' = [id EXCEPT ![m] = f.arg])
      BY <2>5, ObeyStep DEF Execute, motorVars
    <3>. HIDE DEF f
    <3>. QED
      BY <2>1, <2>4, <2>5, <3>1, <3>2 DEF BusType
  <2>6. ASSUME NEW c, OtherTraffic(c) PROVE id' = id
    BY <2>6 DEF OtherTraffic, motorVars
  <2>7. CASE BusStep({ch} \ Closed) /\ UNCHANGED <<cmd, toolVars>>
    BY <2>0, <2>3, <2>4, <2>5, <2>6, <2>7 DEF BusStep
  <2>8. CASE UNCHANGED vars
    BY <2>0, <2>3, <2>4, <2>8 DEF vars, busVars, motorVars
  <2>. QED
    BY <2>2, <2>7, <2>8 DEF Next
<1>3. Inv => ChangeIsReal
  BY DEF RealInv
<1>. QED
  BY <1>1, <1>2, <1>3, PTL DEF Spec

-----------------------------------------------------------------------------
(***************************************************************************)
(* Why a motor is at rest when it obeys: the STOP goes out before the      *)
(* change, and a motor takes its frames in their order.                    *)
(***************************************************************************)
Rests(m) == id[m] = cmd.a => (~run[m] \/ <<m, "STOP">> \in missed)

IsStop(f) == f.kind = "STOP" /\ f.to = cmd.a

IsChange(f) == f.kind \in {"SET_CAN_ID", "SET_ZERO"}

\* Motor m rests before it comes to what is behind its first n frames.
RestsBehind(m, n) == Rests(m) \/ \E j \in 1 .. n : IsStop(inbox[m][j])

RestInv ==
  \A m \in Motors :
    /\ \A k \in DOMAIN inbox[m] : IsChange(inbox[m][k]) => RestsBehind(m, k - 1)
    /\ at = "set" /\ ~cmd.dry /\ Chan[m] = ch => RestsBehind(m, Len(inbox[m]))

\* The tool reaches "set" only with the STOP, and changes something only there.
LEMMA ToSet ==
  ASSUME Course, ToolStep \/ Expire \/ Confirm
  PROVE  /\ at' = "set" => ch' = ch /\ (cmd.dry \/ \E f \in Frames : IsStop(f) /\ Write(ch, f))
         /\ \A f : Posted(f) /\ IsChange(f) => at = "set"
<1>1. \A f : Posted(f) /\ IsChange(f) => at = "set"
  BY DEF Posted, IsChange
<1>2. ASSUME at' = "set" PROVE SendStop
  <2>1. ~Open /\ ~Confirm /\ ~Set
    BY <1>2 DEF Open, Confirm, Set, AwaitAck, NextChannel, Go, Finish
  <2>2. \A dev : ~Returned(dev)
    BY <1>2 DEF Returned, Scanned, NextChannel, Got, OldChecked, NewChecked, Verified, Identified,
                Go, Finish
  <2>3. ~Shown /\ \A p : ~ReadBack(p)
    BY <1>2 DEF Shown, ReadBack, Go, Finish
  <2>4. ~Query
    BY <1>2, <2>2 DEF Query, NextChannel, Go, Finish
  <2>5. ~Read /\ ~Expire
    BY <1>2, <2>2, <2>3 DEF Read, Expire, GiveUp, Go, Finish
  <2>6. ~Receive
    <3>1. \A f : ~Accept(f)
      BY <1>2, <2>2, <2>3 DEF Accept, Go
    <3>. QED
      BY <1>2, <3>1 DEF Receive, toolVars, placeVars
  <2>. QED
    BY <2>1, <2>4, <2>5, <2>6 DEF ToolStep
<1>3. ASSUME SendStop, at' = "set"
      PROVE  ch' = ch /\ (cmd.dry \/ \E f \in Frames : IsStop(f) /\ Write(ch, f))
  <2>1. ch' = ch /\ Send(Frame("STOP", cmd.a))
    BY <1>3 DEF SendStop, Finish
  <2>2. Frame("STOP", cmd.a) \in Frames /\ IsStop(Frame("STOP", cmd.a))
    BY CommandType, FrameType DEF Course, Kinds, IsStop
  <2>. QED
    BY <2>1, <2>2 DEF Send
<1>. QED
  BY <1>1, <1>2, <1>3

\* What is written comes behind what a motor has not come to.
LEMMA ToolKeepsRest ==
  ASSUME BusType, PlaceType, ToolOnBus, UNCHANGED cmd,
         NEW m \in Motors, NEW n \in 0 .. Len(inbox[m]), RestsBehind(m, n)
  PROVE  RestsBehind(m, n)'
<1>0. inbox[m] \in Seq(Frames) /\ Len(inbox[m]) \in Nat
  BY DEF BusType
<1>1. UNCHANGED motorVars /\ missed \subseteq missed' /\ ToolWrites
  BY DEF ToolOnBus, HostFails
<1>2. Rests(m) => Rests(m)'
  BY <1>1 DEF Rests, motorVars
<1>3. \A j \in 1 .. n : inbox'[m][j] = inbox[m][j]
  BY <1>0, <1>1, WriteAppends
<1>. QED
  BY <1>2, <1>3 DEF RestsBehind, IsStop

\* A motor at rest stays so, for no frame gives it the old id.
LEMMA ObeyKeepsRest ==
  ASSUME BusType, Course, OrderInv, UNCHANGED cmd, NEW x \in Motors, Obey(x)
  PROVE  /\ \A m \in Motors : Rests(m) => Rests(m)'
         /\ IsStop(Head(inbox[x])) => Rests(x)'
<1>. DEFINE f == Head(inbox[x])
<1>0. cmd.a \in Ids /\ cmd.b \in Ids /\ (cmd.name = "set-id" => cmd.a # cmd.b)
  BY CommandType DEF Course
<1>1. f.kind = "SET_CAN_ID" => cmd.name = "set-id" /\ f.to = cmd.a /\ f.arg = cmd.b
  BY ObeyStep DEF OrderInv, Ordered
<1>2. \/ Execute(x, f) /\ f.to = id[x] /\ UNCHANGED missed
      \/ /\ UNCHANGED motorVars
         /\ IF f.to = id[x] THEN missed' = missed \cup {<<x, f.kind>>} ELSE UNCHANGED missed
  BY ObeyStep
<1>. HIDE DEF f
<1>3. ASSUME NEW m \in Motors, Rests(m) PROVE Rests(m)'
  <2>1. id'[m] = cmd.a => id[m] = cmd.a
    BY <1>0, <1>1, <1>2 DEF Execute, motorVars, BusType
  <2>2. (~run[m] => ~run'[m]) /\ missed \subseteq missed'
    BY <1>2 DEF Execute, motorVars, BusType
  <2>. QED
    BY <1>3, <2>1, <2>2 DEF Rests
<1>4. IsStop(f) => Rests(x)'
  <2>. SUFFICES ASSUME IsStop(f) PROVE Rests(x)'
    OBVIOUS
  <2>1. f.kind = "STOP" /\ f.to = cmd.a
    BY DEF IsStop
  <2>2. CASE Execute(x, f)
    BY <2>1, <2>2 DEF Execute, BusType, Rests
  <2>3. CASE UNCHANGED motorVars
    BY <1>2, <2>1, <2>3 DEF motorVars, Rests, Execute, BusType
  <2>. QED
    BY <1>2, <2>2, <2>3
<1>. QED
  BY <1>3, <1>4 DEF f

LEMMA ObeyShiftsRest ==
  ASSUME BusType, Course, OrderInv, UNCHANGED cmd, NEW x \in Motors, Obey(x),
         NEW n \in 1 .. Len(inbox[x]), RestsBehind(x, n)
  PROVE  RestsBehind(x, n - 1)'
<1>0. Len(inbox[x]) \in Nat
  BY TailShifts
<1>1. CASE Rests(x)
  BY <1>1, ObeyKeepsRest DEF RestsBehind
<1>2. ASSUME NEW j \in 1 .. n, IsStop(inbox[x][j]) PROVE RestsBehind(x, n - 1)'
  <2>1. CASE j = 1
    BY <1>2, <2>1, ObeyStep, ObeyKeepsRest DEF RestsBehind
  <2>2. CASE j # 1
    <3>1. j - 1 \in 1 .. n - 1 /\ j - 1 \in 1 .. Len(inbox[x]) - 1 /\ (j - 1) + 1 = j
      BY <1>0, <2>2
    <3>2. inbox'[x][j - 1] = inbox[x][j]
      BY <3>1, TailShifts
    <3>. QED
      BY <1>2, <3>1, <3>2 DEF RestsBehind, IsStop
  <2>. QED
    BY <2>1, <2>2
<1>. QED
  BY <1>1, <1>2 DEF RestsBehind

LEMMA RestStep == BusType /\ Course /\ OrderInv /\ RestInv /\ [Next]_vars => RestInv'
<1>. SUFFICES ASSUME BusType, Course, OrderInv, RestInv, [Next]_vars, NEW m \in Motors
              PROVE  /\ \A k \in DOMAIN inbox'[m] : IsChange(inbox'[m][k]) => RestsBehind(m, k - 1)'
                     /\ at' = "set" /\ ~cmd'.dry /\ Chan[m] = ch' => RestsBehind(m, Len(inbox[m]))'
  BY DEF RestInv, IsChange
<1>0. PlaceType /\ UNCHANGED cmd
  BY CourseIsPlaced, CommandStays
<1>1. /\ inbox[m] \in Seq(Frames) /\ DOMAIN inbox[m] = 1 .. Len(inbox[m]) /\ Len(inbox[m]) \in Nat
  BY DEF BusType
<1>2. CASE ToolStep \/ Expire \/ Confirm
  <2>0. ToolOnBus
    BY <1>0, <1>2, ToolOnBusStep
  <2>1. ASSUME NEW n \in 0 .. Len(inbox[m]), RestsBehind(m, n) PROVE RestsBehind(m, n)'
    BY <1>0, <2>0, <2>1, ToolKeepsRest
  <2>2. ASSUME NEW k \in 1 .. Len(inbox[m]), IsChange(inbox[m][k]) PROVE RestsBehind(m, k - 1)'
    <3>1. RestsBehind(m, k - 1)
      BY <1>1, <2>2 DEF RestInv
    <3>. QED
      BY <1>1, <2>1, <3>1
  <2>3. ToolWrites
    BY <2>0 DEF ToolOnBus
  <2>4. ASSUME NEW k \in DOMAIN inbox'[m], IsChange(inbox'[m][k]) PROVE RestsBehind(m, k - 1)'
    <3>1. CASE k \in 1 .. Len(inbox[m]) /\ inbox'[m][k] = inbox[m][k]
      BY <2>2, <2>4, <3>1
    <3>2. ASSUME NEW f \in Frames, Posted(f), ~cmd.dry, Write(ch, f), inbox'[m] = Append(inbox[m], f),
                 k = Len(inbox[m]) + 1, f = inbox'[m][k], inbox'[m] # inbox[m]
          PROVE  RestsBehind(m, k - 1)'
      <4>1. at = "set"
        BY <1>2, <2>4, <3>2, ToSet
      <4>2. Chan[m] = ch
        BY <3>2 DEF Write
      <4>3. RestsBehind(m, Len(inbox[m]))
        BY <3>2, <4>1, <4>2 DEF RestInv
      <4>4. k - 1 = Len(inbox[m]) /\ Len(inbox[m]) \in 0 .. Len(inbox[m])
        BY <1>1, <3>2
      <4>. QED
        BY <2>1, <4>3, <4>4
    <3>3. CASE inbox'[m] = inbox[m]
      BY <1>1, <2>4, <3>1, <3>3
    <3>4. ASSUME NEW f \in Frames, Posted(f), ~cmd.dry, Write(ch, f), inbox'[m] = Append(inbox[m], f),
                 DOMAIN inbox'[m] = 1 .. Len(inbox[m]) + 1, inbox'[m][Len(inbox[m]) + 1] = f,
                 \A j \in 1 .. Len(inbox[m]) : inbox'[m][j] = inbox[m][j]
          PROVE  RestsBehind(m, k - 1)'
      <4>1. k \in 1 .. Len(inbox[m]) \/ k = Len(inbox[m]) + 1
        BY <1>1, <2>4, <3>4
      <4>. QED
        BY <3>1, <3>2, <3>3, <3>4, <4>1
    <3>. QED
      BY <1>0, <2>3, <3>3, <3>4, WriteAppends
  <2>5. ASSUME at' = "set", ~cmd'.dry, Chan[m] = ch' PROVE RestsBehind(m, Len(inbox[m]))'
    <3>1. PICK f \in Frames : IsStop(f) /\ Write(ch, f) /\ ch' = ch
      BY <1>0, <1>2, <2>5, ToSet
    <3>2. inbox'[m] = Append(inbox[m], f)
      BY <2>5, <3>1 DEF Write, BusType
    <3>3. Len(inbox'[m]) = Len(inbox[m]) + 1 /\ inbox'[m][Len(inbox[m]) + 1] = f
      BY <1>1, <3>2
    <3>4. Len(inbox'[m]) \in 1 .. Len(inbox'[m]) /\ IsStop(inbox'[m][Len(inbox'[m])])
      BY <1>1, <3>1, <3>3
    <3>. QED
      BY <1>0, <3>4 DEF RestsBehind, IsStop
  <2>. QED
    BY <2>4, <2>5
<1>3. ASSUME NEW x \in Motors, Obey(x), UNCHANGED <<cmd, toolVars>>
      PROVE  /\ \A k \in DOMAIN inbox'[m] : IsChange(inbox'[m][k]) => RestsBehind(m, k - 1)'
             /\ at' = "set" /\ ~cmd'.dry /\ Chan[m] = ch' => RestsBehind(m, Len(inbox[m]))'
  <2>0. at' = at /\ ch' = ch
    BY <1>3 DEF toolVars, placeVars
  <2>1. CASE x = m
    <3>1. ASSUME NEW k \in DOMAIN inbox'[m], IsChange(inbox'[m][k]) PROVE RestsBehind(m, k - 1)'
      <4>0. /\ Len(inbox[m]) \in Nat \ {0} /\ DOMAIN inbox[m] = 1 .. Len(inbox[m])
            /\ DOMAIN inbox'[m] = 1 .. Len(inbox[m]) - 1
            /\ \A j \in 1 .. Len(inbox[m]) - 1 : inbox'[m][j] = inbox[m][j + 1]
        BY <1>3, <2>1, TailShifts
      <4>1. /\ k \in 1 .. Len(inbox[m]) /\ k + 1 \in DOMAIN inbox[m] /\ (k + 1) - 1 = k
            /\ inbox'[m][k] = inbox[m][k + 1]
        BY <3>1, <4>0
      <4>2. RestsBehind(m, k)
        BY <3>1, <4>1 DEF RestInv
      <4>. QED
        BY <1>0, <1>3, <2>1, <4>1, <4>2, ObeyShiftsRest
    <3>2. ASSUME at' = "set", ~cmd'.dry, Chan[m] = ch' PROVE RestsBehind(m, Len(inbox[m]))'
      <4>1. Len(inbox[m]) \in 1 .. Len(inbox[m]) /\ Len(inbox'[m]) = Len(inbox[m]) - 1
        BY <1>3, <2>1, TailShifts
      <4>2. RestsBehind(m, Len(inbox[m]))
        BY <1>0, <2>0, <3>2 DEF RestInv
      <4>3. \A n \in 1 .. Len(inbox[m]) : RestsBehind(m, n) => RestsBehind(m, n - 1)'
        BY <1>0, <1>3, <2>1, ObeyShiftsRest
      <4>4. RestsBehind(m, Len(inbox[m])) =>
              Rests(m)' \/ \E j \in 1 .. Len(inbox[m]) - 1 : IsStop(inbox[m][j])'
        BY <4>1, <4>3 DEF RestsBehind
      <4>. QED
        BY <4>1, <4>2, <4>4 DEF RestsBehind
    <3>. QED
      BY <3>1, <3>2
  <2>2. CASE x # m
    <3>1. inbox'[m] = inbox[m]
      BY <1>3, <2>2, ObeyStep
    <3>2. \A n : RestsBehind(m, n) => RestsBehind(m, n)'
      BY <1>0, <1>3, <3>1, ObeyKeepsRest DEF RestsBehind, IsStop
    <3>. QED
      BY <1>0, <2>0, <3>1, <3>2 DEF RestInv, RestsBehind
  <2>. QED
    BY <2>1, <2>2
<1>4. ASSUME UNCHANGED <<cmd, at, ch, motorVars, inbox, missed>>
      PROVE  /\ \A k \in DOMAIN inbox'[m] : IsChange(inbox'[m][k]) => RestsBehind(m, k - 1)'
             /\ at' = "set" /\ ~cmd'.dry /\ Chan[m] = ch' => RestsBehind(m, Len(inbox[m]))'
  <2>1. \A n : RestsBehind(m, n) => RestsBehind(m, n)'
    BY <1>4 DEF RestsBehind, IsStop, Rests, motorVars
  <2>. QED
    BY <1>4, <2>1 DEF RestInv, RestsBehind
<1>5. ASSUME NEW c, OtherTraffic(c), UNCHANGED <<cmd, toolVars>>
      PROVE  UNCHANGED <<cmd, at, ch, motorVars, inbox, missed>>
  BY <1>5 DEF OtherTraffic, toolVars, placeVars
<1>6. UNCHANGED vars => UNCHANGED <<cmd, at, ch, motorVars, inbox, missed>>
  BY DEF vars, busVars, toolVars, placeVars
<1>. QED
  BY <1>2, <1>3, <1>4, <1>5, <1>6 DEF Next, BusStep

(***************************************************************************)
(* A motor that gets another id or another zero is at rest, unless the     *)
(* STOP did not reach it: the tool sends the STOP first, and nothing that  *)
(* is on the bus beside it, or lost, comes between the two.                *)
(***************************************************************************)
THEOREM ChangesAtRest == Spec => ActsAtRest
<1>. DEFINE Inv == BusType /\ Course /\ OrderInv /\ RestInv
            Resting == \A m \in Motors :
                         (id'[m] # id[m] \/ pos'[m] # pos[m]) => (~run[m] \/ <<m, "STOP">> \in missed)
<1>1. Init => Inv
  <2>. SUFFICES ASSUME Init PROVE OrderInv /\ RestInv
    BY InitCourse
  <2>1. \A m \in Motors : inbox[m] = <<>>
    BY DEF Init, BusInit
  <2>2. at = "open"
    BY DEF Init
  <2>. QED
    BY <2>1, <2>2 DEF OrderInv, RestInv
<1>2. Inv /\ [Next]_vars => Inv'
  BY BusTypeStep, CourseStep, CourseIsPlaced, OrderStep, RestStep
<1>3. Inv /\ [Next]_vars => Resting
  <2>. SUFFICES ASSUME Inv, [Next]_vars, NEW m \in Motors, id'[m] # id[m] \/ pos'[m] # pos[m]
                PROVE  ~run[m] \/ <<m, "STOP">> \in missed
    OBVIOUS
  <2>1. PICK x \in Motors : Obey(x)
    <3>1. ToolStep \/ Expire \/ Confirm => UNCHANGED motorVars
      BY CourseIsPlaced, ToolOnBusStep DEF ToolOnBus
    <3>2. UNCHANGED vars => UNCHANGED motorVars
      BY DEF vars, busVars
    <3>3. \A c : OtherTraffic(c) => UNCHANGED motorVars
      BY DEF OtherTraffic
    <3>. QED
      BY <3>1, <3>2, <3>3 DEF Next, BusStep, motorVars
  <2>. DEFINE f == Head(inbox[x])
  <2>2. /\ f = inbox[x][1] /\ 1 \in DOMAIN inbox[x]
        /\ (Execute(x, f) /\ f.to = id[x]) \/ UNCHANGED motorVars
    BY <2>1, ObeyStep
  <2>3. /\ IsChange(f) => RestsBehind(x, 0) /\ Ordered(f)
    BY <2>2 DEF RestInv, OrderInv
  <2>. HIDE DEF f
  <2>4. x = m /\ IsChange(f) /\ f.to = id[m]
    BY <2>2 DEF Execute, motorVars, BusType, IsChange
  <2>5. f.to = cmd.a
    BY <2>3, <2>4 DEF Ordered, IsChange
  <2>. QED
    BY <2>3, <2>4, <2>5 DEF RestsBehind, Rests
<1>4. Inv /\ [Next]_vars => [Resting]_vars
  BY <1>3
<1>. HIDE DEF Inv, Resting
<1>5. Init /\ [][Next]_vars => [][Resting]_vars
  BY <1>1, <1>2, <1>4, PTL
<1>. QED
  BY <1>5, PTL DEF Spec, ActsAtRest, Resting

-----------------------------------------------------------------------------
(***************************************************************************)
(* Until the change of an id is sent every motor keeps its own, so that    *)
(* an answer on its way is true, and a motor that is asked answers, or a   *)
(* fault is counted.                                                       *)
(***************************************************************************)
NoChange == \A m \in Motors : \A k \in DOMAIN inbox[m] : inbox[m][k].kind # "SET_CAN_ID"

SettledInv == step # "verify" => NoChange /\ RepliesTrue

Honest == ~cmd.dry /\ ~HostFailed

\* The question to motor m, or its answer, is on its way.
Coming(m) ==
  \/ \E k \in DOMAIN inbox[m] : inbox[m][k].kind = "GET_ID" /\ inbox[m][k].to = id[m]
  \/ \E k \in DOMAIN rx[ch] : rx[ch][k].kind = "GET_ID" /\ rx[ch][k].from = id[m]

AskedInv ==
  step # "verify" /\ Honest /\ at \in {"query", "reply"} =>
    \A m \in MotorsAt(ch, target) :
      faults >= try - 1 /\ (at = "reply" => faults >= try \/ Coming(m))

Settled == BusType /\ Course /\ SettledInv

\* Where get_device() and read_mechanical_position() return to.
LEMMA ReturnedPlace ==
  ASSUME NEW dev, Returned(dev)
  PROVE  /\ at' \in {"query", "open", "confirm", "read", "done"}
         /\ at' = "query" => try' = 1
         /\ step = "verify" => step' = "verify"
  BY DEF Returned, Scanned, NextChannel, Got, OldChecked, NewChecked, Verified, Identified, Go, Finish

LEMMA ReadPlace ==
  ASSUME NEW p, Shown \/ ReadBack(p)
  PROVE  at' \in {"confirm", "read", "done"} /\ step \in {"before", "after"}
  BY DEF Shown, ReadBack, Go, Finish

\* There is no way back from the check of the new id.
LEMMA VerifyIsLast ==
  ASSUME Course, [Next]_vars, step = "verify"
  PROVE  step' = "verify"
<1>0. /\ step # cmd.name /\ at \notin {"open", "stop", "set", "ack", "confirm", "read", "value"}
  BY CommandType DEF Course, Flow, PlaceOK
<1>1. CASE Query
  BY <1>1, ReturnedPlace DEF Query, Go, Finish
<1>2. CASE Receive
  BY <1>0, <1>2, ReturnedPlace DEF Receive, Accept, toolVars, placeVars
<1>3. CASE Expire
  BY <1>0, <1>3, ReturnedPlace DEF Expire, GiveUp, Go
<1>4. ~Open /\ ~SendStop /\ ~Set /\ ~Read /\ ~Confirm
  BY <1>0 DEF Open, SendStop, Set, Read, Confirm
<1>. QED
  BY <1>1, <1>2, <1>3, <1>4 DEF Next, ToolStep, vars, toolVars, placeVars

\* What is written before that is no change of an id.
LEMMA WritesNoChange ==
  ASSUME Course, ToolStep \/ Expire \/ Confirm, step' # "verify"
  PROVE  UNCHANGED inbox \/ \E f \in Frames : f.kind # "SET_CAN_ID" /\ Write(ch, f)
<1>0. PlaceType
  BY CourseIsPlaced
<1>1. CASE at # "set"
  <2>1. ToolWrites
    BY <1>0, ToolOnBusStep DEF ToolOnBus
  <2>. QED
    BY <1>1, <2>1 DEF ToolWrites, Posted
<1>2. CASE at = "set"
  <2>1. Set
    BY <1>2 DEF ToolStep, Open, Query, Receive, SendStop, Read, Expire, Confirm, GiveUp
  <2>2. Frame("SET_ZERO", cmd.a) \in Frames /\ Frame("SET_ZERO", cmd.a).kind = "SET_ZERO"
    BY CommandType, FrameType DEF Course, Kinds
  <2>. QED
    BY <2>1, <2>2 DEF Set, Send, Refused, Go
<1>. QED
  BY <1>1, <1>2

\* The step of one who takes a frame, where ids are settled.
LEMMA ObeySettled ==
  ASSUME BusType, NoChange, NEW m \in Motors, Obey(m)
  PROVE  LET f == inbox[m][1]
         IN /\ UNCHANGED id /\ f.kind # "SET_CAN_ID"
            /\ UNCHANGED faults \/ Fault
            /\ UNCHANGED rx \/ rx' = [rx EXCEPT ![Chan[m]] = Append(@, Answer(m, f))]
            /\ f.to = id[m] => Fault \/ rx' = [rx EXCEPT ![Chan[m]] = Append(@, Answer(m, f))]
<1>. DEFINE f == inbox[m][1]
<1>1. f = Head(inbox[m]) /\ 1 \in DOMAIN inbox[m]
  BY ObeyStep
<1>2. f.kind # "SET_CAN_ID"
  BY <1>1 DEF NoChange
<1>. HIDE DEF f
<1>3. UNCHANGED id
  BY <1>1, <1>2 DEF Obey, Execute, motorVars
<1>4. /\ UNCHANGED faults \/ Fault
      /\ UNCHANGED rx \/ rx' = [rx EXCEPT ![Chan[m]] = Append(@, Answer(m, f))]
      /\ f.to = id[m] => Fault \/ rx' = [rx EXCEPT ![Chan[m]] = Append(@, Answer(m, f))]
  BY <1>1, <1>2 DEF Obey
<1>. QED
  BY <1>2, <1>3, <1>4 DEF f

LEMMA SettledStep ==
  ASSUME Settled, [Next]_vars
  PROVE  Settled' /\ (step' # "verify" => step # "verify" /\ UNCHANGED id)
<1>0. BusType /\ Course /\ SettledInv /\ PlaceType /\ BusType' /\ Course'
  BY CourseIsPlaced, BusTypeStep, CourseStep DEF Settled
<1>. SUFFICES ASSUME step' # "verify"
              PROVE  step # "verify" /\ UNCHANGED id /\ NoChange' /\ RepliesTrue'
  BY <1>0 DEF Settled, SettledInv
<1>1. step # "verify" /\ NoChange /\ RepliesTrue
  BY <1>0, VerifyIsLast DEF SettledInv
<1>2. CASE ToolStep \/ Expire \/ Confirm
  <2>1. ToolOnBus /\ UNCHANGED id
    BY <1>0, <1>2, ToolOnBusStep DEF ToolOnBus, motorVars
  <2>2. RepliesTrue'
    BY <1>0, <1>1, <2>1, ToolReads, ReadsAreTrue
  <2>3. ASSUME NEW f \in Frames, f.kind # "SET_CAN_ID", Write(ch, f) PROVE NoChange'
    <3>1. ASSUME NEW m \in Motors, NEW k \in DOMAIN inbox'[m] PROVE inbox'[m][k].kind # "SET_CAN_ID"
      <4>1. ch \in Channels
        BY <1>0 DEF Course
      <4>2. k \in 1 .. Len(inbox[m]) \/ k = Len(inbox[m]) + 1 \/ inbox'[m] = inbox[m]
        BY <1>0, <2>3, <3>1, <4>1, WriteArrives
      <4>. QED
        BY <1>0, <1>1, <2>3, <3>1, <4>1, <4>2, WriteArrives DEF NoChange
    <3>. QED
      BY <3>1 DEF NoChange
  <2>4. NoChange'
    BY <1>0, <1>1, <1>2, <2>3, WritesNoChange DEF NoChange
  <2>. QED
    BY <1>1, <2>1, <2>2, <2>4
<1>3. ASSUME NEW x \in Motors, Obey(x) PROVE UNCHANGED id /\ NoChange'
  <2>1. ASSUME NEW m \in Motors, NEW k \in DOMAIN inbox'[m] PROVE inbox'[m][k].kind # "SET_CAN_ID"
    <3>1. CASE m = x
      <4>1. k \in 1 .. Len(inbox[m]) - 1 /\ DOMAIN inbox[m] = 1 .. Len(inbox[m])
            /\ inbox'[m][k] = inbox[m][k + 1] /\ Len(inbox[m]) \in Nat
        BY <1>0, <1>3, <2>1, <3>1, TailShifts
      <4>2. k + 1 \in DOMAIN inbox[m]
        BY <4>1
      <4>. QED
        BY <1>1, <4>1, <4>2 DEF NoChange
    <3>2. CASE m # x
      BY <1>0, <1>1, <1>3, <2>1, <3>2, ObeyStep DEF NoChange
    <3>. QED
      BY <3>1, <3>2
  <2>. QED
    BY <1>0, <1>1, <1>3, <2>1, ObeySettled DEF NoChange
<1>4. ASSUME NEW c, OtherTraffic(c) PROVE UNCHANGED id /\ NoChange'
  BY <1>1, <1>4 DEF OtherTraffic, motorVars, NoChange
<1>5. {ch} \ Closed \subseteq Channels
  BY <1>0 DEF PlaceType, Closed
<1>6. CASE BusStep({ch} \ Closed)
  BY <1>0, <1>1, <1>3, <1>4, <1>5, <1>6, ArrivalsAreTrue DEF BusStep
<1>7. CASE UNCHANGED vars
  BY <1>1, <1>7 DEF vars, busVars, motorVars, NoChange, RepliesTrue, TrueReply, MotorsAt
<1>. QED
  BY <1>1, <1>2, <1>6, <1>7 DEF Next

\* A frame that the driver refused is not forgotten.
LEMMA RefusedIsKnown ==
  ASSUME NEW kind \in Kinds \cup {"OPEN"}, HostFails(kind) \/ Refused(kind)
  PROVE  HostFailed'
  BY DEF HostFails, Refused, HostFailed

LEMMA HonestBefore ==
  ASSUME BusType, Course, [Next]_vars
  PROVE  /\ faults \in Nat /\ faults' \in Nat /\ faults' >= faults
         /\ Fault => faults' = faults + 1
         /\ Honest' => Honest
<1>0. PlaceType /\ UNCHANGED cmd /\ faults \in Nat
  BY CourseIsPlaced, CommandStays DEF BusType
<1>1. (UNCHANGED faults \/ Fault) /\ missed \subseteq missed'
  <2>1. ToolOnBus => (UNCHANGED faults \/ Fault) /\ missed \subseteq missed'
    BY DEF ToolOnBus, HostFails
  <2>2. \A m \in Motors : Obey(m) => (UNCHANGED faults \/ Fault) /\ missed \subseteq missed'
    BY DEF Obey
  <2>. QED
    BY <1>0, <2>1, <2>2, ToolOnBusStep DEF Next, BusStep, OtherTraffic, vars, busVars
<1>. QED
  BY <1>0, <1>1 DEF Fault, Honest, HostFailed

\* A bus step loses no answer without a fault.
LEMMA ComingStays ==
  ASSUME BusType, NoChange, ch \in Channels, UNCHANGED ch,
         NEW m \in Motors, Chan[m] = ch, Coming(m),
         \/ \E x \in Motors : Obey(x)
         \/ \E d \in Channels : OtherTraffic(d)
  PROVE  Fault \/ Coming(m)'
<1>1. ASSUME NEW d \in Channels, NEW r, rx' = [rx EXCEPT ![d] = Append(@, r)],
             NEW n \in DOMAIN rx[ch], rx[ch][n].kind = "GET_ID", rx[ch][n].from = id[m], UNCHANGED id
      PROVE  Coming(m)'
  <2>1. n \in DOMAIN rx'[ch] /\ rx'[ch][n] = rx[ch][n]
    BY <1>1, ArrivalKeeps
  <2>. QED
    BY <1>1, <2>1 DEF Coming
<1>2. ASSUME NEW x \in Motors, Obey(x) PROVE Fault \/ Coming(m)'
  <2>1. UNCHANGED id /\ Chan[x] \in Channels
    BY <1>2, ObeySettled, BusConstants
  <2>2. ASSUME NEW n \in DOMAIN rx[ch], rx[ch][n].kind = "GET_ID", rx[ch][n].from = id[m]
        PROVE  Coming(m)'
    <3>1. UNCHANGED rx => Coming(m)'
      BY <2>1, <2>2 DEF Coming
    <3>2. UNCHANGED rx \/ \E r : rx' = [rx EXCEPT ![Chan[x]] = Append(@, r)]
      BY <1>2, ObeySettled
    <3>. QED
      BY <1>1, <2>1, <2>2, <3>1, <3>2
  <2>3. ASSUME NEW n \in DOMAIN inbox[m], inbox[m][n].kind = "GET_ID", inbox[m][n].to = id[m]
        PROVE  Fault \/ Coming(m)'
    <3>1. CASE m # x
      <4>1. inbox'[m] = inbox[m]
        BY <1>2, <3>1, ObeyStep
      <4>. QED
        BY <2>1, <2>3, <4>1 DEF Coming
    <3>2. CASE m = x /\ n # 1
      <4>1. n - 1 \in DOMAIN inbox'[m] /\ inbox'[m][n - 1] = inbox[m][n]
        <5>1. /\ Len(inbox[m]) \in Nat /\ n \in 1 .. Len(inbox[m])
              /\ DOMAIN inbox'[m] = 1 .. Len(inbox[m]) - 1
              /\ \A j \in 1 .. Len(inbox[m]) - 1 : inbox'[m][j] = inbox[m][j + 1]
          BY <1>2, <2>3, <3>2, TailShifts
        <5>2. n - 1 \in 1 .. Len(inbox[m]) - 1 /\ (n - 1) + 1 = n
          BY <3>2, <5>1
        <5>. QED
          BY <5>1, <5>2
      <4>. QED
        BY <2>1, <2>3, <4>1 DEF Coming
    <3>3. CASE m = x /\ n = 1
      <4>. DEFINE f == inbox[m][1]
                  r == Answer(m, f)
      <4>1. f.kind = "GET_ID" /\ f.to = id[m]
        BY <2>3, <3>3
      <4>2. Fault \/ rx' = [rx EXCEPT ![Chan[m]] = Append(@, r)]
        BY <1>2, <3>3, <4>1, ObeySettled
      <4>3. r.kind = "GET_ID" /\ r.from = id[m]
        BY <4>1 DEF Answer
      <4>4. ASSUME rx' = [rx EXCEPT ![Chan[m]] = Append(@, r)] PROVE Coming(m)'
        <5>. HIDE DEF r
        <5>1. \E j \in DOMAIN rx'[ch] : rx'[ch][j] = r
          BY <4>4, ArrivalKeeps
        <5>. QED
          BY <2>1, <4>3, <5>1 DEF Coming
      <4>. QED
        BY <4>2, <4>4
    <3>. QED
      BY <3>1, <3>2, <3>3
  <2>. QED
    BY <2>2, <2>3 DEF Coming
<1>3. ASSUME NEW d \in Channels, OtherTraffic(d) PROVE Coming(m)'
  <2>1. UNCHANGED <<id, inbox>> /\ \E r : rx' = [rx EXCEPT ![d] = Append(@, r)]
    BY <1>3 DEF OtherTraffic, motorVars
  <2>. QED
    BY <1>1, <2>1 DEF Coming
<1>. QED
  BY <1>2, <1>3

\* When a wait is given up, the motor that was asked answers no more, or a
\* fault is counted for this attempt too.
LEMMA ExpireCounts ==
  ASSUME BusType, Course, AskedInv, step # "verify", Honest, Expire, at = "reply",
         NEW m \in MotorsAt(ch, target)
  PROVE  faults' \in Nat /\ faults' >= try
<1>0. /\ m \in Motors /\ Chan[m] = ch /\ ch \in Channels /\ faults \in Nat /\ try \in Nat
      /\ faults >= try - 1 /\ (faults >= try \/ Coming(m))
  BY DEF MotorsAt, Course, Flow, PlaceOK, BusType, AskedInv
<1>1. CASE Answered(ch) /\ UNCHANGED faults
  <2>1. inbox[m] = <<>> /\ \A k \in DOMAIN rx[ch] : rx[ch][k].kind # "GET_ID"
    BY <1>0, <1>1 DEF Answered
  <2>2. ~Coming(m)
    BY <2>1 DEF Coming
  <2>. QED
    BY <1>0, <1>1, <2>2
<1>2. CASE Fault
  BY <1>0, <1>2 DEF Fault
<1>. QED
  BY <1>1, <1>2 DEF Expire

LEMMA AskedStep ==
  ASSUME Settled, AskedInv, [Next]_vars
  PROVE  AskedInv'
<1>. SUFFICES ASSUME step' # "verify", Honest', at' \in {"query", "reply"}, NEW m \in MotorsAt(ch, target)'
              PROVE  faults' >= try' - 1 /\ (at' = "reply" => faults' >= try' \/ Coming(m)')
  BY DEF AskedInv
<1>0. /\ BusType /\ Course /\ NoChange /\ step # "verify" /\ UNCHANGED <<id, cmd>> /\ Honest
      /\ faults \in Nat /\ faults' \in Nat /\ faults' >= faults
      /\ Fault => faults' = faults + 1
      /\ try \in Nat \ {0} /\ ch \in Channels /\ m \in Motors /\ cmd.dry = FALSE
      /\ at = "open" => try = 1
  <2>1. BusType /\ Course /\ step # "verify" /\ UNCHANGED <<id, cmd>>
    BY SettledStep, CommandStays DEF Settled
  <2>2. NoChange /\ Honest
    BY <2>1, HonestBefore DEF Settled, SettledInv
  <2>. QED
    BY <2>1, <2>2, HonestBefore, CommandType DEF Course, Flow, PlaceOK, Honest, MotorsAt
<1>f. at' = "query" /\ try' = 1 => faults' >= try' - 1 /\ at' # "reply"
  BY <1>0
<1>r. ASSUME NEW kind \in Kinds \cup {"OPEN"}, HostFails(kind) \/ Refused(kind) PROVE FALSE
  BY <1>r, RefusedIsKnown DEF Honest
<1>a. ASSUME UNCHANGED <<ch, target>> PROVE m \in MotorsAt(ch, target)
  BY <1>0, <1>a DEF MotorsAt
<1>1. CASE Open
  BY <1>0, <1>1, <1>f, <1>r DEF Open
<1>2. CASE Query
  <2>1. Send(Frame("GET_ID", target)) /\ Go("reply", step, target, try) /\ UNCHANGED ch
    BY <1>0, <1>2, <1>r DEF Query, Kinds
  <2>2. faults >= try - 1 /\ Chan[m] = ch /\ id[m] = target
    BY <1>0, <1>2, <1>a, <2>1 DEF Query, Go, AskedInv, MotorsAt
  <2>. DEFINE f == Frame("GET_ID", target)
  <2>3. Write(ch, f) /\ f \in Frames /\ f.kind = "GET_ID" /\ f.to = target
    BY <1>0, <2>1, FrameType DEF Send, Course, Flow, PlaceOK, Kinds
  <2>. HIDE DEF f
  <2>4. Len(inbox[m]) + 1 \in DOMAIN inbox'[m] /\ inbox'[m][Len(inbox[m]) + 1] = f
    BY <1>0, <2>2, <2>3, WriteArrives
  <2>5. Coming(m)'
    BY <1>0, <2>2, <2>3, <2>4 DEF Coming
  <2>. QED
    BY <1>0, <2>1, <2>2, <2>5 DEF Go
<1>3. CASE Receive
  <2>. DEFINE f == Head(rx[ch])
  <2>1. CASE Expects(f)
    BY <1>3, <1>f, <2>1, ReturnedPlace, ReadPlace DEF Receive, Accept, Go
  <2>2. CASE ~Expects(f)
    <3>1. UNCHANGED toolVars /\ at = "reply" /\ at' = "reply" /\ UNCHANGED <<ch, target, try, inbox, faults>>
      BY <1>3, <2>2 DEF Receive, toolVars, placeVars
    <3>2. /\ faults >= try - 1 /\ (faults >= try \/ Coming(m)) /\ id[m] = target
      BY <1>0, <1>a, <3>1 DEF AskedInv, MotorsAt
    <3>3. f.kind = "GET_ID" => f.from # target
      BY <2>2, <3>1 DEF Expects
    <3>. HIDE DEF f
    <3>4. rx[ch] # <<>> /\ rx' = [rx EXCEPT ![ch] = Tail(@)] /\ f = Head(rx[ch])
      BY <1>3 DEF Receive, f
    <3>5. ASSUME NEW j \in DOMAIN rx[ch], rx[ch][j].kind = "GET_ID", rx[ch][j].from = id[m]
          PROVE  Coming(m)'
      <4>1. j # 1
        BY <1>0, <3>2, <3>3, <3>4, <3>5, ReadTakesHead
      <4>2. j - 1 \in DOMAIN rx'[ch] /\ rx'[ch][j - 1] = rx[ch][j]
        BY <1>0, <3>4, <3>5, <4>1, ReadTakesHead
      <4>. QED
        BY <1>0, <3>1, <3>5, <4>2 DEF Coming
    <3>6. Coming(m) => Coming(m)'
      BY <1>0, <3>1, <3>5 DEF Coming
    <3>. QED
      BY <3>1, <3>2, <3>6
  <2>. QED
    BY <2>1, <2>2
<1>4. CASE Expire
  <2>1. CASE at = "reply" /\ Go("query", step, target, try + 1) /\ UNCHANGED ch
    <3>1. m \in MotorsAt(ch, target) /\ try' = try + 1 /\ at' = "query"
      BY <1>a, <2>1 DEF Go
    <3>2. faults' >= try
      BY <1>0, <1>4, <2>1, <3>1, ExpireCounts
    <3>. QED
      BY <1>0, <3>1, <3>2
  <2>2. CASE Returned(None)
    BY <1>f, <2>2, ReturnedPlace
  <2>. QED
    BY <1>4, <2>1, <2>2, ReadPlace DEF Expire, GiveUp, Finish
<1>5. ~Confirm /\ ~SendStop /\ ~Set
  BY <1>0 DEF Confirm, SendStop, Set, AwaitAck, Go, Finish
<1>6. ~Read
  BY ReadPlace DEF Read, Go
<1>7. ASSUME UNCHANGED toolVars, Coming(m) /\ Chan[m] = ch => Fault \/ Coming(m)'
      PROVE  faults' >= try' - 1 /\ (at' = "reply" => faults' >= try' \/ Coming(m)')
  <2>1. UNCHANGED <<at, ch, target, try>>
    BY <1>7 DEF toolVars, placeVars
  <2>2. m \in MotorsAt(ch, target) /\ Chan[m] = ch
    BY <1>a, <2>1 DEF MotorsAt
  <2>. QED
    BY <1>0, <1>7, <2>1, <2>2 DEF AskedInv
<1>8. CASE BusStep({ch} \ Closed) /\ UNCHANGED toolVars
  <2>1. {ch} \ Closed \subseteq Channels
    BY <1>0 DEF Closed
  <2>2. ch' = ch
    BY <1>8 DEF toolVars
  <2>. QED
    BY <1>0, <1>7, <1>8, <2>1, <2>2, ComingStays DEF BusStep
<1>9. CASE UNCHANGED vars
  <2>1. UNCHANGED toolVars /\ UNCHANGED <<ch, id, inbox, rx>>
    BY <1>9 DEF vars, busVars, motorVars, toolVars
  <2>. QED
    BY <1>7, <2>1 DEF Coming
<1>. QED
  BY <1>1, <1>2, <1>3, <1>4, <1>5, <1>6, <1>8, <1>9 DEF Next, ToolStep

-----------------------------------------------------------------------------
(***************************************************************************)
(* Whom the tool asks: set-id the new id, after the old one, and a scan    *)
(* the ids of its range on the channels of its command.                    *)
(***************************************************************************)
AimInv ==
  /\ step = "new" /\ at \in {"query", "reply"} => target = cmd.b
  /\ at = "open" => target = cmd.a
  /\ cmd.name \in {"scan", "get"} =>
       /\ ~cmd.all => ch = cmd.ch
       /\ target \in Nat /\ cmd.a <= target /\ target <= cmd.b
       /\ at \in {"open", "query", "reply", "done"}

\* What get_device() leaves of the aim, of a scan above all.
LEMMA ReturnedAim ==
  ASSUME Course, AimInv, at \in {"query", "reply"}, UNCHANGED cmd, NEW dev, Returned(dev)
  PROVE  AimInv'
<1>0. /\ cmd.a \in Nat /\ cmd.b \in Nat /\ step \in StepsOf(cmd.name) /\ target \in Nat
      /\ cmd.name \in {"scan", "get", "set-id", "set-zero"} /\ cmd.all \in BOOLEAN
      /\ cmd.name = "scan" => cmd.a <= cmd.b
      /\ cmd.name # "scan" => ~cmd.all
  BY Constants DEF Course, Flow, PlaceOK, Commands
<1>1. CASE Scanned(dev)
  <2>1. step = "scan" /\ cmd.name = "scan"
    BY <1>0, <1>1 DEF Scanned, StepsOf
  <2>2. CASE target < cmd.b /\ Go("query", step, target + 1, 1) /\ UNCHANGED ch
    BY <1>0, <2>1, <2>2 DEF AimInv, Go
  <2>3. CASE NextChannel(found')
    BY <1>0, <2>1, <2>3 DEF NextChannel, AimInv, Go, Finish
  <2>. QED
    BY <1>1, <2>2, <2>3 DEF Scanned
<1>2. CASE Got(dev)
  BY <1>0, <1>2 DEF Got, AimInv, Finish
<1>3. CASE OldChecked(dev) \/ NewChecked(dev) \/ Verified(dev) \/ Identified(dev)
  <2>1. cmd.name \notin {"scan", "get"}
    BY <1>0, <1>3 DEF OldChecked, NewChecked, Verified, Identified, StepsOf
  <2>. QED
    BY <1>3, <2>1 DEF OldChecked, NewChecked, Verified, Identified, AimInv, Go, Finish
<1>. QED
  BY <1>1, <1>2, <1>3 DEF Returned

LEMMA AimStep ==
  ASSUME Course, AimInv, [Next]_vars
  PROVE  AimInv'
<1>0. /\ UNCHANGED cmd /\ cmd.a \in Nat /\ cmd.b \in Nat /\ step \in StepsOf(cmd.name)
      /\ target \in Nat /\ cmd.name \in {"scan", "get", "set-id", "set-zero"}
      /\ cmd.all \in BOOLEAN
      /\ cmd.name = "scan" => cmd.a <= cmd.b
      /\ cmd.name # "scan" => ~cmd.all
      /\ at \in {"open", "stop", "set", "ack"} => step = cmd.name
      /\ at \in {"confirm", "stop", "set", "ack", "read", "value"} => cmd.name \notin {"scan", "get"}
  BY CommandStays, Constants DEF Course, Flow, PlaceOK, Commands, StepsOf
<1>n. ASSUME NEW all, NextChannel(all), step = "scan" PROVE AimInv'
  BY <1>0, <1>n DEF NextChannel, AimInv, Go, Finish, StepsOf
<1>d. ASSUME NEW r, Finish(r), UNCHANGED ch PROVE AimInv'
  BY <1>0, <1>d DEF AimInv, Finish
<1>g. ASSUME NEW a \in {"query", "reply"}, NEW t, Go(a, step, target, t), UNCHANGED ch,
             at \in {"query", "reply"}
      PROVE  AimInv'
  BY <1>0, <1>g DEF AimInv, Go
<1>o. ASSUME cmd.name \notin {"scan", "get"}, at' # "open", step' # "new" \/ at' \notin {"query", "reply"}
      PROVE  AimInv'
  BY <1>0, <1>o DEF AimInv
<1>1. CASE Open
  <2>1. ASSUME at' = (IF cmd.name \in {"set-id", "set-zero"} /\ cmd.dry THEN "confirm" ELSE "query"),
               UNCHANGED <<step, target, try, ch>>
        PROVE  AimInv'
    BY <1>0, <1>1, <2>1 DEF AimInv, Open, StepsOf
  <2>. QED
    BY <1>1, <1>n, <1>d, <2>1 DEF Open
<1>2. CASE Query
  BY <1>0, <1>2, <1>n, <1>d, <1>g, ReturnedAim DEF Query
<1>3. CASE Receive
  <2>1. CASE UNCHANGED toolVars
    BY <1>0, <2>1 DEF AimInv, toolVars, placeVars
  <2>2. ASSUME NEW f, Accept(f) PROVE AimInv'
    <3>1. CASE at = "reply" /\ Returned(f.uid)
      BY <1>0, <3>1, ReturnedAim
    <3>2. CASE at = "ack" /\ Go("read", "after", target, 1)
      BY <1>0, <1>o, <3>2 DEF Go
    <3>3. CASE at = "value" /\ (Shown \/ ReadBack(f.pos))
      BY <1>0, <1>o, <3>3, ReadPlace
    <3>. QED
      BY <2>2, <3>1, <3>2, <3>3 DEF Accept
  <2>. QED
    BY <1>3, <2>1, <2>2 DEF Receive
<1>4. CASE Expire
  <2>1. CASE at = "reply" /\ Go("query", step, target, try + 1) /\ UNCHANGED ch
    BY <1>g, <2>1
  <2>2. CASE at = "reply" /\ Returned(None)
    BY <1>0, <2>2, ReturnedAim
  <2>3. CASE at = "ack" /\ Finish("unacknowledged") /\ UNCHANGED ch
    BY <1>d, <2>3
  <2>4. CASE at = "value" /\ (Shown \/ ReadBack(None))
    BY <1>0, <1>o, <2>4, ReadPlace
  <2>. QED
    BY <1>4, <2>1, <2>2, <2>3, <2>4 DEF Expire, GiveUp
<1>5. CASE Confirm
  BY <1>0, <1>5, <1>o DEF Confirm, Go, Finish
<1>6. CASE SendStop
  BY <1>0, <1>6, <1>o DEF SendStop, Go, Finish
<1>7. CASE Set
  BY <1>0, <1>7, <1>o DEF Set, AwaitAck, Go, Finish
<1>8. CASE Read
  BY <1>0, <1>8, <1>o, ReadPlace DEF Read, Go
<1>9. CASE UNCHANGED <<cmd, toolVars>>
  BY <1>9 DEF AimInv, toolVars, placeVars
<1>. QED
  BY <1>1, <1>2, <1>3, <1>4, <1>5, <1>6, <1>7, <1>8, <1>9 DEF Next, ToolStep, vars

-----------------------------------------------------------------------------
\* Before the change: a motor at the new id would have answered.
UnusedInv ==
  cmd.name = "set-id" /\ at \in {"confirm", "stop", "set"} /\ Honest =>
    (MotorsAt(ch, cmd.b) # {} => faults >= Retries)

LEMMA UnusedStep ==
  ASSUME Settled, AskedInv, AimInv, UnusedInv, [Next]_vars
  PROVE  UnusedInv'
<1>. SUFFICES ASSUME cmd'.name = "set-id", at' \in {"confirm", "stop", "set"}, Honest',
                     NEW m \in MotorsAt(ch, cmd.b)'
              PROVE  faults' >= Retries
  BY DEF UnusedInv
<1>0. /\ BusType /\ Course /\ step # "verify" /\ UNCHANGED <<id, cmd>> /\ Honest
      /\ cmd.name = "set-id" /\ cmd.dry = FALSE /\ step \in {"set-id", "new"}
      /\ faults \in Nat /\ faults' \in Nat /\ faults' >= faults /\ try \in Nat /\ Retries \in Nat
      /\ at \notin {"ack", "read", "value"} /\ ch \in Channels
  <2>1. BusType /\ Course /\ Course' /\ UNCHANGED cmd /\ cmd.name = "set-id"
    BY CommandStays, SettledStep DEF Settled
  <2>2. step' # "verify"
    BY <2>1 DEF Course, Flow, PlaceOK
  <2>3. step # "verify" /\ UNCHANGED id /\ Honest
    BY <2>1, <2>2, SettledStep, HonestBefore
  <2>4. step \in {"set-id", "new"} /\ at \notin {"ack", "read", "value"}
    BY <2>1, <2>3 DEF Course, Flow, PlaceOK, StepsOf
  <2>5. cmd.dry = FALSE
    BY <2>1, <2>3, CommandType DEF Honest, Course
  <2>. QED
    BY <2>1, <2>3, <2>4, <2>5, HonestBefore, Constants DEF Course, Flow, PlaceOK
<1>r. ASSUME NEW kind \in Kinds \cup {"OPEN"}, HostFails(kind) \/ Refused(kind) PROVE FALSE
  BY <1>r, RefusedIsKnown DEF Honest
<1>d. ASSUME NEW dev, Returned(dev)
      PROVE  dev = None /\ step = "new" /\ ch' = ch
  BY <1>0, <1>d DEF Returned, Scanned, Got, OldChecked, NewChecked, Verified, Identified, Go, Finish
<1>s. ASSUME at \in {"confirm", "stop", "set"}, UNCHANGED ch PROVE faults' >= Retries
  <2>1. m \in MotorsAt(ch, cmd.b)
    BY <1>0, <1>s DEF MotorsAt
  <2>. QED
    BY <1>0, <1>s, <2>1 DEF UnusedInv
<1>1. ~Open
  BY <1>0, <1>r DEF Open, Finish, NextChannel, Go
<1>2. ~Query
  BY <1>0, <1>r DEF Query, Go, Kinds
<1>3. ~Receive
  <2>. SUFFICES ASSUME Receive PROVE FALSE
    OBVIOUS
  <2>. DEFINE f == Head(rx[ch])
  <2>1. Expects(f) /\ at = "reply" /\ Returned(f.uid)
    BY <1>0 DEF Receive, Accept, toolVars, placeVars
  <2>2. f \in Replies \cup {Standard} /\ f.kind = "GET_ID"
    BY <1>0, <2>1 DEF Receive, BusType, Expects
  <2>. HIDE DEF f
  <2>3. f.uid \in Motors
    BY <2>2 DEF Replies, Standard
  <2>. QED
    BY <1>d, <2>1, <2>3, NoneAssumption
<1>4. CASE Expire
  <2>1. at = "reply" /\ try >= Retries /\ Returned(None)
    BY <1>0, <1>4 DEF Expire, GiveUp, Go
  <2>2. target = cmd.b /\ ch' = ch
    BY <1>d, <2>1 DEF AimInv
  <2>3. m \in MotorsAt(ch, target)
    BY <1>0, <2>2 DEF MotorsAt
  <2>4. faults' >= try
    BY <1>0, <1>4, <2>1, <2>3, ExpireCounts
  <2>. QED
    BY <1>0, <2>1, <2>4
<1>5. CASE Confirm \/ SendStop \/ Set
  BY <1>5, <1>s DEF Confirm, SendStop, Set
<1>6. ~Read
  BY <1>0 DEF Read
<1>7. CASE UNCHANGED toolVars
  BY <1>7, <1>s DEF toolVars, placeVars
<1>. QED
  BY <1>1, <1>2, <1>3, <1>4, <1>5, <1>6, <1>7 DEF Next, ToolStep, vars

LEMMA InitAsked == Init => Settled /\ AskedInv /\ AimInv /\ UnusedInv
<1>. SUFFICES ASSUME Init PROVE Settled /\ AskedInv /\ AimInv /\ UnusedInv
  OBVIOUS
<1>1. BusType /\ Course
  BY InitCourse
<1>2. /\ at = "open" /\ step = cmd.name /\ target = cmd.a /\ ch = cmd.ch /\ cmd \in Commands
      /\ \A m \in Motors : inbox[m] = <<>>
      /\ \A c \in Channels : rx[c] = <<>>
  BY DEF Init, BusInit
<1>3. SettledInv
  BY <1>2 DEF SettledInv, NoChange, RepliesTrue
<1>4. AimInv
  <2>1. cmd.a \in Nat /\ cmd.b \in Nat /\ (cmd.name \in {"scan", "get"} => cmd.a <= cmd.b)
    <3>1. /\ cmd.a \in Nat /\ cmd.b \in Nat
          /\ cmd.name = "scan" => cmd.a <= cmd.b
          /\ cmd.name = "get" => cmd.b = cmd.a
      BY <1>2, Constants DEF Commands
    <3>. QED
      BY <3>1
  <2>2. cmd.a <= cmd.a
    BY <2>1
  <2>. QED
    BY <1>2, <2>1, <2>2 DEF AimInv
<1>. QED
  BY <1>1, <1>2, <1>3, <1>4 DEF Settled, AskedInv, UnusedInv

(***************************************************************************)
(* When set-id sends the change no motor of the channel has the new id, if *)
(* fewer frames and answers were lost or late than there are attempts, and *)
(* the driver took what it was given.  Every one of the attempts has to go *)
(* wrong for itself: a motor that is asked has its question or its answer  *)
(* on the way until a fault, and a late answer is an answer.               *)
(***************************************************************************)
THEOREM NewIdsAreUnused == Spec => []NewIdIsUnusedIfAsked
<1>. DEFINE Inv == Settled /\ AskedInv /\ AimInv /\ UnusedInv
<1>1. Inv /\ [Next]_vars => Inv'
  BY SettledStep, AskedStep, AimStep, UnusedStep DEF Settled
<1>2. Inv => NewIdIsUnusedIfAsked
  <2>. SUFFICES ASSUME Inv, ~HostFailed, cmd.name = "set-id", at = "set", ~cmd.dry, faults < Retries
                PROVE  MotorsAt(ch, cmd.b) = {}
    BY DEF NewIdIsUnusedIfAsked, NewIdIsUnused
  <2>1. faults \in Nat /\ Retries \in Nat
    BY Constants DEF Settled, BusType
  <2>. QED
    BY <2>1 DEF UnusedInv, Honest
<1>. HIDE DEF Inv
<1>3. Init => Inv
  BY InitAsked DEF Inv
<1>. QED
  BY <1>1, <1>2, <1>3, PTL DEF Spec

-----------------------------------------------------------------------------
(***************************************************************************)
(* scan and get: the motors of the range that the tool has come past are   *)
(* printed, or as many faults as attempts were counted.                    *)
(***************************************************************************)
InRange(m) == id[m] \in cmd.a .. cmd.b /\ (cmd.all \/ Chan[m] = cmd.ch)

Entry(m) == <<Chan[m], id[m], m>>

Past(m) == at = "done" \/ Chan[m] < ch \/ (Chan[m] = ch /\ id[m] < target)

Lists == cmd.name \in {"scan", "get"}

FoundInv ==
  /\ ~Lists => found = {}
  /\ \A e \in found : \E m \in Motors : InRange(m) /\ e = Entry(m)
  /\ Lists /\ Honest /\ UniqueIds =>
       \A m \in Motors : InRange(m) /\ Past(m) => Entry(m) \in found \/ faults >= Retries

\* Steps that print nothing and ask nobody else, or count no more.
LEMMA FoundKept ==
  ASSUME FoundInv, Lists, UNCHANGED <<cmd, id, found>>,
         \/ ~Honest'
         \/ /\ (UNCHANGED <<ch, target>> /\ at' # "done") \/ at = "done"
            /\ Honest /\ faults \in Nat /\ faults' \in Nat /\ faults' >= faults
  PROVE  FoundInv'
<1>1. Retries \in Nat
  BY Constants
<1>. QED
  BY <1>1 DEF FoundInv, Lists, InRange, Entry, Past, UniqueIds

LEMMA ReturnedFound ==
  ASSUME Course, AimInv, FoundInv, Lists, at \in {"query", "reply"}, UNCHANGED <<cmd, id>>,
         BusType, NEW dev, Returned(dev),
         dev # None => dev \in MotorsAt(ch, target),
         Honest' => /\ Honest /\ faults \in Nat /\ faults' \in Nat /\ faults' >= faults
                    /\ dev = None => \A m \in MotorsAt(ch, target) : faults' >= Retries
  PROVE  FoundInv'
<1>0. /\ cmd.a \in Int /\ cmd.b \in Int /\ ch \in Int /\ Retries \in Nat
      /\ target \in Int /\ cmd.a <= target /\ target <= cmd.b
      /\ ~cmd.all => ch = cmd.ch
      /\ \A m \in Motors : Chan[m] \in Channels /\ Chan[m] \in Int /\ id[m] \in Int
  <2>1. \A m \in Motors : Chan[m] \in Channels /\ id[m] \in Ids
    BY Constants DEF BusType
  <2>2. cmd.a \in Ids /\ cmd.b \in Ids /\ ch \in Channels
    BY CommandType DEF Course
  <2>3. /\ target \in Nat /\ cmd.a <= target /\ target <= cmd.b
        /\ ~cmd.all => ch = cmd.ch
    BY DEF AimInv, Lists
  <2>4. Ids \subseteq Int /\ Channels \subseteq Int /\ Retries \in Nat
    BY Constants
  <2>5. \A m \in Motors : Chan[m] \in Channels /\ Chan[m] \in Int /\ id[m] \in Int
    BY <2>1, <2>4
  <2>6. cmd.a \in Int /\ cmd.b \in Int /\ ch \in Int
    BY <2>2, <2>4
  <2>. QED
    BY <2>3, <2>4, <2>5, <2>6
<1>1. \A m \in Motors : (InRange(m)' <=> InRange(m)) /\ Entry(m)' = Entry(m)
  BY DEF InRange, Entry
<1>2. /\ found' = found \cup (IF dev = None THEN {} ELSE {<<ch, target, dev>>})
         \/ (dev # None /\ step = "get" /\ found' = {<<ch, target, dev>>})
      /\ \A m \in Motors : InRange(m) /\ Past(m)' => Past(m) \/ m \in MotorsAt(ch, target)
      /\ step = "get" => \A m \in Motors : ~(InRange(m) /\ Past(m))
  <2>0. \A m \in Motors : InRange(m) => /\ cmd.a <= id[m] /\ id[m] <= cmd.b
                                        /\ ~cmd.all => Chan[m] = ch
    BY <1>0 DEF InRange
  <2>1. CASE Scanned(dev)
    <3>0. step = "scan" /\ found' = IF dev = None THEN found ELSE found \cup {<<ch, target, dev>>}
      BY <2>1 DEF Scanned
    <3>1. CASE target < cmd.b /\ Go("query", step, target + 1, 1) /\ UNCHANGED ch
      <4>1. at' = "query" /\ target' = target + 1 /\ ch' = ch
        BY <3>1 DEF Go
      <4>. QED
        BY <1>0, <3>0, <4>1 DEF Past, MotorsAt
    <3>2. CASE target >= cmd.b /\ NextChannel(found')
      <4>1. target = cmd.b
        BY <1>0, <3>2
      <4>2. CASE ch + 1 \in Channels /\ ch' = ch + 1 /\ Go("open", step, cmd.a, 1)
        <5>1. ASSUME NEW m \in Motors, InRange(m), Past(m)' PROVE Past(m) \/ m \in MotorsAt(ch, target)
          <6>1. Chan[m] < ch + 1 \/ (Chan[m] = ch + 1 /\ id[m] < cmd.a)
            BY <4>2, <5>1 DEF Past, Go
          <6>2. Chan[m] < ch \/ (Chan[m] = ch /\ (id[m] < target \/ id[m] = target))
            BY <1>0, <2>0, <4>1, <5>1, <6>1
          <6>. QED
            BY <6>2 DEF Past, MotorsAt
        <5>. QED
          BY <3>0, <5>1
      <4>3. CASE ~(cmd.all /\ ch + 1 \in Channels)
        <5>1. ASSUME NEW m \in Motors, InRange(m) PROVE Past(m) \/ m \in MotorsAt(ch, target)
          <6>1. Chan[m] <= ch
            <7>1. CASE cmd.all
              <8>1. /\ NumChannels \in Nat /\ ch \in 0 .. NumChannels - 1
                    /\ ch + 1 \notin 0 .. NumChannels - 1 /\ Chan[m] \in 0 .. NumChannels - 1
                BY <1>0, <4>3, <7>1, BusConstants DEF Channels, Course
              <8>. QED
                BY <8>1
            <7>2. CASE ~cmd.all
              BY <1>0, <2>0, <5>1, <7>2
            <7>. QED
              BY <7>1, <7>2
          <6>2. Chan[m] < ch \/ (Chan[m] = ch /\ (id[m] < target \/ id[m] = target))
            BY <1>0, <2>0, <4>1, <5>1, <6>1
          <6>. QED
            BY <6>2 DEF Past, MotorsAt
        <5>. QED
          BY <3>0, <5>1
      <4>. QED
        BY <3>2, <4>2, <4>3 DEF NextChannel
    <3>. QED
      BY <1>0, <2>1, <3>1, <3>2 DEF Scanned
  <2>2. CASE Got(dev)
    <3>1. step = "get" /\ cmd.name = "get" /\ cmd.b = cmd.a /\ ~cmd.all
      BY <2>2 DEF Got, Course, Flow, PlaceOK, StepsOf, Commands, Lists
    <3>2. ASSUME NEW m \in Motors, InRange(m) PROVE Chan[m] = ch /\ id[m] = target
      BY <1>0, <2>0, <3>1, <3>2
    <3>3. at # "done"
      OBVIOUS
    <3>. QED
      BY <1>0, <2>2, <3>1, <3>2, <3>3 DEF Got, Past, MotorsAt
  <2>3. ~OldChecked(dev) /\ ~NewChecked(dev) /\ ~Verified(dev) /\ ~Identified(dev)
    BY DEF OldChecked, NewChecked, Verified, Identified, Course, Flow, PlaceOK, StepsOf, Lists
  <2>. QED
    BY <2>1, <2>2, <2>3 DEF Returned
<1>3. dev # None => dev \in Motors /\ InRange(dev) /\ Entry(dev) = <<ch, target, dev>>
  BY <1>0 DEF MotorsAt, InRange, Entry
<1>4. \A e \in found' : \E m \in Motors : InRange(m) /\ e = Entry(m)
  BY <1>2, <1>3 DEF FoundInv
<1>5. ASSUME Honest', UniqueIds, NEW m \in Motors, InRange(m), Past(m)'
      PROVE  Entry(m) \in found' \/ faults' >= Retries
  <2>1. CASE Past(m)
    <3>1. Entry(m) \in found \/ faults >= Retries
      BY <1>5, <2>1 DEF FoundInv
    <3>2. found \subseteq found'
      BY <1>2, <1>5, <2>1
    <3>. QED
      BY <1>0, <1>5, <3>1, <3>2
  <2>2. CASE m \in MotorsAt(ch, target) /\ dev # None
    <3>1. m = dev
      BY <1>5, <2>2 DEF MotorsAt, UniqueIds
    <3>. QED
      BY <1>2, <1>3, <2>2, <3>1
  <2>3. CASE m \in MotorsAt(ch, target) /\ dev = None
    BY <1>5, <2>3
  <2>. QED
    BY <1>2, <1>5, <2>1, <2>2, <2>3
<1>6. UniqueIds' <=> UniqueIds
  BY DEF UniqueIds
<1>7. Lists'
  BY DEF Lists
<1>. QED
  BY <1>1, <1>4, <1>5, <1>6, <1>7 DEF FoundInv

LEMMA FoundStep ==
  ASSUME Settled, AskedInv, AimInv, FoundInv, [Next]_vars
  PROVE  FoundInv'
<1>0. BusType /\ Course /\ UNCHANGED cmd /\ ch \in Channels
  BY CommandStays DEF Settled, Course
<1>1. CASE ~Lists
  <2>1. step \notin {"scan", "get"}
    BY <1>0, <1>1, CommandType DEF Course, Flow, PlaceOK, StepsOf, Lists
  <2>2. \A dev : Returned(dev) => found' = found
    BY <2>1 DEF Returned, Scanned, Got, OldChecked, NewChecked, Verified, Identified
  <2>3. \A p : Shown \/ ReadBack(p) => found' = found
    BY DEF Shown, ReadBack
  <2>4. UNCHANGED found
    BY <2>2, <2>3 DEF Next, ToolStep, Open, Query, Receive, Accept, SendStop, Set, Read, Expire,
                      GiveUp, Confirm, vars, toolVars
  <2>. QED
    BY <1>0, <1>1, <2>4 DEF FoundInv, Lists
<1>2. CASE Lists
  <2>0. /\ step \in {"scan", "get"} /\ step # "verify"
        /\ at \in {"open", "query", "reply", "done"}
        /\ SettledInv /\ NoChange /\ RepliesTrue
    BY <1>0, <1>2 DEF Settled, SettledInv, AimInv, Lists, Course, Flow, PlaceOK, StepsOf
  <2>1. UNCHANGED id
    <3>1. step' \in {"scan", "get"}
      BY <1>0, <1>2, SettledStep DEF Settled, Lists, Course, Flow, PlaceOK, StepsOf
    <3>. QED
      BY <3>1, SettledStep
  <2>2. /\ faults \in Nat /\ faults' \in Nat /\ faults' >= faults
        /\ Honest' => Honest /\ cmd.dry = FALSE
    BY <1>0, HonestBefore, CommandType DEF Honest
  <2>3. ASSUME NEW kind \in Kinds \cup {"OPEN"}, HostFails(kind) \/ Refused(kind) PROVE ~Honest'
    BY <2>3, RefusedIsKnown DEF Honest
  <2>4. ASSUME UNCHANGED found, ~Honest' PROVE FoundInv'
    BY <1>0, <1>2, <2>1, <2>4, FoundKept
  <2>5. ASSUME UNCHANGED <<found, ch, target>>, at' # "done" \/ at = "done" PROVE FoundInv'
    BY <1>0, <1>2, <2>1, <2>2, <2>4, <2>5, FoundKept
  <2>6. CASE Open
    BY <2>3, <2>4, <2>5, <2>6 DEF Open
  <2>7. CASE Query
    <3>1. CASE Send(Frame("GET_ID", target)) /\ UNCHANGED found
      <4>1. CASE Honest'
        <5>1. UNCHANGED <<ch, target>> /\ at' = "reply"
          <6>1. cmd.dry = FALSE /\ at = "query"
            BY <2>2, <2>7, <4>1 DEF Query
          <6>2. ~Refused("GET_ID")
            BY <2>3, <4>1 DEF Kinds
          <6>. QED
            BY <2>7, <6>1, <6>2 DEF Query, Go
        <5>. QED
          BY <2>5, <3>1, <5>1
      <4>. QED
        BY <2>4, <3>1, <4>1
    <3>2. CASE Refused("GET_ID") /\ Returned(None)
      <4>1. ~Honest' /\ at = "query"
        BY <2>3, <2>7, <3>2 DEF Query, Kinds
      <4>. QED
        BY <1>0, <1>2, <2>1, <3>2, <4>1, ReturnedFound
    <3>. QED
      BY <2>7, <3>1, <3>2 DEF Query
  <2>8. CASE Receive
    <3>. DEFINE f == Head(rx[ch])
    <3>1. at = "reply"
      BY <2>0, <2>8 DEF Receive
    <3>2. CASE UNCHANGED toolVars
      BY <2>5, <3>1, <3>2 DEF toolVars, placeVars
    <3>3. CASE Expects(f) /\ Returned(f.uid)
      <4>1. f = rx[ch][1] /\ 1 \in DOMAIN rx[ch] /\ f \in Replies \cup {Standard}
        BY <1>0, <2>8 DEF Receive, BusType
      <4>2. f.kind = "GET_ID" /\ f.from = target
        BY <3>1, <3>3 DEF Expects
      <4>3. f.uid \in MotorsAt(ch, target)
        BY <1>0, <2>0, <4>1, <4>2 DEF RepliesTrue, TrueReply, Standard
      <4>4. f.uid # None
        BY <4>3, NoneAssumption DEF MotorsAt
      <4>. QED
        BY <1>0, <1>2, <2>1, <2>2, <3>1, <3>3, <4>3, <4>4, ReturnedFound
    <3>. QED
      BY <2>8, <3>1, <3>2, <3>3 DEF Receive, Accept
  <2>9. CASE Expire
    <3>1. at = "reply"
      BY <2>0, <2>9 DEF Expire
    <3>2. CASE Go("query", step, target, try + 1) /\ UNCHANGED <<ch, found>>
      BY <2>5, <3>2 DEF Go
    <3>3. CASE try >= Retries /\ Returned(None)
      <4>1. ASSUME Honest', NEW m \in MotorsAt(ch, target) PROVE faults' >= Retries
        <5>1. faults' >= try
          BY <1>0, <2>0, <2>2, <2>9, <3>1, <4>1, ExpireCounts
        <5>2. try \in Nat /\ Retries \in Nat
          BY <1>0, Constants DEF Course, Flow, PlaceOK
        <5>. QED
          BY <2>2, <3>3, <5>1, <5>2
      <4>. QED
        BY <1>0, <1>2, <2>1, <2>2, <3>1, <3>3, <4>1, ReturnedFound
    <3>. QED
      BY <2>9, <3>1, <3>2, <3>3 DEF Expire, GiveUp
  <2>10. ~Confirm /\ ~SendStop /\ ~Set /\ ~Read
    BY <2>0 DEF Confirm, SendStop, Set, Read
  <2>11. CASE UNCHANGED toolVars
    BY <2>5, <2>11 DEF toolVars, placeVars
  <2>. QED
    BY <2>6, <2>7, <2>8, <2>9, <2>10, <2>11 DEF Next, ToolStep, vars
<1>. QED
  BY <1>1, <1>2

(***************************************************************************)
(* scan and get print no motor at an id it does not have, and with fewer   *)
(* faults than attempts they miss none of the range, for any ids, channels *)
(* and retries: an answer to an earlier question is still one of the motor *)
(* that has the id it comes from.                                          *)
(***************************************************************************)
THEOREM FoundArePresent == Spec => []FoundIsPresent
<1>. DEFINE Inv == Settled /\ AskedInv /\ AimInv /\ FoundInv
<1>1. Inv /\ [Next]_vars => Inv'
  BY SettledStep, AskedStep, AimStep, FoundStep DEF Settled
<1>2. Inv => FoundIsPresent
  <2>. SUFFICES ASSUME Inv PROVE FoundIsPresent
    OBVIOUS
  <2>1. \A m \in Motors : InRange(m) => Entry(m) \in Present
    BY DEF InRange, Entry, Present
  <2>2. \A e \in Present : \E m \in Motors : InRange(m) /\ e = Entry(m)
    BY DEF InRange, Entry, Present
  <2>3. found \subseteq Present
    BY <2>1 DEF FoundInv
  <2>4. ASSUME at = "done", Lists, Honest, UniqueIds, faults < Retries PROVE Present \subseteq found
    <3>1. faults \in Nat /\ Retries \in Nat
      BY Constants DEF Settled, BusType
    <3>2. \A m \in Motors : InRange(m) => Entry(m) \in found
      BY <2>4, <3>1 DEF FoundInv, Past
    <3>. QED
      BY <2>2, <3>2
  <2>. QED
    BY <2>3, <2>4 DEF FoundIsPresent, Honest, Lists
<1>3. Init => Inv
  <2>. SUFFICES ASSUME Init PROVE FoundInv
    BY InitAsked
  <2>1. /\ found = {} /\ at = "open" /\ ch = cmd.ch /\ target = cmd.a /\ cmd \in Commands
        /\ id \in [Motors -> Ids]
    BY DEF Init, BusInit
  <2>2. ASSUME NEW m \in Motors, InRange(m), Past(m) PROVE FALSE
    <3>1. id[m] \in Int /\ cmd.a \in Int /\ cmd.b \in Int /\ Chan[m] \in Nat
      <4>1. id[m] \in Ids /\ cmd.a \in Ids /\ cmd.b \in Ids /\ Chan[m] \in Channels
        BY <2>1, CommandType, Constants
      <4>2. Ids \subseteq Int
        BY Constants
      <4>3. \A c \in Channels : c \in Nat
        BY BusConstants DEF Channels
      <4>4. Chan[m] \in Nat
        BY <4>1, <4>3
      <4>. QED
        BY <4>1, <4>2, <4>4
    <3>2. cmd.a <= id[m] /\ (Chan[m] < cmd.ch \/ id[m] < cmd.a)
      BY <2>1, <2>2, <3>1 DEF InRange, Past
    <3>3. cmd.all /\ cmd.ch = 0
      BY <2>1, <2>2, <3>1, <3>2 DEF InRange, Past, Commands
    <3>. QED
      BY <3>1, <3>2, <3>3
  <2>. QED
    BY <2>1, <2>2 DEF FoundInv
<1>. HIDE DEF Inv
<1>. QED
  BY <1>1, <1>2, <1>3, PTL DEF Spec

-----------------------------------------------------------------------------
(***************************************************************************)
(* set-zero: a motor answers its frames in their order, so that behind the *)
(* feedback of the STOP there is no answer to a read from before, as long  *)
(* as the SET_ZERO waits.  q is a receive queue, b the inbox of a motor,   *)
(* and a the id of --id.                                                   *)
(***************************************************************************)
Told(r, a) == r.kind = "FEEDBACK" /\ r.from = a

Tells(r, a) == r.kind = "PARAM_READ" /\ r.from = a

Waits(b) == \E k \in DOMAIN b : b[k].kind = "SET_ZERO"

\* Frame i of the inbox is in front of any SET_ZERO.
Ahead(b, i) == i \in DOMAIN b /\ \A j \in 1 .. i : b[j].kind # "SET_ZERO"

Quiet(q, b, a) ==
  /\ \A j \in DOMAIN q : ~Told(q[j], a)
  /\ \A i \in DOMAIN b : b[i].kind \notin {"STOP", "SET_ZERO"}

InLine(q, b, a) ==
  /\ \A j, n \in DOMAIN q : j < n => ~(Told(q[j], a) /\ Tells(q[n], a))
  /\ \A j \in DOMAIN q : \A i \in DOMAIN b :
       Ahead(b, i) => ~(Told(q[j], a) /\ b[i].kind = "PARAM_READ")
  /\ \A h, i \in DOMAIN b : h < i /\ Ahead(b, i) => ~(b[h].kind = "STOP" /\ b[i].kind = "PARAM_READ")

Clear(q, b, a) ==
  /\ \A j \in DOMAIN q : ~Tells(q[j], a)
  /\ \A i \in DOMAIN b : Ahead(b, i) => b[i].kind # "PARAM_READ"

\* p is what is left of q when frames at its front were read.
Rest(p, q) == \E n \in Nat : \A k \in DOMAIN p : n + k \in DOMAIN q /\ p[k] = q[n + k]

LEMMA RestIsInLine ==
  ASSUME NEW S, NEW q \in Seq(S), NEW p \in Seq(S), Rest(p, q), NEW b, NEW a
  PROVE  /\ Quiet(q, b, a) => Quiet(p, b, a)
         /\ InLine(q, b, a) => InLine(p, b, a)
         /\ Clear(q, b, a) => Clear(p, b, a)
<1>1. PICK n \in Nat : \A k \in DOMAIN p : n + k \in DOMAIN q /\ p[k] = q[n + k]
  BY DEF Rest
<1>2. \A k \in DOMAIN p : k \in Int
  OBVIOUS
<1>3. \A j, k \in DOMAIN p : j < k => n + j < n + k
  BY <1>2
<1>4. InLine(q, b, a) => InLine(p, b, a)
  BY <1>1, <1>3 DEF InLine
<1>. QED
  BY <1>1, <1>4 DEF Quiet, Clear

\* A frame is written to the motor.
LEMMA PostIsInLine ==
  ASSUME NEW q, NEW b \in Seq(Frames), NEW f \in Frames, NEW a
  PROVE  LET c == Append(b, f)
         IN /\ Quiet(q, b, a) /\ f.kind \notin {"STOP", "SET_ZERO"} => Quiet(q, c, a)
            /\ Quiet(q, b, a) /\ f.kind = "STOP" => InLine(q, c, a) /\ ~Waits(c)
            /\ InLine(q, b, a) /\ f.kind = "SET_ZERO" => InLine(q, c, a)
            /\ f.kind = "SET_ZERO" => Waits(c)
            /\ Waits(b) => Waits(c)
            /\ ~Waits(b) /\ f.kind # "SET_ZERO" => ~Waits(c)
            /\ Clear(q, b, a) /\ Waits(b) => Clear(q, c, a)
<1>. DEFINE c == Append(b, f)
            n == Len(b)
<1>1. /\ n \in Nat /\ DOMAIN b = 1 .. n /\ DOMAIN c = 1 .. n + 1
      /\ c[n + 1] = f /\ \A i \in 1 .. n : c[i] = b[i]
  OBVIOUS
<1>2. \A i \in DOMAIN c : i \in DOMAIN b \/ i = n + 1
  BY <1>1
<1>. HIDE DEF c, n
<1>3. \A i \in 1 .. n : Ahead(c, i) <=> Ahead(b, i)
  BY <1>1 DEF Ahead
<1>4. Ahead(c, n + 1) => ~Waits(b) /\ f.kind # "SET_ZERO"
  BY <1>1 DEF Ahead, Waits
<1>5. Waits(c) <=> Waits(b) \/ f.kind = "SET_ZERO"
  BY <1>1, <1>2 DEF Waits
<1>6. Quiet(q, b, a) /\ f.kind \notin {"STOP", "SET_ZERO"} => Quiet(q, c, a)
  BY <1>1, <1>2 DEF Quiet
<1>7. Quiet(q, b, a) /\ f.kind = "STOP" => InLine(q, c, a) /\ ~Waits(c)
  <2>. SUFFICES ASSUME Quiet(q, b, a), f.kind = "STOP" PROVE InLine(q, c, a) /\ ~Waits(c)
    OBVIOUS
  <2>1. \A h, i \in DOMAIN c : h < i => h \in 1 .. n
    BY <1>1
  <2>2. \A h, i \in DOMAIN c : h < i => c[h].kind # "STOP"
    BY <1>1, <2>1 DEF Quiet
  <2>3. ~Waits(b)
    BY DEF Quiet, Waits
  <2>. QED
    BY <1>5, <2>2, <2>3 DEF InLine, Quiet
<1>8. InLine(q, b, a) /\ f.kind = "SET_ZERO" => InLine(q, c, a)
  <2>. SUFFICES ASSUME InLine(q, b, a), f.kind = "SET_ZERO" PROVE InLine(q, c, a)
    OBVIOUS
  <2>1. \A i \in DOMAIN c : Ahead(c, i) => i \in DOMAIN b /\ Ahead(b, i) /\ c[i] = b[i]
    BY <1>1, <1>2, <1>3, <1>4
  <2>2. \A h, i \in DOMAIN c : h < i /\ Ahead(c, i) => h \in DOMAIN b /\ c[h] = b[h]
    BY <1>1
  <2>. QED
    BY <2>1, <2>2 DEF InLine
<1>9. Clear(q, b, a) /\ Waits(b) => Clear(q, c, a)
  BY <1>1, <1>2, <1>3, <1>4 DEF Clear
<1>. QED
  BY <1>5, <1>6, <1>7, <1>8, <1>9 DEF c

\* A frame of somebody else is received.
LEMMA HearIsInLine ==
  ASSUME NEW S, NEW q \in Seq(S), NEW r \in S, NEW b, NEW a, ~Told(r, a), ~Tells(r, a)
  PROVE  /\ Quiet(q, b, a) => Quiet(Append(q, r), b, a)
         /\ InLine(q, b, a) => InLine(Append(q, r), b, a)
         /\ Clear(q, b, a) => Clear(Append(q, r), b, a)
<1>. DEFINE p == Append(q, r)
<1>1. \A j \in DOMAIN p : (j \in DOMAIN q /\ p[j] = q[j]) \/ p[j] = r
  OBVIOUS
<1>. HIDE DEF p
<1>2. InLine(q, b, a) => InLine(p, b, a)
  BY <1>1 DEF InLine
<1>. QED
  BY <1>1, <1>2 DEF Quiet, Clear, p

\* The motor takes a frame, other than SET_ZERO, and answers it or not.
LEMMA TakeIsInLine ==
  ASSUME NEW S, NEW q \in Seq(S), NEW p, NEW b \in Seq(Frames), b # <<>>, NEW a,
         b[1].kind # "SET_ZERO",
         \/ p = q
         \/ \E r \in S : /\ p = Append(q, r)
                         /\ Told(r, a) => b[1].kind = "STOP"
                         /\ Tells(r, a) => b[1].kind = "PARAM_READ"
  PROVE  /\ Quiet(q, b, a) => Quiet(p, Tail(b), a)
         /\ InLine(q, b, a) => InLine(p, Tail(b), a)
         /\ Clear(q, b, a) => Clear(p, Tail(b), a)
         /\ Waits(Tail(b)) <=> Waits(b)
<1>. DEFINE c == Tail(b)
            n == Len(b)
<1>1. /\ n \in Nat \ {0} /\ DOMAIN b = 1 .. n /\ DOMAIN c = 1 .. n - 1
      /\ \A i \in 1 .. n - 1 : c[i] = b[i + 1]
  OBVIOUS
<1>. HIDE DEF c, n
<1>2. \A i \in DOMAIN c : i + 1 \in DOMAIN b /\ i \in Int /\ c[i] = b[i + 1] /\ 1 < i + 1
  BY <1>1
<1>3. \A i \in DOMAIN b : i = 1 \/ (i - 1 \in DOMAIN c /\ b[i] = c[i - 1])
  <2>1. \A i \in 1 .. n : i # 1 => i - 1 \in 1 .. n - 1 /\ (i - 1) + 1 = i
    BY <1>1
  <2>. QED
    BY <1>1, <2>1
<1>4. 1 \in DOMAIN b /\ Ahead(b, 1)
  BY <1>1 DEF Ahead
<1>5. ASSUME NEW i \in DOMAIN c, Ahead(c, i) PROVE Ahead(b, i + 1)
  <2>1. ASSUME NEW j \in 1 .. i + 1 PROVE b[j].kind # "SET_ZERO"
    <3>1. j = 1 \/ (j - 1 \in 1 .. i /\ (j - 1) + 1 = j /\ j - 1 \in 1 .. n - 1)
      BY <1>1
    <3>2. j - 1 \in 1 .. i => c[j - 1].kind # "SET_ZERO"
      BY <1>5 DEF Ahead
    <3>. QED
      BY <1>1, <3>1, <3>2
  <2>. QED
    BY <1>2, <2>1 DEF Ahead
<1>6. Waits(c) <=> Waits(b)
  BY <1>2, <1>3 DEF Waits
<1>7. \A j \in DOMAIN p : \/ j \in DOMAIN q /\ p[j] = q[j]
                          \/ /\ Told(p[j], a) => b[1].kind = "STOP"
                             /\ Tells(p[j], a) => b[1].kind = "PARAM_READ"
                             /\ \A k \in DOMAIN p : ~(j < k)
  <2>1. ASSUME NEW r \in S, p = Append(q, r), NEW j \in DOMAIN p
        PROVE  (j \in DOMAIN q /\ p[j] = q[j]) \/ (p[j] = r /\ \A k \in DOMAIN p : ~(j < k))
    BY <2>1
  <2>. QED
    BY <2>1
<1>8. Quiet(q, b, a) => Quiet(p, c, a)
  BY <1>2, <1>4, <1>7 DEF Quiet
<1>9. Clear(q, b, a) => Clear(p, c, a)
  BY <1>2, <1>4, <1>5, <1>7 DEF Clear
<1>10. InLine(q, b, a) => InLine(p, c, a)
  <2>. SUFFICES ASSUME InLine(q, b, a) PROVE InLine(p, c, a)
    OBVIOUS
  <2>1. ASSUME NEW j \in DOMAIN p, NEW k \in DOMAIN p, j < k, Told(p[j], a), Tells(p[k], a) PROVE FALSE
    <3>1. j \in DOMAIN q /\ p[j] = q[j]
      BY <1>7, <2>1
    <3>2. CASE k \in DOMAIN q /\ p[k] = q[k]
      BY <2>1, <3>1, <3>2 DEF InLine
    <3>3. CASE b[1].kind = "PARAM_READ"
      BY <1>4, <2>1, <3>1, <3>3 DEF InLine
    <3>. QED
      BY <1>7, <2>1, <3>2, <3>3
  <2>2. ASSUME NEW j \in DOMAIN p, NEW i \in DOMAIN c, Ahead(c, i), Told(p[j], a), c[i].kind = "PARAM_READ"
        PROVE  FALSE
    <3>1. i + 1 \in DOMAIN b /\ Ahead(b, i + 1) /\ b[i + 1].kind = "PARAM_READ" /\ 1 < i + 1
      BY <1>2, <1>5, <2>2
    <3>2. CASE j \in DOMAIN q /\ p[j] = q[j]
      BY <2>2, <3>1, <3>2 DEF InLine
    <3>3. CASE b[1].kind = "STOP"
      BY <1>4, <3>1, <3>3 DEF InLine
    <3>. QED
      BY <1>7, <2>2, <3>2, <3>3
  <2>3. ASSUME NEW h \in DOMAIN c, NEW i \in DOMAIN c, h < i, Ahead(c, i), c[h].kind = "STOP",
               c[i].kind = "PARAM_READ"
        PROVE  FALSE
    <3>1. /\ i + 1 \in DOMAIN b /\ Ahead(b, i + 1) /\ b[i + 1].kind = "PARAM_READ"
          /\ h + 1 \in DOMAIN b /\ b[h + 1].kind = "STOP" /\ h + 1 < i + 1
      BY <1>2, <1>5, <2>3
    <3>. QED
      BY <3>1 DEF InLine
  <2>. QED
    BY <2>1, <2>2, <2>3 DEF InLine
<1>. QED
  BY <1>6, <1>8, <1>9, <1>10 DEF c

LEMMA ToolReadsInOrder ==
  ASSUME BusType, PlaceType, ToolOnBus
  PROVE  Rest(rx'[ch], rx[ch])
<1>. DEFINE q == rx[ch]
<1>1. /\ ch \in Channels /\ q \in Seq(Replies \cup {Standard})
      /\ rx \in [Channels -> Seq(Replies \cup {Standard})]
  BY DEF PlaceType, BusType
<1>. HIDE DEF q
<1>2. Rest(q, q)
  <2>1. \A k \in DOMAIN q : 0 + k = k
    BY <1>1
  <2>. QED
    BY <2>1 DEF Rest
<1>3. q # <<>> => Rest(Tail(q), q)
  <2>1. q # <<>> => \A k \in DOMAIN Tail(q) : 1 + k \in DOMAIN q /\ Tail(q)[k] = q[1 + k]
    BY <1>1
  <2>. QED
    BY <2>1 DEF Rest
<1>4. ASSUME NEW n \in 0 .. Len(q) PROVE Rest(SubSeq(q, n + 1, Len(q)), q)
  <2>1. /\ Len(SubSeq(q, n + 1, Len(q))) = Len(q) - n
        /\ SubSeq(q, n + 1, Len(q)) \in Seq(Replies \cup {Standard})
        /\ \A k \in 1 .. Len(q) - n : SubSeq(q, n + 1, Len(q))[k] = q[n + k]
    BY <1>1
  <2>2. n \in Nat /\ \A k \in 1 .. Len(q) - n : n + k \in DOMAIN q
    BY <1>1
  <2>3. DOMAIN SubSeq(q, n + 1, Len(q)) = 1 .. Len(q) - n
    BY <1>1, <2>1
  <2>. QED
    BY <2>1, <2>2, <2>3 DEF Rest
<1>5. CASE Drained
  <2>1. PICK n \in 0 .. Len(q) : rx' = [rx EXCEPT ![ch] = SubSeq(q, n + 1, Len(q))]
    BY <1>5 DEF Drained, q
  <2>2. rx'[ch] = SubSeq(q, n + 1, Len(q))
    BY <1>1, <2>1
  <2>. QED
    BY <1>4, <2>2 DEF q
<1>6. CASE rx[ch] # <<>> /\ rx' = [rx EXCEPT ![ch] = Tail(@)]
  <2>1. q # <<>> /\ rx'[ch] = Tail(q)
    BY <1>1, <1>6 DEF q
  <2>. QED
    BY <1>3, <2>1 DEF q
<1>7. CASE UNCHANGED rx
  BY <1>2, <1>7 DEF q
<1>. QED
  BY <1>5, <1>6, <1>7 DEF ToolOnBus

-----------------------------------------------------------------------------
(***************************************************************************)
(* The way of set-zero: it reads the position and stops the motor, sets    *)
(* the zero, waits for the acknowledgement, and reads again.               *)
(***************************************************************************)
Early ==
  /\ at \in {"open", "query", "reply", "confirm", "stop", "read", "value"}
  /\ step # "after"

After == step = "after" /\ at \in {"read", "value"}

LEMMA ZeroPlaces ==
  ASSUME Course, cmd.name = "set-zero", at # "done"
  PROVE  /\ Early \/ at = "set" \/ at = "ack" \/ After
         /\ at \in {"set", "ack", "open", "stop", "query", "reply"} => step = "set-zero"
         /\ at \in {"read", "value", "confirm"} => step # "verify"
  BY DEF Course, Flow, PlaceOK, StepsOf, Early, After

LEMMA ZeroMoves ==
  ASSUME Course, cmd.name = "set-zero", ToolStep \/ Expire \/ Confirm, at' # "done"
  PROVE  /\ ch' = ch
         /\ \/ Early /\ Early' /\ at \notin {"stop", "set"}
            \/ at = "stop" /\ at' = "set" /\ (UNCHANGED inbox \/ Write(ch, Frame("STOP", cmd.a)))
            \/ at = "set" /\ at' = "ack" /\ step' = step /\ Write(ch, Frame("SET_ZERO", cmd.a))
            \/ at = "ack" /\ at' = "ack" /\ step' = step /\ UNCHANGED inbox
            \/ /\ at = "ack" /\ After' /\ UNCHANGED inbox
               /\ rx[ch] # <<>> /\ rx' = [rx EXCEPT ![ch] = Tail(@)]
               /\ Told(Head(rx[ch]), target)
            \/ After /\ After'
<1>0. /\ Early \/ at = "set" \/ at = "ack" \/ After \/ at = "done"
      /\ at \in {"set", "ack", "open", "stop", "query", "reply"} => step = "set-zero"
      /\ step \in {"set-zero", "before", "after"}
      /\ at = "confirm" => step # "after"
      /\ cmd.dry \in BOOLEAN
  BY ZeroPlaces, CommandType DEF Course, Flow, PlaceOK, StepsOf
<1>1. ASSUME NEW dev, Returned(dev), at \in {"query", "reply"}
      PROVE  ch' = ch /\ at' = "read" /\ step' = "before"
  BY <1>0, <1>1 DEF Returned, Scanned, Got, OldChecked, NewChecked, Verified, Identified, Go, Finish
<1>2. ASSUME NEW p, Shown \/ ReadBack(p)
      PROVE  /\ ch' = ch /\ (step = "before" => at' = "confirm" /\ step' = "before")
             /\ step \in {"before", "after"}
             /\ step = "after" => at' = "read" /\ step' = "after"
  BY <1>2 DEF Shown, ReadBack, Go, Finish
<1>3. CASE Open
  BY <1>0, <1>3 DEF Open, Finish, Early
<1>4. CASE Query
  BY <1>0, <1>1, <1>4 DEF Query, Go, Finish, Early
<1>5. CASE Receive
  <2>1. CASE UNCHANGED toolVars
    BY <1>0, <1>5, <2>1 DEF Receive, toolVars, placeVars, Early, After
  <2>2. CASE Expects(Head(rx[ch])) /\ Accept(Head(rx[ch]))
    BY <1>0, <1>1, <1>2, <1>5, <2>2 DEF Receive, Accept, Expects, Go, Early, After, Told
  <2>. QED
    BY <1>5, <2>1, <2>2 DEF Receive
<1>6. CASE Expire
  BY <1>0, <1>1, <1>2, <1>6 DEF Expire, GiveUp, Go, Finish, Early, After
<1>7. CASE Confirm
  BY <1>0, <1>7 DEF Confirm, Go, Finish, Early
<1>8. CASE SendStop
  BY <1>8 DEF SendStop, Send, Go, Finish
<1>9. CASE Set
  BY <1>0, <1>9 DEF Set, Send, AwaitAck, Go, Finish
<1>10. CASE Read
  BY <1>0, <1>2, <1>10 DEF Read, Go, Early, After
<1>. QED
  BY <1>3, <1>4, <1>5, <1>6, <1>7, <1>8, <1>9, <1>10 DEF ToolStep

\* set-zero is about one id, from its first question to its last.
ZeroTarget == cmd.name = "set-zero" => target = cmd.a

LEMMA ZeroTargetStep == Course /\ ZeroTarget /\ [Next]_vars => ZeroTarget'
<1>. SUFFICES ASSUME Course, ZeroTarget, [Next]_vars, cmd'.name = "set-zero" PROVE target' = cmd.a
  BY CommandStays DEF ZeroTarget
<1>0. /\ cmd.name = "set-zero" /\ target = cmd.a /\ step \in {"set-zero", "before", "after"}
      /\ at \in {"set", "ack", "open", "stop", "query", "reply"} => step = "set-zero"
  BY CommandStays DEF ZeroTarget, Course, Flow, PlaceOK, StepsOf
<1>1. ASSUME NEW dev, Returned(dev) PROVE target' = cmd.a
  BY <1>0, <1>1 DEF Returned, Scanned, Got, OldChecked, NewChecked, Verified, Identified, Go, Finish
<1>2. ASSUME NEW p, Shown \/ ReadBack(p) PROVE target' = cmd.a
  BY <1>0, <1>2 DEF Shown, ReadBack, Go, Finish
<1>3. CASE Open \/ Query
  BY <1>0, <1>1, <1>3 DEF Open, Query, Go, Finish
<1>4. CASE Receive \/ Expire
  BY <1>0, <1>1, <1>2, <1>4 DEF Receive, Accept, Expire, GiveUp, Go, Finish, toolVars, placeVars
<1>5. CASE Confirm \/ SendStop \/ Set
  BY <1>0, <1>5 DEF Confirm, SendStop, Set, AwaitAck, Go, Finish
<1>6. CASE Read
  BY <1>0, <1>2, <1>6 DEF Read, Go
<1>7. CASE UNCHANGED toolVars
  BY <1>0, <1>7 DEF toolVars, placeVars
<1>. QED
  BY <1>3, <1>4, <1>5, <1>6, <1>7 DEF Next, ToolStep, vars

\* A position on its way is the motor's, or its zero was set since.
ShownInv ==
  \A c \in Channels : \A n \in DOMAIN rx[c] :
    rx[c][n].kind = "PARAM_READ" => pos[rx[c][n].uid] \in {rx[c][n].pos, "zero"}

LEMMA ShownStep == BusType /\ PlaceType /\ ShownInv /\ [Next]_vars => ShownInv'
<1>. SUFFICES ASSUME BusType, PlaceType, ShownInv, [Next]_vars PROVE ShownInv'
  OBVIOUS
<1>. DEFINE Good(r, ps) == r.kind = "PARAM_READ" => ps[r.uid] \in {r.pos, "zero"}
<1>1. ASSUME NEW r \in Replies \cup {Standard}, Good(r, pos), \A m \in Motors : pos'[m] \in {pos[m], "zero"}
      PROVE  Good(r, pos')
  <2>1. r.kind = "PARAM_READ" => r.uid \in Motors
    BY DEF Replies, Standard
  <2>. QED
    BY <1>1, <2>1
<1>. HIDE DEF Good
<1>2. \A c \in Channels : \A n \in DOMAIN rx[c] : rx[c][n] \in Replies \cup {Standard} /\ Good(rx[c][n], pos)
  BY DEF BusType, ShownInv, Good
<1>3. CASE ToolStep \/ Expire \/ Confirm
  <2>1. ToolOnBus /\ pos' = pos
    BY <1>3, ToolOnBusStep DEF ToolOnBus, motorVars
  <2>2. \A c \in Channels : \A n \in DOMAIN rx'[c] : \E j \in DOMAIN rx[c] : rx'[c][n] = rx[c][j]
    BY <2>1, ToolReads
  <2>. QED
    BY <1>2, <2>1, <2>2 DEF ShownInv, Good
<1>4. ASSUME NEW d \in Channels, NEW r, rx' = [rx EXCEPT ![d] = Append(@, r)] \/ UNCHANGED rx,
             Good(r, pos'), \A m \in Motors : pos'[m] \in {pos[m], "zero"}
      PROVE  ShownInv'
  <2>1. ASSUME NEW c \in Channels, NEW n \in DOMAIN rx'[c] PROVE Good(rx'[c][n], pos')
    <3>1. (n \in DOMAIN rx[c] /\ rx'[c][n] = rx[c][n]) \/ rx'[c][n] = r
      BY <1>4, <2>1, ArrivalAppends
    <3>. QED
      BY <1>1, <1>2, <1>4, <3>1
  <2>. QED
    BY <2>1 DEF ShownInv, Good
<1>5. ASSUME NEW m \in Motors, Obey(m) PROVE ShownInv'
  <2>. DEFINE f == Head(inbox[m])
              r == Answer(m, f)
  <2>1. \A x \in Motors : pos'[x] \in {pos[x], "zero"}
    BY <1>5, ObeyStep DEF Execute, motorVars, BusType
  <2>2. UNCHANGED rx \/ rx' = [rx EXCEPT ![Chan[m]] = Append(@, r)]
    BY <1>5, ObeyStep
  <2>3. r.uid = m /\ r.pos = pos[m]
    BY DEF Answer
  <2>4. Chan[m] \in Channels
    BY Constants
  <2>. HIDE DEF r
  <2>5. Good(r, pos')
    BY <2>1, <2>3 DEF Good
  <2>. QED
    BY <1>4, <2>1, <2>2, <2>4, <2>5
<1>6. ASSUME NEW d \in Channels, OtherTraffic(d) PROVE ShownInv'
  <2>1. PICK r \in {Standard} \cup {Report(m) : m \in {n \in Motors : Chan[n] = d}} :
          rx' = [rx EXCEPT ![d] = Append(@, r)]
    BY <1>6 DEF OtherTraffic
  <2>2. Good(r, pos') /\ pos' = pos
    BY <1>6 DEF Standard, Report, Good, OtherTraffic, motorVars
  <2>. QED
    BY <1>4, <2>1, <2>2
<1>7. CASE UNCHANGED vars
  BY <1>7 DEF vars, busVars, motorVars, ShownInv
<1>8. {ch} \ Closed \subseteq Channels
  BY DEF PlaceType, Closed
<1>. QED
  BY <1>3, <1>5, <1>6, <1>7, <1>8 DEF Next, BusStep

-----------------------------------------------------------------------------
\* The zero of motor m was set, or it did not obey.
Zeroed(m) == pos[m] = "zero" \/ <<m, "SET_ZERO">> \in missed

ZeroPhase(m) ==
  /\ Early => Quiet(rx[ch], inbox[m], cmd.a)
  /\ at = "set" => InLine(rx[ch], inbox[m], cmd.a) /\ ~Waits(inbox[m])
  /\ at = "ack" => Zeroed(m) \/ (Waits(inbox[m]) /\ InLine(rx[ch], inbox[m], cmd.a))
  /\ After => Zeroed(m) \/ (Waits(inbox[m]) /\ Clear(rx[ch], inbox[m], cmd.a))

ZeroInv ==
  cmd.name = "set-zero" /\ UniqueIds /\ at # "done" => \A m \in MotorsAt(ch, cmd.a) : ZeroPhase(m)

\* The feedback that passes for the acknowledgement has no old answer behind it.
LEMMA AckIsClear ==
  ASSUME NEW S, NEW q \in Seq(S), q # <<>>, NEW b, NEW a, Told(Head(q), a), InLine(q, b, a)
  PROVE  Clear(Tail(q), b, a)
<1>1. /\ 1 \in DOMAIN q /\ Told(q[1], a)
      /\ \A k \in DOMAIN Tail(q) : k + 1 \in DOMAIN q /\ 1 < k + 1 /\ Tail(q)[k] = q[k + 1]
  OBVIOUS
<1>. QED
  BY <1>1 DEF InLine, Clear

LEMMA QuietIsInLine == \A q, b, a : Quiet(q, b, a) => InLine(q, b, a) /\ ~Waits(b)
  BY DEF Quiet, InLine, Waits

\* What stays of a zero that was set, or missed.
LEMMA ZeroedStays ==
  ASSUME BusType, Course, [Next]_vars, NEW m \in Motors
  PROVE  /\ pos'[m] \in {pos[m], "zero"}
         /\ Zeroed(m) => Zeroed(m)'
<1>1. \A x \in Motors : Obey(x) => pos'[m] \in {pos[m], "zero"} /\ missed \subseteq missed'
  BY ObeyStep DEF Execute, motorVars, BusType
<1>2. ToolOnBus => pos' = pos /\ missed \subseteq missed'
  BY DEF ToolOnBus, motorVars, HostFails
<1>3. pos'[m] \in {pos[m], "zero"} /\ missed \subseteq missed'
  BY <1>1, <1>2, CourseIsPlaced, ToolOnBusStep DEF Next, BusStep, OtherTraffic, vars, busVars, motorVars
<1>. QED
  BY <1>3 DEF Zeroed

LEMMA ZeroToolStep ==
  ASSUME BusType, Course, ZeroTarget, cmd.name = "set-zero", ToolStep \/ Expire \/ Confirm,
         at' # "done", NEW m \in MotorsAt(ch, cmd.a), ZeroPhase(m), UNCHANGED cmd,
         Zeroed(m) => Zeroed(m)'
  PROVE  ZeroPhase(m)'
<1>. DEFINE q == rx[ch]
            p == rx'[ch]
            b == inbox[m]
            c == inbox'[m]
            a == cmd.a
            S == Replies \cup {Standard}
<1>0. PlaceType /\ ch \in Channels /\ m \in Motors /\ Chan[m] = ch /\ target = a /\ a \in Ids
      /\ ToolOnBus
  BY CourseIsPlaced, ToolOnBusStep, CommandType DEF Course, MotorsAt, ZeroTarget
<1>1. q \in Seq(S) /\ b \in Seq(Frames) /\ p \in Seq(S)
  BY <1>0, ToolBusType DEF BusType
<1>2. Rest(p, q)
  BY <1>0, ToolReadsInOrder
<1>3. ASSUME NEW f \in Frames, Write(ch, f) PROVE c = Append(b, f)
  BY <1>0, <1>3, WriteArrives
<1>4. at \notin {"stop", "set"} =>
        c = b \/ \E f \in Frames : f.kind \notin {"STOP", "SET_ZERO"} /\ c = Append(b, f)
  BY <1>0, <1>3 DEF ToolOnBus, ToolWrites, Posted
<1>5. /\ Frame("STOP", a) \in Frames /\ Frame("STOP", a).kind = "STOP"
      /\ Frame("SET_ZERO", a) \in Frames /\ Frame("SET_ZERO", a).kind = "SET_ZERO"
  BY <1>0, FrameType DEF Kinds
<1>6. ch' = ch /\ cmd'.a = a
  BY ZeroMoves
<1>. HIDE DEF q, p, b, c, a, S
<1>7. /\ Quiet(q, b, a) => Quiet(p, b, a)
      /\ InLine(q, b, a) => InLine(p, b, a)
      /\ Clear(q, b, a) => Clear(p, b, a)
  BY <1>1, <1>2, RestIsInLine
<1>8. /\ Early => Quiet(q, b, a)
      /\ at = "set" => InLine(q, b, a) /\ ~Waits(b)
      /\ at = "ack" => Zeroed(m) \/ (Waits(b) /\ InLine(q, b, a))
      /\ After => Zeroed(m) \/ (Waits(b) /\ Clear(q, b, a))
  BY DEF ZeroPhase, q, b, a
<1>9. ASSUME /\ Early' => Quiet(p, c, a)
             /\ at' = "set" => InLine(p, c, a) /\ ~Waits(c)
             /\ at' = "ack" => Zeroed(m)' \/ (Waits(c) /\ InLine(p, c, a))
             /\ After' => Zeroed(m)' \/ (Waits(c) /\ Clear(p, c, a))
      PROVE  ZeroPhase(m)'
  BY <1>6, <1>9 DEF ZeroPhase, p, c, a
<1>10. CASE Early /\ Early' /\ at \notin {"stop", "set"}
  <2>1. Quiet(p, b, a)
    BY <1>7, <1>8, <1>10
  <2>2. ASSUME NEW f \in Frames, f.kind \notin {"STOP", "SET_ZERO"}, c = Append(b, f) PROVE Quiet(p, c, a)
    BY <1>1, <2>1, <2>2, PostIsInLine
  <2>3. Quiet(p, c, a)
    BY <1>4, <1>10, <2>1, <2>2
  <2>. QED
    BY <1>9, <1>10, <2>3 DEF Early, After
<1>11. CASE at = "stop" /\ at' = "set" /\ (UNCHANGED inbox \/ Write(ch, Frame("STOP", cmd.a)))
  <2>1. Early
    BY <1>11, ZeroPlaces DEF Early, After
  <2>2. c = b \/ c = Append(b, Frame("STOP", a))
    BY <1>3, <1>5, <1>11 DEF a, b, c
  <2>3. InLine(p, c, a) /\ ~Waits(c)
    BY <1>1, <1>5, <1>7, <1>8, <2>1, <2>2, PostIsInLine, QuietIsInLine
  <2>. QED
    BY <1>9, <1>11, <2>3 DEF Early, After
<1>12. CASE at = "set" /\ at' = "ack" /\ step' = step /\ Write(ch, Frame("SET_ZERO", cmd.a))
  <2>1. c = Append(b, Frame("SET_ZERO", a))
    BY <1>3, <1>5, <1>12 DEF a
  <2>2. InLine(p, c, a) /\ Waits(c)
    BY <1>1, <1>5, <1>7, <1>8, <1>12, <2>1, PostIsInLine
  <2>. QED
    BY <1>9, <1>12, <2>2 DEF Early, After
<1>13. CASE at = "ack" /\ at' = "ack" /\ step' = step /\ UNCHANGED inbox
  <2>1. c = b
    BY <1>13 DEF b, c
  <2>2. Zeroed(m)' \/ (Waits(c) /\ InLine(p, c, a))
    BY <1>7, <1>8, <1>13, <2>1
  <2>. QED
    BY <1>9, <1>13, <2>2 DEF Early, After
<1>14. CASE /\ at = "ack" /\ After' /\ UNCHANGED inbox
            /\ rx[ch] # <<>> /\ rx' = [rx EXCEPT ![ch] = Tail(@)]
            /\ Told(Head(rx[ch]), target)
  <2>1. c = b /\ q # <<>> /\ Told(Head(q), a) /\ p = Tail(q)
    BY <1>0, <1>14 DEF a, b, c, p, q, BusType
  <2>2. Zeroed(m)' \/ (Waits(c) /\ Clear(p, c, a))
    BY <1>1, <1>8, <1>14, <2>1, AckIsClear
  <2>. QED
    BY <1>9, <1>14, <2>2 DEF Early, After
<1>15. CASE After /\ After'
  <2>1. Zeroed(m)' \/ (Waits(b) /\ Clear(p, b, a))
    BY <1>7, <1>8, <1>15
  <2>2. ASSUME Waits(b), Clear(p, b, a), NEW f \in Frames, c = Append(b, f) PROVE Waits(c) /\ Clear(p, c, a)
    BY <1>1, <2>2, PostIsInLine
  <2>3. Zeroed(m)' \/ (Waits(c) /\ Clear(p, c, a))
    BY <1>4, <1>15, <2>1, <2>2 DEF After
  <2>. QED
    BY <1>9, <1>15, <2>3 DEF Early, After
<1>. QED
  BY <1>10, <1>11, <1>12, <1>13, <1>14, <1>15, ZeroMoves

LEMMA ZeroBusStep ==
  ASSUME BusType, Course, OrderInv, NoChange, cmd.name = "set-zero", UniqueIds, UNCHANGED <<cmd, toolVars>>,
         at # "done", NEW m \in MotorsAt(ch, cmd.a), ZeroPhase(m), Zeroed(m) => Zeroed(m)',
         \/ \E x \in Motors : Obey(x)
         \/ \E d \in Channels : OtherTraffic(d)
  PROVE  ZeroPhase(m)'
<1>. DEFINE q == rx[ch]
            p == rx'[ch]
            b == inbox[m]
            c == inbox'[m]
            a == cmd.a
            S == Replies \cup {Standard}
<1>0. ch \in Channels /\ m \in Motors /\ Chan[m] = ch /\ id[m] = a
  BY DEF Course, MotorsAt
<1>1. q \in Seq(S) /\ b \in Seq(Frames)
  BY <1>0 DEF BusType
<1>2. ch' = ch /\ cmd'.a = a /\ at' = at /\ (Early' <=> Early) /\ (After' <=> After)
  BY DEF toolVars, placeVars, Early, After
<1>3. ASSUME p = q \/ \E r \in S : p = Append(q, r) /\ ~Told(r, a) /\ ~Tells(r, a), c = b
      PROVE  ZeroPhase(m)'
  <2>. HIDE DEF q, p, b, c, a, S
  <2>1. /\ Quiet(q, b, a) => Quiet(p, c, a)
        /\ InLine(q, b, a) => InLine(p, c, a)
        /\ Clear(q, b, a) => Clear(p, c, a)
        /\ Waits(c) <=> Waits(b)
    BY <1>1, <1>3, HearIsInLine
  <2>2. ZeroPhase(m)' <=> /\ Early => Quiet(p, c, a)
                          /\ at = "set" => InLine(p, c, a) /\ ~Waits(c)
                          /\ at = "ack" => Zeroed(m)' \/ (Waits(c) /\ InLine(p, c, a))
                          /\ After => Zeroed(m)' \/ (Waits(c) /\ Clear(p, c, a))
    BY <1>2 DEF ZeroPhase, p, c, a
  <2>3. ZeroPhase(m) <=> /\ Early => Quiet(q, b, a)
                         /\ at = "set" => InLine(q, b, a) /\ ~Waits(b)
                         /\ at = "ack" => Zeroed(m) \/ (Waits(b) /\ InLine(q, b, a))
                         /\ After => Zeroed(m) \/ (Waits(b) /\ Clear(q, b, a))
    BY DEF ZeroPhase, q, b, a
  <2>. QED
    BY <2>1, <2>2, <2>3
<1>4. ASSUME NEW x \in Motors, Obey(x), x # m PROVE ZeroPhase(m)'
  <2>. DEFINE f == Head(inbox[x])
              r == Answer(x, f)
  <2>1. c = b /\ f \in Frames
        /\ (UNCHANGED rx \/ (f.kind # "SET_CAN_ID" /\ rx' = [rx EXCEPT ![Chan[x]] = Append(@, r)]))
    BY <1>0, <1>4, ObeyStep
  <2>2. f.kind # "SET_CAN_ID" => r \in Replies /\ r.from = id[x]
    BY <2>1, AnswerType
  <2>. HIDE DEF r, f
  <2>3. CASE UNCHANGED rx \/ Chan[x] # ch
    <3>1. p = q
      BY <1>0, <2>1, <2>3 DEF BusType
    <3>. QED
      BY <1>3, <2>1, <3>1
  <2>4. CASE ~UNCHANGED rx /\ Chan[x] = ch
    <3>1. id[x] # a
      BY <1>0, <1>4, <2>4 DEF UniqueIds
    <3>2. p = Append(q, r) /\ r \in S /\ ~Told(r, a) /\ ~Tells(r, a)
      BY <1>0, <2>1, <2>2, <2>4, <3>1 DEF BusType, Told, Tells
    <3>. QED
      BY <1>3, <2>1, <3>2
  <2>. QED
    BY <2>3, <2>4
<1>5. ASSUME NEW d \in Channels, OtherTraffic(d) PROVE ZeroPhase(m)'
  <2>1. PICK r \in {Standard} \cup {Report(x) : x \in {n \in Motors : Chan[n] = d}} :
          rx' = [rx EXCEPT ![d] = Append(@, r)]
    BY <1>5 DEF OtherTraffic
  <2>2. r \in S /\ ~Told(r, a) /\ ~Tells(r, a)
    BY DEF Report, Replies, Standard, BusType, Positions, Told, Tells
  <2>3. p = q \/ p = Append(q, r)
    BY <1>0, <2>1 DEF BusType
  <2>. QED
    BY <1>3, <1>5, <2>2, <2>3 DEF OtherTraffic
<1>6. CASE Obey(m)
  <2>. DEFINE f == Head(inbox[m])
              r == Answer(m, f)
  <2>1. /\ f \in Frames /\ f = b[1] /\ 1 \in DOMAIN inbox[m] /\ b # <<>> /\ c = Tail(b)
        /\ (UNCHANGED rx \/ (f.kind # "SET_CAN_ID" /\ rx' = [rx EXCEPT ![Chan[m]] = Append(@, r)]))
        /\ \/ Execute(m, f)
           \/ f.to = id[m] => missed' = missed \cup {<<m, f.kind>>}
    BY <1>0, <1>6, ObeyStep DEF Obey
  <2>2. f.kind # "SET_CAN_ID" => r \in S
    BY <1>0, <2>1, AnswerType
  <2>3. /\ Told(r, a) => f.kind \in {"STOP", "SET_ZERO"}
        /\ Tells(r, a) => f.kind = "PARAM_READ"
    BY <2>1 DEF Answer, Told, Tells, Frames, Kinds
  <2>. HIDE DEF r
  <2>4. p = q \/ (p = Append(q, r) /\ r \in S)
    BY <1>0, <2>1, <2>2 DEF BusType
  <2>5. CASE f.kind = "SET_ZERO"
    <3>1. f.to = a
      BY <1>0, <2>1, <2>5 DEF OrderInv, Ordered
    <3>2. Zeroed(m)'
      BY <1>0, <2>1, <2>5, <3>1 DEF Execute, Zeroed, BusType
    <3>3. ~Early /\ at # "set"
      <4>1. Waits(b)
        BY <2>1, <2>5 DEF Waits
      <4>2. ~Quiet(q, b, a)
        BY <2>1, <2>5 DEF Quiet
      <4>. QED
        BY <4>1, <4>2 DEF ZeroPhase
    <3>. QED
      BY <1>2, <3>2, <3>3 DEF ZeroPhase
  <2>6. CASE f.kind # "SET_ZERO"
    <3>. HIDE DEF q, p, b, c, a, S, f
    <3>1. /\ Quiet(q, b, a) => Quiet(p, c, a)
          /\ InLine(q, b, a) => InLine(p, c, a)
          /\ Clear(q, b, a) => Clear(p, c, a)
          /\ Waits(c) <=> Waits(b)
      <4>1. b[1].kind # "SET_ZERO" /\ b # <<>> /\ c = Tail(b)
        BY <2>1, <2>6
      <4>2. p = q \/ \E s \in S : /\ p = Append(q, s)
                                  /\ Told(s, a) => b[1].kind = "STOP"
                                  /\ Tells(s, a) => b[1].kind = "PARAM_READ"
        BY <2>1, <2>3, <2>4, <2>6
      <4>. QED
        BY <1>1, <4>1, <4>2, TakeIsInLine
    <3>2. ZeroPhase(m)' <=> /\ Early => Quiet(p, c, a)
                            /\ at = "set" => InLine(p, c, a) /\ ~Waits(c)
                            /\ at = "ack" => Zeroed(m)' \/ (Waits(c) /\ InLine(p, c, a))
                            /\ After => Zeroed(m)' \/ (Waits(c) /\ Clear(p, c, a))
      BY <1>2 DEF ZeroPhase, p, c, a
    <3>3. ZeroPhase(m) <=> /\ Early => Quiet(q, b, a)
                           /\ at = "set" => InLine(q, b, a) /\ ~Waits(b)
                           /\ at = "ack" => Zeroed(m) \/ (Waits(b) /\ InLine(q, b, a))
                           /\ After => Zeroed(m) \/ (Waits(b) /\ Clear(q, b, a))
      BY DEF ZeroPhase, q, b, a
    <3>. QED
      BY <3>1, <3>2, <3>3
  <2>. QED
    BY <2>5, <2>6
<1>. QED
  BY <1>4, <1>5, <1>6

LEMMA ZeroStep ==
  ASSUME Settled, OrderInv, ZeroTarget, ZeroInv, [Next]_vars
  PROVE  ZeroInv'
<1>. SUFFICES ASSUME cmd'.name = "set-zero", UniqueIds', at' # "done", NEW m \in MotorsAt(ch, cmd.a)'
              PROVE  ZeroPhase(m)'
  BY DEF ZeroInv
<1>0. BusType /\ Course /\ NoChange /\ UNCHANGED <<cmd, id>> /\ cmd.name = "set-zero" /\ UniqueIds
  <2>1. BusType /\ Course /\ Course' /\ UNCHANGED cmd /\ cmd.name = "set-zero"
    BY CommandStays, SettledStep DEF Settled
  <2>2. step # "verify" /\ step' # "verify"
    BY <2>1 DEF Course, Flow, PlaceOK, StepsOf
  <2>. QED
    BY <2>1, <2>2, SettledStep DEF Settled, SettledInv, UniqueIds
<1>1. Zeroed(m) => Zeroed(m)'
  BY <1>0, ZeroedStays DEF MotorsAt
<1>2. ASSUME at # "done", ch' = ch PROVE m \in MotorsAt(ch, cmd.a) /\ ZeroPhase(m)
  BY <1>0, <1>2 DEF MotorsAt, ZeroInv
<1>3. CASE ToolStep \/ Expire \/ Confirm
  <2>1. at # "done" /\ ch' = ch
    BY <1>0, <1>3, DoneIsLast, ZeroMoves
  <2>. QED
    BY <1>0, <1>1, <1>2, <1>3, <2>1, ZeroToolStep
<1>4. UNCHANGED toolVars => at # "done" /\ ch' = ch
  BY DEF toolVars, placeVars
<1>5. {ch} \ Closed \subseteq Channels
  BY <1>0 DEF Course, Closed
<1>6. CASE BusStep({ch} \ Closed) /\ UNCHANGED <<cmd, toolVars>>
  BY <1>0, <1>1, <1>2, <1>4, <1>5, <1>6, ZeroBusStep DEF BusStep
<1>7. CASE UNCHANGED vars
  <2>1. UNCHANGED <<toolVars, cmd, rx, inbox, pos, missed, at, step, ch>>
    BY <1>7 DEF vars, busVars, motorVars, toolVars, placeVars
  <2>. QED
    BY <1>2, <1>4, <2>1 DEF ZeroPhase, Early, After, Zeroed
<1>. QED
  BY <1>3, <1>6, <1>7 DEF Next

\* A set-zero that ends well was answered, near zero, after the change.
LEMMA VerifiedByAnswer ==
  ASSUME Course, ToolStep \/ Expire \/ Confirm, result' = "verified", result # "verified"
  PROVE  /\ cmd.name = "set-zero" /\ After /\ UNCHANGED <<ch, target>>
         /\ rx[ch] # <<>> /\ Tells(Head(rx[ch]), target) /\ Head(rx[ch]).pos # "far"
<1>1. \A dev : ~Returned(dev)
  BY DEF Returned, Scanned, NextChannel, Got, OldChecked, NewChecked, Verified, Identified, Finish
<1>2. ~Shown /\ \A p : ReadBack(p) => /\ p # None /\ p # "far" /\ step = "after"
                                      /\ UNCHANGED <<ch, target>>
  BY DEF Shown, ReadBack, Finish
<1>3. Receive /\ at = "value" /\ Expects(Head(rx[ch])) /\ ReadBack(Head(rx[ch]).pos)
  <2>1. ~Open /\ ~Query /\ ~SendStop /\ ~Set /\ ~Read /\ ~Confirm
    BY <1>1, <1>2 DEF Open, Query, SendStop, Set, AwaitAck, Read, Confirm, NextChannel, Finish
  <2>2. ~Expire
    BY <1>1, <1>2 DEF Expire, GiveUp, Finish
  <2>3. ASSUME Receive PROVE at = "value" /\ Expects(Head(rx[ch])) /\ ReadBack(Head(rx[ch]).pos)
    BY <1>1, <1>2, <2>3 DEF Receive, Accept, toolVars
  <2>. QED
    BY <2>1, <2>2, <2>3 DEF ToolStep
<1>4. cmd.name = "set-zero"
  BY <1>2, <1>3, CommandType DEF Course, Flow, PlaceOK, StepsOf
<1>. QED
  BY <1>2, <1>3, <1>4 DEF Receive, Expects, After, Tells

VerifiedInv ==
  result = "verified" =>
    /\ cmd.name = "set-zero"
    /\ UniqueIds => \A m \in MotorsAt(ch, target) : pos[m] \in {"zero", "near"} /\ Zeroed(m)

LEMMA VerifiedStep ==
  ASSUME Settled, ZeroTarget, ShownInv, ZeroInv, VerifiedInv, [Next]_vars
  PROVE  VerifiedInv'
<1>. SUFFICES ASSUME result' = "verified" PROVE VerifiedInv'
  BY DEF VerifiedInv
<1>0. BusType /\ Course /\ UNCHANGED cmd
  BY CommandStays DEF Settled
<1>1. ASSUME cmd.name = "set-zero" PROVE UNCHANGED id /\ RepliesTrue
  <2>1. step # "verify" /\ step' # "verify"
    BY <1>0, <1>1, SettledStep DEF Settled, Course, Flow, PlaceOK, StepsOf
  <2>. QED
    BY <2>1, SettledStep DEF Settled, SettledInv
<1>2. \A m \in Motors : pos'[m] \in {pos[m], "zero"} /\ (Zeroed(m) => Zeroed(m)')
  BY <1>0, ZeroedStays
<1>3. ASSUME cmd.name = "set-zero", UNCHANGED <<ch, target>>,
             UniqueIds => \A m \in MotorsAt(ch, target) : pos[m] \in {"zero", "near"} /\ Zeroed(m)
      PROVE  VerifiedInv'
  <2>1. UNCHANGED id
    BY <1>1, <1>3
  <2>2. (UniqueIds' <=> UniqueIds) /\ MotorsAt(ch, target)' = MotorsAt(ch, target)
    BY <1>3, <2>1 DEF UniqueIds, MotorsAt
  <2>. QED
    BY <1>0, <1>2, <1>3, <2>2 DEF VerifiedInv, MotorsAt
<1>4. CASE (ToolStep \/ Expire \/ Confirm) /\ result # "verified"
  <2>. DEFINE r == Head(rx[ch])
  <2>1. /\ cmd.name = "set-zero" /\ After /\ UNCHANGED <<ch, target>>
        /\ rx[ch] # <<>> /\ Tells(r, target) /\ r.pos # "far"
    BY <1>0, <1>4, VerifiedByAnswer
  <2>2. 1 \in DOMAIN rx[ch] /\ r = rx[ch][1] /\ r \in Replies \cup {Standard} /\ ch \in Channels
        /\ r.kind = "PARAM_READ" /\ r.from = target
    BY <1>0, <2>1 DEF BusType, Course, Tells
  <2>3. r \in Replies /\ r # Standard /\ r.pos \in {"zero", "near"}
    BY <2>1, <2>2 DEF Replies, Standard, Positions
  <2>4. r.uid \in MotorsAt(ch, target) /\ pos[r.uid] \in {"zero", "near"}
    BY <1>1, <2>1, <2>2, <2>3 DEF RepliesTrue, TrueReply, ShownInv
  <2>5. ASSUME UniqueIds, NEW m \in MotorsAt(ch, target) PROVE pos[m] \in {"zero", "near"} /\ Zeroed(m)
    <3>1. m = r.uid
      BY <2>4, <2>5 DEF UniqueIds, MotorsAt
    <3>2. target = cmd.a /\ at # "done"
      BY <2>1 DEF ZeroTarget, After
    <3>3. ZeroPhase(m)
      BY <2>1, <2>5, <3>2 DEF ZeroInv
    <3>4. ~Clear(rx[ch], inbox[m], cmd.a)
      BY <2>1, <2>2, <3>2 DEF Clear
    <3>. QED
      BY <2>1, <2>4, <3>1, <3>3, <3>4 DEF ZeroPhase
  <2>. QED
    BY <1>3, <2>1, <2>5
<1>5. CASE result = "verified"
  <2>1. at = "done" /\ cmd.name = "set-zero"
    BY <1>0, <1>5 DEF Course, Flow, None, VerifiedInv
  <2>2. UNCHANGED <<ch, target>>
    BY <2>1, DoneIsLast DEF Next, vars, toolVars, placeVars
  <2>. QED
    BY <1>3, <1>5, <2>1, <2>2 DEF VerifiedInv
<1>6. UNCHANGED vars \/ (BusStep({ch} \ Closed) /\ UNCHANGED <<cmd, toolVars>>) => result' = result
  BY DEF vars, toolVars
<1>. QED
  BY <1>4, <1>5, <1>6 DEF Next

(***************************************************************************)
(* "Mechanical zero set and verified" is true when ids are unique: the     *)
(* motor's zero was set, or it had been near zero and did not obey.  The   *)
(* position that is read back is never the one from before, however late   *)
(* that comes, nor is it read before the change, although the feedback of  *)
(* the STOP passes for the acknowledgement.                                *)
(***************************************************************************)
THEOREM ZerosAreVerified == Spec => []VerifiedIsZero
<1>. DEFINE Inv == Settled /\ OrderInv /\ ShownInv /\ ZeroTarget /\ ZeroInv /\ VerifiedInv
<1>1. Inv /\ [Next]_vars => Inv'
  BY SettledStep, CourseIsPlaced, OrderStep, ShownStep, ZeroTargetStep, ZeroStep, VerifiedStep
     DEF Settled
<1>2. Inv => VerifiedIsZero
  BY DEF VerifiedInv, VerifiedIsZero, Zeroed
<1>3. Init => Inv
  <2>. SUFFICES ASSUME Init PROVE OrderInv /\ ShownInv /\ ZeroTarget /\ ZeroInv /\ VerifiedInv
    BY InitAsked
  <2>1. /\ at = "open" /\ target = cmd.a /\ result = None
        /\ \A m \in Motors : inbox[m] = <<>>
        /\ \A c \in Channels : rx[c] = <<>>
    BY DEF Init, BusInit
  <2>2. ch \in Channels
    BY InitAsked DEF Settled, Course
  <2>3. ASSUME NEW m \in Motors PROVE ZeroPhase(m)
    BY <2>1, <2>2 DEF ZeroPhase, Quiet, After
  <2>. QED
    BY <2>1, <2>3 DEF OrderInv, ShownInv, ZeroTarget, ZeroInv, VerifiedInv, None, MotorsAt
<1>. HIDE DEF Inv
<1>. QED
  BY <1>1, <1>2, <1>3, PTL DEF Spec
-----------------------------------------------------------------------------
(***************************************************************************)
(* What a command that is given up has changed: nothing.  Once the change  *)
(* is sent the command comes to one of the endings that say so, and it is  *)
(* sent by no dry run and on the channel of the command line alone.        *)
(***************************************************************************)
Committed ==
  /\ at = "done" => result \notin Refusals
  /\ at # "done" => step \in {"verify", "after"} \/ at = "ack"

AimedInv ==
  /\ cmd.name # "scan" => ch = cmd.ch
  /\ step = "set-id" => target = cmd.a
  /\ step = "verify" => Committed

ToldInv ==
  \A m \in Motors : \A k \in DOMAIN inbox[m] :
    IsChange(inbox[m][k]) => ~cmd.dry /\ Chan[m] = cmd.ch /\ Committed

\* A command that goes on has not been given up.
LEMMA NoneRefused == None \notin Refusals
  BY DEF None, Refusals

LEMMA CommittedStays ==
  ASSUME Course, Committed, [Next]_vars
  PROVE  Committed'
<1>0. /\ at \in {"query", "reply"} => step \in StepsOf(cmd.name) \ {"before", "after"}
      /\ step \in {"verify", "after"} => step # cmd.name
      /\ at \in {"open", "stop", "set", "ack"} => step = cmd.name
      /\ at = "confirm" => step \notin {"verify", "after"}
      /\ at \in {"read", "value"} => step # "verify"
      /\ at = "ack" => cmd.name = "set-zero"
      /\ at # "done" => result = None
  BY CommandType DEF Course, Flow, PlaceOK, StepsOf
<1>1. at \notin {"open", "stop", "set", "confirm"}
  BY <1>0 DEF Committed
<1>2. ASSUME NEW dev, Returned(dev), at \in {"query", "reply"} PROVE Committed'
  <2>1. step = "verify"
    BY <1>0, <1>2 DEF Committed
  <2>. QED
    BY <1>2, <2>1 DEF Returned, Scanned, Got, OldChecked, NewChecked, Verified, Identified, Finish,
                      Committed, Refusals
<1>3. ASSUME NEW p, Shown \/ ReadBack(p), at \in {"read", "value"} PROVE Committed'
  <2>1. step = "after"
    BY <1>0, <1>3 DEF Committed
  <2>. QED
    BY <1>3, <2>1 DEF Shown, ReadBack, Go, Finish, Committed, Refusals
<1>4. CASE UNCHANGED toolVars
  BY <1>4 DEF toolVars, placeVars, Committed
<1>5. ASSUME NEW a, NEW t, Go(a, step, target, t), a # "done", a = "ack" \/ at # "ack",
             at # "done"
      PROVE  Committed'
  BY <1>5 DEF Go, Committed
<1>6. CASE Query
  <2>1. at = "query" /\ step = "verify"
    BY <1>0, <1>6 DEF Query, Committed
  <2>2. CASE Refused("GET_ID") /\ Returned(None)
    BY <1>2, <2>1, <2>2
  <2>3. CASE cmd.dry /\ (Finish("ok") \/ (step = "scan" /\ NextChannel(found)))
    BY <2>1, <2>3 DEF Finish, Committed, Refusals
  <2>4. CASE Go("reply", step, target, try)
    BY <1>5, <2>1, <2>4
  <2>. QED
    BY <1>6, <2>1, <2>2, <2>3, <2>4 DEF Query
<1>7. CASE at = "ack" /\ (Go("read", "after", target, 1) \/ Finish("unacknowledged"))
  BY <1>7 DEF Go, Finish, Committed, Refusals
<1>8. CASE Receive
  BY <1>2, <1>3, <1>4, <1>7, <1>8 DEF Receive, Accept
<1>9. CASE Expire
  BY <1>2, <1>3, <1>5, <1>7, <1>9 DEF Expire, GiveUp
<1>10. CASE Read
  <2>1. at = "read"
    BY <1>10 DEF Read
  <2>. QED
    BY <1>3, <1>5, <1>10, <2>1 DEF Read
<1>11. ~Open /\ ~Confirm /\ ~SendStop /\ ~Set
  BY <1>1 DEF Open, Confirm, SendStop, Set
<1>. QED
  BY <1>4, <1>6, <1>8, <1>9, <1>10, <1>11 DEF Next, ToolStep, vars

\* With the change the tool is past every refusal.
LEMMA SetCommits ==
  ASSUME Course, Set
  PROVE  UNCHANGED inbox \/ Committed'
<1>0. /\ cmd.dry \in BOOLEAN /\ step = cmd.name
      /\ at = "set" /\ \A kind : Refused(kind) => UNCHANGED inbox
  BY CommandType DEF Course, Flow, PlaceOK, Set, Refused
<1>1. \A f : Send(f) /\ cmd.dry => UNCHANGED inbox
  BY DEF Send
<1>. QED
  BY <1>0, <1>1 DEF Set, AwaitAck, Go, Committed

\* Only the change leads to the check behind it.
LEMMA ToVerify ==
  ASSUME Course, [Next]_vars, step # "verify", step' = "verify"
  PROVE  Committed'
<1>0. cmd.name # "verify"
  BY CommandType DEF Course
<1>1. ASSUME NEW dev PROVE ~Returned(dev)
  BY DEF Returned, Scanned, NextChannel, Got, OldChecked, NewChecked, Verified, Identified,
         Go, Finish
<1>2. ~Shown /\ \A p : ~ReadBack(p)
  BY DEF Shown, ReadBack, Go, Finish
<1>3. ~Open
  BY DEF Open, NextChannel, Go, Finish
<1>4. ~Query
  BY <1>1 DEF Query, NextChannel, Go, Finish
<1>5. ~Receive
  BY <1>1, <1>2 DEF Receive, Accept, Go, toolVars, placeVars
<1>6. ~Expire
  BY <1>1, <1>2 DEF Expire, GiveUp, Go, Finish
<1>7. ~Read /\ ~SendStop
  BY <1>2 DEF Read, SendStop, Go, Finish
<1>8. ~Confirm
  BY <1>0 DEF Confirm, Go, Finish
<1>9. Set
  BY <1>3, <1>4, <1>5, <1>6, <1>7, <1>8 DEF Next, ToolStep, vars, toolVars, placeVars
<1>. QED
  BY <1>9 DEF Set, AwaitAck, Go, Finish, Committed

LEMMA AimedStep == Course /\ AimedInv /\ [Next]_vars => AimedInv'
<1>. SUFFICES ASSUME Course, AimedInv, [Next]_vars PROVE AimedInv'
  OBVIOUS
<1>0. /\ UNCHANGED cmd /\ step \in StepsOf(cmd.name)
      /\ cmd.name \in {"scan", "get", "set-id", "set-zero"}
  BY CommandStays, CommandType DEF Course, Flow, PlaceOK
<1>1. step' = "verify" => Committed'
  BY CommittedStays, ToVerify DEF AimedInv
<1>. DEFINE Aims == /\ cmd.name # "scan" => ch' = ch
                    /\ step' = "set-id" => (step = "set-id" /\ target' = target) \/ target' = cmd.a
<1>2. ASSUME NEW dev, Returned(dev) PROVE Aims
  BY <1>0, <1>2 DEF Returned, Scanned, Got, OldChecked, NewChecked, Verified, Identified, NextChannel,
                    Go, Finish, StepsOf
<1>3. ASSUME NEW p, Shown \/ ReadBack(p) PROVE Aims
  BY <1>3 DEF Shown, ReadBack, Go, Finish
<1>4. ASSUME step = "scan" /\ NextChannel(found) PROVE Aims
  BY <1>0, <1>4 DEF NextChannel, Go, Finish, StepsOf
<1>5. ASSUME Open PROVE Aims
  BY <1>4, <1>5 DEF Open, Finish
<1>6. ASSUME Query PROVE Aims
  BY <1>2, <1>4, <1>6 DEF Query, Go, Finish
<1>7. ASSUME Receive PROVE Aims
  BY <1>2, <1>3, <1>7 DEF Receive, Accept, Go, toolVars, placeVars
<1>8. ASSUME Expire PROVE Aims
  BY <1>2, <1>3, <1>8 DEF Expire, GiveUp, Go, Finish
<1>9. ASSUME Confirm \/ SendStop \/ Set \/ Read PROVE Aims
  BY <1>3, <1>9 DEF Confirm, SendStop, Set, AwaitAck, Read, Go, Finish
<1>10. ASSUME UNCHANGED toolVars PROVE Aims
  BY <1>10 DEF toolVars, placeVars
<1>11. Aims
  BY <1>5, <1>6, <1>7, <1>8, <1>9, <1>10 DEF Next, ToolStep, vars
<1>. QED
  BY <1>0, <1>1, <1>11 DEF AimedInv

LEMMA ToldStep == BusType /\ Course /\ AimedInv /\ ToldInv /\ [Next]_vars => ToldInv'
<1>. SUFFICES ASSUME BusType, Course, AimedInv, ToldInv, [Next]_vars,
                     NEW m \in Motors, NEW k \in DOMAIN inbox'[m], IsChange(inbox'[m][k])
              PROVE  ~cmd.dry /\ Chan[m] = cmd.ch /\ Committed'
  BY CommandStays DEF ToldInv, IsChange
<1>0. PlaceType /\ UNCHANGED cmd
  BY CourseIsPlaced, CommandStays
<1>1. ASSUME NEW j \in DOMAIN inbox[m], inbox'[m][k] = inbox[m][j]
      PROVE  ~cmd.dry /\ Chan[m] = cmd.ch /\ Committed'
  BY <1>1, CommittedStays DEF ToldInv
<1>2. CASE ToolStep \/ Expire \/ Confirm
  <2>0. DOMAIN inbox[m] = 1 .. Len(inbox[m]) /\ Len(inbox[m]) \in Nat
    BY DEF BusType
  <2>1. ToolWrites
    BY <1>0, <1>2, ToolOnBusStep DEF ToolOnBus
  <2>2. CASE inbox'[m] = inbox[m]
    BY <1>1, <2>2
  <2>3. ASSUME NEW f \in Frames, Posted(f), ~cmd.dry, Write(ch, f), inbox'[m] # inbox[m],
               DOMAIN inbox'[m] = 1 .. Len(inbox[m]) + 1, inbox'[m][Len(inbox[m]) + 1] = f,
               \A j \in 1 .. Len(inbox[m]) : inbox'[m][j] = inbox[m][j]
        PROVE  ~cmd.dry /\ Chan[m] = cmd.ch /\ Committed'
    <3>1. CASE k \in 1 .. Len(inbox[m])
      BY <1>1, <2>0, <2>3, <3>1
    <3>2. CASE k = Len(inbox[m]) + 1
      <4>1. Posted(f) /\ IsChange(f)
        BY <2>3, <3>2
      <4>2. at = "set"
        BY <4>1 DEF Posted, IsChange
      <4>3. Set
        BY <1>2, <4>2 DEF ToolStep, Open, Query, Receive, SendStop, Read, Expire, Confirm, GiveUp
      <4>4. Committed'
        BY <2>3, <4>3, SetCommits
      <4>5. ch \in Channels /\ ch = cmd.ch
        BY <4>1, <1>0 DEF PlaceType, AimedInv, Posted, IsChange
      <4>6. Chan[m] = ch
        BY <2>3, <4>5, WriteArrives
      <4>. QED
        BY <2>3, <4>4, <4>5, <4>6
    <3>. QED
      BY <2>0, <2>3, <3>1, <3>2
  <2>. QED
    BY <1>0, <2>1, <2>2, <2>3, WriteAppends
<1>3. ASSUME NEW x \in Motors, Obey(x) PROVE ~cmd.dry /\ Chan[m] = cmd.ch /\ Committed'
  <2>1. CASE m = x
    <3>1. k + 1 \in DOMAIN inbox[m] /\ inbox'[m][k] = inbox[m][k + 1]
      BY <1>3, <2>1, TailShifts
    <3>. QED
      BY <1>1, <3>1
  <2>2. CASE m # x
    BY <1>1, <1>3, <2>2, ObeyStep
  <2>. QED
    BY <2>1, <2>2
<1>4. CASE UNCHANGED inbox
  BY <1>1, <1>4
<1>5. \A c : OtherTraffic(c) => UNCHANGED inbox
  BY DEF OtherTraffic
<1>. QED
  BY <1>2, <1>3, <1>4, <1>5 DEF Next, BusStep, vars, busVars

LEMMA InitTold == Init => BusType /\ Course /\ OrderInv /\ AimedInv /\ ToldInv
<1>. SUFFICES ASSUME Init PROVE OrderInv /\ AimedInv /\ ToldInv
  BY InitCourse
<1>1. cmd.name # "verify"
  BY CommandType DEF Init
<1>2. \A m \in Motors : inbox[m] = <<>>
  BY DEF Init, BusInit
<1>. QED
  BY <1>1, <1>2 DEF Init, OrderInv, AimedInv, ToldInv

(***************************************************************************)
(* The motors change as they were told: an id or a zero changes only to    *)
(* what the command line of a run that is not dry says, on its channel,    *)
(* and not in a run that ends with "no change made", "Cancelled." or a     *)
(* frame that could not be sent, however late the frames are obeyed.       *)
(***************************************************************************)
THEOREM MotorsChangeAsTold == Spec => ChangesAsTold
<1>. DEFINE Inv == BusType /\ Course /\ OrderInv /\ AimedInv /\ ToldInv
            Told1 == \A m \in Motors :
                       id'[m] # id[m] \/ pos'[m] # pos[m] =>
                         /\ ~cmd.dry /\ result \notin Refusals
                         /\ Chan[m] = cmd.ch /\ id[m] = cmd.a
                         /\ \/ cmd.name = "set-id" /\ id'[m] = cmd.b /\ pos'[m] = pos[m]
                            \/ cmd.name = "set-zero" /\ id'[m] = id[m]
<1>1. Inv /\ [Next]_vars => Inv'
  BY BusTypeStep, CourseStep, CourseIsPlaced, OrderStep, AimedStep, ToldStep
<1>2. Inv /\ [Next]_vars => [Told1]_vars
  <2>. SUFFICES ASSUME Inv, [Next]_vars, NEW m \in Motors, id'[m] # id[m] \/ pos'[m] # pos[m]
                PROVE  /\ ~cmd.dry /\ result \notin Refusals
                       /\ Chan[m] = cmd.ch /\ id[m] = cmd.a
                       /\ \/ cmd.name = "set-id" /\ id'[m] = cmd.b /\ pos'[m] = pos[m]
                          \/ cmd.name = "set-zero" /\ id'[m] = id[m]
    OBVIOUS
  <2>1. PICK x \in Motors : Obey(x)
    <3>1. ToolStep \/ Expire \/ Confirm => UNCHANGED motorVars
      BY CourseIsPlaced, ToolOnBusStep DEF ToolOnBus
    <3>2. UNCHANGED vars => UNCHANGED motorVars
      BY DEF vars, busVars
    <3>3. \A c : OtherTraffic(c) => UNCHANGED motorVars
      BY DEF OtherTraffic
    <3>. QED
      BY <3>1, <3>2, <3>3 DEF Next, BusStep, motorVars
  <2>. DEFINE f == Head(inbox[x])
  <2>2. /\ f = inbox[x][1] /\ 1 \in DOMAIN inbox[x]
        /\ (Execute(x, f) /\ f.to = id[x]) \/ UNCHANGED motorVars
    BY <2>1, ObeyStep
  <2>3. Ordered(f) /\ (IsChange(f) => ~cmd.dry /\ Chan[x] = cmd.ch /\ Committed)
    BY <2>2 DEF OrderInv, ToldInv
  <2>. HIDE DEF f
  <2>4. /\ x = m /\ IsChange(f) /\ f.to = id[m]
        /\ id'[m] = IF f.kind = "SET_CAN_ID" THEN f.arg ELSE id[m]
        /\ pos'[m] = IF f.kind = "SET_ZERO" THEN "zero" ELSE pos[m]
    BY <2>2 DEF Execute, motorVars, BusType, IsChange
  <2>5. result \notin Refusals
    BY <2>3, <2>4, NoneRefused DEF Committed, Course, Flow
  <2>. QED
    BY <2>3, <2>4, <2>5 DEF Ordered, IsChange
<1>. HIDE DEF Inv, Told1
<1>3. Init => Inv
  BY InitTold DEF Inv
<1>4. Init /\ [][Next]_vars => [][Told1]_vars
  BY <1>1, <1>2, <1>3, PTL
<1>. QED
  BY <1>4, PTL DEF Spec, ChangesAsTold, Told1

\* The motor that set-id identified, until the change is sent.
KeptInv == cmd.name = "set-id" /\ seen # None /\ step # "verify" => id[seen] = cmd.a

LEMMA KeptStep == Settled /\ AimedInv /\ KeptInv /\ [Next]_vars => KeptInv'
<1>. SUFFICES ASSUME Settled, AimedInv, KeptInv, [Next]_vars,
                     cmd'.name = "set-id", seen' # None, step' # "verify"
              PROVE  id'[seen'] = cmd.a
  BY CommandStays DEF KeptInv
<1>0. /\ step # "verify" /\ UNCHANGED <<id, cmd>>
      /\ BusType /\ Course /\ RepliesTrue
  BY SettledStep, CommandStays DEF Settled, SettledInv
<1>1. CASE UNCHANGED seen
  BY <1>0, <1>1 DEF KeptInv
<1>2. ASSUME NEW dev, dev # None => id[dev] = target, Returned(dev) PROVE id'[seen'] = cmd.a
  <2>1. UNCHANGED seen \/ (step = "set-id" /\ seen' = dev)
    BY <1>2 DEF Returned, Scanned, Got, OldChecked, NewChecked, Verified, Identified
  <2>. QED
    BY <1>0, <1>1, <1>2, <2>1 DEF AimedInv
<1>3. \A p : Shown \/ ReadBack(p) => UNCHANGED seen
  BY DEF Shown, ReadBack
<1>4. CASE Query \/ Expire
  BY <1>1, <1>2, <1>3, <1>4 DEF Query, Expire, GiveUp
<1>5. CASE Receive
  <2>. DEFINE f == Head(rx[ch])
  <2>1. CASE at = "reply" /\ Expects(f) /\ Returned(f.uid)
    <3>1. f = rx[ch][1] /\ 1 \in DOMAIN rx[ch] /\ ch \in Channels
      BY <1>0, <1>5 DEF Receive, BusType, Course
    <3>2. f.kind = "GET_ID" /\ f.from = target
      BY <2>1 DEF Expects
    <3>3. id[f.uid] = target
      BY <1>0, <3>1, <3>2 DEF RepliesTrue, TrueReply, MotorsAt, Standard
    <3>. HIDE DEF f
    <3>. QED
      BY <1>2, <2>1, <3>3
  <2>2. CASE UNCHANGED seen
    BY <1>1, <2>2
  <2>. QED
    BY <1>3, <1>5, <2>1, <2>2 DEF Receive, Accept, toolVars
<1>6. CASE Open \/ Confirm \/ SendStop \/ Set \/ Read
  BY <1>1, <1>3, <1>6 DEF Open, Confirm, SendStop, Set, Read
<1>7. CASE UNCHANGED toolVars
  BY <1>1, <1>7 DEF toolVars
<1>. QED
  BY <1>4, <1>5, <1>6, <1>7 DEF Next, ToolStep, vars

(***************************************************************************)
(* "is already in use; no change made" and the other refusals of set-id    *)
(* are true: the motor that was identified has its old id.                 *)
(***************************************************************************)
THEOREM RefusalsChangeNothing == Spec => []NoChangeMade
<1>. DEFINE Inv == Settled /\ AimedInv /\ KeptInv
<1>1. Init => Inv
  BY InitAsked, InitTold DEF Init, KeptInv
<1>2. Inv /\ [Next]_vars => Inv'
  BY SettledStep, AimedStep, KeptStep DEF Settled
<1>3. Inv => NoChangeMade
  BY NoneRefused DEF Settled, Course, Flow, AimedInv, KeptInv, Committed, NoChangeMade
<1>. HIDE DEF Inv
<1>. QED
  BY <1>1, <1>2, <1>3, PTL DEF Spec
=============================================================================
