------------------------------ MODULE MotorBus ------------------------------
(***************************************************************************)
(* The CAN channels and motors as the maintenance tools motor_config and   *)
(* test_connection meet them.  A frame is broadcast: each motor of the     *)
(* channel takes it when it comes to it, at its own pace, and obeys it if  *)
(* it is addressed to the id the motor has at that moment.  Everything     *)
(* here but Write is outside src/.                                         *)
(***************************************************************************)
EXTENDS Integers, Sequences

CONSTANTS
  Motors,       \* all the motors
  NumChannels,  \* NUM_CHANNELS
  Chan,         \* per motor, its channel
  Ids,          \* the CAN ids there are
  Fixed,        \* motors whose firmware answers GET_ID to 0xFE, not the host
  MaxOther,     \* bound: frames of other traffic that wait to be read
  MaxFaults     \* bound: faults of bus, motors and system in one behaviour

Channels == 0 .. NumChannels - 1

ASSUME BusAssumption ==
  /\ NumChannels \in Nat \ {0}
  /\ Chan \in [Motors -> Channels]
  /\ Ids \subseteq Nat /\ \A i, j \in Ids : i .. j \subseteq Ids
  /\ Fixed \subseteq Motors
  /\ {MaxOther, MaxFaults} \subseteq Nat

VARIABLES
  id,           \* per motor, its CAN id
  run,          \* per motor, whether it is enabled
  pos,          \* per motor, its mechPos: "zero", within 0.1 rad, or beyond
  inbox,        \* per motor, the frames it has not come to yet
  rx,           \* per channel, the driver's receive queue
  faults,       \* faults so far
  missed        \* history: <<motor, kind>> of the frames it did not obey, and
                \* <<Host, kind>> of those the driver refused

motorVars == <<id, run, pos>>
busVars   == <<motorVars, inbox, rx, faults, missed>>

Kinds == {"GET_ID", "STOP", "SET_ZERO", "SET_CAN_ID", "PARAM_READ"}

Positions == {"zero", "near", "far"}

Frames == [kind : Kinds, to : Ids, arg : Ids]

Frame(kind, to) == [kind |-> kind, to |-> to, arg |-> to]

Host == "host"

\* A frame that is not extended: a status of the driver, or another protocol.
Standard == [kind |-> "STANDARD"]

\* "REPORT": motors also send frames nobody asked for (type 24).
Replies == [kind : {"GET_ID", "FEEDBACK", "PARAM_READ", "REPORT"}, from : Ids,
            dest : {"host", "0xFE"}, uid : Motors, pos : Positions]

MotorsAt(c, i) == {m \in Motors : Chan[m] = c /\ id[m] = i}

UniqueIds ==
  \A m, n \in Motors : Chan[m] = Chan[n] /\ id[m] = id[n] => m = n

Fault == faults < MaxFaults /\ faults' = faults + 1

\* Any ids and positions; whatever used the motors before left them enabled.
BusInit ==
  /\ id \in [Motors -> Ids]
  /\ run = [m \in Motors |-> TRUE]
  /\ pos \in [Motors -> Positions \ {"zero"}]
  /\ inbox = [m \in Motors |-> <<>>]
  /\ rx = [c \in Channels |-> <<>>]
  /\ faults = 0
  /\ missed = {}

\* write_extended() succeeds; whether anybody listens is another matter.
Write(c, f) ==
  inbox' = [m \in Motors |-> IF Chan[m] = c THEN Append(inbox[m], f) ELSE inbox[m]]

\* CAN_Initialize() or CAN_Write() fails.
HostFails(kind) == Fault /\ missed' = missed \cup {<<Host, kind>>}

HostFailed == \E k \in Kinds \cup {"OPEN"} : <<Host, k>> \in missed

-----------------------------------------------------------------------------
Answer(m, f) ==
  [kind |-> IF f.kind \in {"STOP", "SET_ZERO"} THEN "FEEDBACK" ELSE f.kind,
   from |-> id[m],
   dest |-> IF f.kind = "GET_ID" /\ m \in Fixed THEN "0xFE" ELSE "host",
   uid  |-> m,
   pos  |-> pos[m]]

Execute(m, f) ==
  /\ id'  = IF f.kind = "SET_CAN_ID" THEN [id EXCEPT ![m] = f.arg] ELSE id
  /\ run' = IF f.kind = "STOP" THEN [run EXCEPT ![m] = FALSE] ELSE run
  /\ pos' = IF f.kind = "SET_ZERO" THEN [pos EXCEPT ![m] = "zero"] ELSE pos

(***************************************************************************)
(* Motor m takes its next frame.  A fault is a frame that is lost, one     *)
(* that is obeyed but whose answer is lost, and one that is answered but   *)
(* not obeyed (the manual blocks SET_ZERO in PP mode).                     *)
(***************************************************************************)
Obey(m) ==
  LET f == Head(inbox[m])
  IN /\ inbox[m] # <<>>
     /\ inbox' = [inbox EXCEPT ![m] = Tail(@)]
     /\ IF f.to = id[m]
        THEN \E done, answers \in BOOLEAN :
               /\ IF done /\ answers THEN UNCHANGED faults ELSE Fault
               /\ IF done THEN Execute(m, f) /\ UNCHANGED missed
                  ELSE UNCHANGED motorVars /\ missed' = missed \cup {<<m, f.kind>>}
               /\ rx' = IF answers /\ f.kind # "SET_CAN_ID"
                        THEN [rx EXCEPT ![Chan[m]] = Append(@, Answer(m, f))] ELSE rx
        ELSE UNCHANGED <<motorVars, rx, faults, missed>>

Report(m) == [kind |-> "REPORT", from |-> id[m], dest |-> "host", uid |-> m, pos |-> "zero"]

OtherTraffic(c) ==
  /\ Len(rx[c]) < MaxOther
  /\ \E f \in {Standard} \cup {Report(m) : m \in {n \in Motors : Chan[n] = c}} :
       rx' = [rx EXCEPT ![c] = Append(@, f)]
  /\ UNCHANGED <<motorVars, inbox, faults, missed>>

\* A channel that is not open has no receive queue for others to fill.
BusStep(opened) ==
  \/ \E m \in Motors : Obey(m)
  \/ \E c \in opened : OtherTraffic(c)

\* No answer of a motor on channel c is still to come.
Answered(c) ==
  /\ \A m \in Motors : Chan[m] = c => inbox[m] = <<>>
  /\ \A k \in DOMAIN rx[c] : rx[c][k].kind \in {"STANDARD", "REPORT"}

BusType ==
  /\ id \in [Motors -> Ids]
  /\ run \in [Motors -> BOOLEAN]
  /\ pos \in [Motors -> Positions]
  /\ inbox \in [Motors -> Seq(Frames)]
  /\ rx \in [Channels -> Seq(Replies \cup {Standard})]
  /\ faults \in 0 .. MaxFaults
  /\ missed \subseteq (Motors \cup {Host}) \X (Kinds \cup {"OPEN"})
=============================================================================
