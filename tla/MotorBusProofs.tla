--------------------------- MODULE MotorBusProofs ---------------------------
(***************************************************************************)
(* Lemmas about the frames of MotorBus, for both maintenance tools.        *)
(***************************************************************************)
EXTENDS MotorBus, TLAPS

\* The constants: ids without gaps, and the channel each motor is on.
LEMMA BusConstants ==
  /\ NumChannels \in Nat \ {0} /\ Channels \subseteq Int /\ 0 \in Channels
  /\ Chan \in [Motors -> Channels]
  /\ Ids \subseteq Nat /\ \A i, j \in Ids : i .. j \subseteq Ids
  /\ Fixed \subseteq Motors /\ MaxFaults \in Nat
  BY BusAssumption DEF Channels

\* The frames the tool writes.
LEMMA FrameType ==
  ASSUME NEW kind \in Kinds, NEW i \in Ids, NEW j \in Ids
  PROVE  /\ [kind |-> kind, to |-> i, arg |-> j] \in Frames
         /\ Frame(kind, i) \in Frames
         /\ Frame(kind, i).kind = kind
         /\ Frame(kind, i).to = i
  BY DEF Frames, Frame

LEMMA WriteType ==
  ASSUME BusType, NEW c \in Channels, NEW f \in Frames, Write(c, f)
  PROVE  inbox' \in [Motors -> Seq(Frames)]
<1>1. \A m \in Motors : inbox[m] \in Seq(Frames) /\ Append(inbox[m], f) \in Seq(Frames)
  BY DEF BusType
<1>. QED
  BY <1>1 DEF Write

LEMMA FaultType == BusType /\ (UNCHANGED faults \/ Fault) => faults' \in 0 .. MaxFaults
  BY BusAssumption DEF BusType, Fault

\* The inbox after a frame was taken from it.
LEMMA TailShifts ==
  ASSUME BusType, NEW m \in Motors, Obey(m)
  PROVE  /\ Len(inbox[m]) \in Nat \ {0}
         /\ Len(inbox'[m]) = Len(inbox[m]) - 1
         /\ DOMAIN inbox[m] = 1 .. Len(inbox[m])
         /\ DOMAIN inbox'[m] = 1 .. Len(inbox[m]) - 1
         /\ \A k \in 1 .. Len(inbox[m]) - 1 : inbox'[m][k] = inbox[m][k + 1]
<1>1. inbox[m] \in Seq(Frames) /\ inbox[m] # <<>> /\ inbox'[m] = Tail(inbox[m])
  BY DEF Obey, BusType
<1>. QED
  BY <1>1

\* A motor's answer to a frame that asks for one.
LEMMA AnswerType ==
  ASSUME BusType, NEW m \in Motors, NEW f \in Frames, f.kind # "SET_CAN_ID"
  PROVE  /\ Answer(m, f) \in Replies
         /\ Answer(m, f).from = id[m]
         /\ Answer(m, f).uid = m
         /\ Answer(m, f).kind = "GET_ID" => f.kind = "GET_ID"
<1>1. /\ f.kind \in {"GET_ID", "STOP", "SET_ZERO", "PARAM_READ"}
      /\ id[m] \in Ids /\ pos[m] \in Positions
  BY DEF Frames, Kinds, BusType
<1>. QED
  BY <1>1 DEF Answer, Replies

(***************************************************************************)
(* The head of a motor's inbox over Obey: what is executed, and answered.  *)
(***************************************************************************)
LEMMA ObeyStep ==
  ASSUME BusType, NEW m \in Motors, Obey(m)
  PROVE  LET f == Head(inbox[m])
         IN /\ f \in Frames /\ f = inbox[m][1] /\ 1 \in DOMAIN inbox[m]
            /\ inbox' \in [Motors -> Seq(Frames)]
            /\ inbox'[m] = Tail(inbox[m])
            /\ \A n \in Motors : n # m => inbox'[n] = inbox[n]
            /\ \/ Execute(m, f) /\ f.to = id[m] /\ UNCHANGED missed
               \/ /\ UNCHANGED motorVars
                  /\ IF f.to = id[m] THEN missed' = missed \cup {<<m, f.kind>>}
                                     ELSE UNCHANGED missed
            /\ \/ UNCHANGED rx
               \/ /\ f.kind # "SET_CAN_ID"
                  /\ rx' = [rx EXCEPT ![Chan[m]] = Append(@, Answer(m, f))]
            /\ UNCHANGED faults \/ Fault
<1>1. /\ inbox[m] \in Seq(Frames) /\ inbox[m] # <<>>
      /\ inbox' = [inbox EXCEPT ![m] = Tail(@)] /\ inbox \in [Motors -> Seq(Frames)]
  BY DEF Obey, BusType
<1>2. Tail(inbox[m]) \in Seq(Frames) /\ Head(inbox[m]) = inbox[m][1] /\ 1 \in DOMAIN inbox[m]
      /\ Head(inbox[m]) \in Frames
  BY <1>1
<1>. DEFINE f == Head(inbox[m])
<1>3. \/ Execute(m, f) /\ f.to = id[m] /\ UNCHANGED missed
      \/ /\ UNCHANGED motorVars
         /\ IF f.to = id[m] THEN missed' = missed \cup {<<m, f.kind>>} ELSE UNCHANGED missed
  BY DEF Obey
<1>4. \/ UNCHANGED rx
      \/ /\ f.kind # "SET_CAN_ID"
         /\ rx' = [rx EXCEPT ![Chan[m]] = Append(@, Answer(m, f))]
  BY DEF Obey
<1>5. UNCHANGED faults \/ Fault
  BY DEF Obey
<1>. QED
  BY <1>1, <1>2, <1>3, <1>4, <1>5

LEMMA ObeyBusType ==
  ASSUME BusType, NEW m \in Motors, Obey(m)
  PROVE  BusType'
<1>. DEFINE f == Head(inbox[m])
<1>0. f \in Frames /\ f.kind \in Kinds /\ f.arg \in Ids /\ inbox' \in [Motors -> Seq(Frames)]
  BY ObeyStep DEF Frames
<1>1. id' \in [Motors -> Ids]
  <2>1. id' = id \/ id' = [id EXCEPT ![m] = f.arg]
    BY ObeyStep DEF Execute, motorVars
  <2>. HIDE DEF f
  <2>. QED
    BY <1>0, <2>1 DEF BusType
<1>2. run' \in [Motors -> BOOLEAN]
  BY ObeyStep DEF Execute, motorVars, BusType
<1>3. pos' \in [Motors -> Positions]
  BY ObeyStep DEF Execute, motorVars, BusType, Positions
<1>4. rx' \in [Channels -> Seq(Replies \cup {Standard})]
  <2>1. CASE f.kind # "SET_CAN_ID" /\ rx' = [rx EXCEPT ![Chan[m]] = Append(@, Answer(m, f))]
    <3>1. Answer(m, f) \in Replies
      BY <1>0, <2>1, AnswerType
    <3>2. Chan[m] \in Channels
      BY BusConstants
    <3>. HIDE DEF f
    <3>3. rx[Chan[m]] \in Seq(Replies \cup {Standard})
      BY <3>2 DEF BusType
    <3>4. Append(rx[Chan[m]], Answer(m, f)) \in Seq(Replies \cup {Standard})
      BY <3>1, <3>3
    <3>. QED
      BY <2>1, <3>4 DEF BusType
  <2>2. CASE UNCHANGED rx
    BY <2>2 DEF BusType
  <2>. QED
    BY <2>1, <2>2, ObeyStep
<1>5. faults' \in 0 .. MaxFaults
  BY ObeyStep, FaultType
<1>6. missed' \subseteq (Motors \cup {Host}) \X (Kinds \cup {"OPEN"})
  <2>1. missed' = missed \/ missed' = missed \cup {<<m, f.kind>>}
    BY ObeyStep
  <2>. HIDE DEF f
  <2>. QED
    BY <1>0, <2>1 DEF BusType
<1>. QED
  BY <1>0, <1>1, <1>2, <1>3, <1>4, <1>5, <1>6 DEF BusType

LEMMA TrafficBusType ==
  ASSUME BusType, NEW c \in Channels, OtherTraffic(c)
  PROVE  BusType'
<1>1. PICK f \in {Standard} \cup {Report(m) : m \in {n \in Motors : Chan[n] = c}} :
        rx' = [rx EXCEPT ![c] = Append(@, f)]
  BY DEF OtherTraffic
<1>2. f \in Replies \cup {Standard}
  BY DEF Report, Replies, BusType, Positions
<1>3. Append(rx[c], f) \in Seq(Replies \cup {Standard})
  BY <1>2 DEF BusType
<1>4. rx' \in [Channels -> Seq(Replies \cup {Standard})]
  BY <1>1, <1>3 DEF BusType
<1>. QED
  BY <1>4 DEF OtherTraffic, BusType, motorVars

\* The receive queues after a frame came in.
LEMMA ArrivalAppends ==
  ASSUME BusType, NEW d \in Channels, NEW r, rx' = [rx EXCEPT ![d] = Append(@, r)],
         NEW c \in Channels, NEW k \in DOMAIN rx'[c]
  PROVE  \/ k \in DOMAIN rx[c] /\ rx'[c][k] = rx[c][k]
         \/ rx'[c][k] = r
<1>1. rx[c] \in Seq(Replies \cup {Standard}) /\ DOMAIN rx[c] = 1 .. Len(rx[c])
      /\ Len(rx[c]) \in Nat
  BY DEF BusType
<1>2. rx'[c] = IF c = d THEN Append(rx[c], r) ELSE rx[c]
  BY DEF BusType
<1>3. CASE c = d
  <2>1. k \in 1 .. Len(rx[c]) + 1
    BY <1>1, <1>2, <1>3
  <2>. QED
    BY <1>1, <1>2, <1>3, <2>1
<1>. QED
  BY <1>2, <1>3

\* The inbox of a motor after a write: a frame more, at the end, if it is on
\* the channel.
LEMMA WriteArrives ==
  ASSUME BusType, NEW c \in Channels, NEW f \in Frames, Write(c, f), NEW m \in Motors
  PROVE  /\ Len(inbox[m]) \in Nat /\ DOMAIN inbox[m] = 1 .. Len(inbox[m])
         /\ Chan[m] # c => inbox'[m] = inbox[m]
         /\ Chan[m] = c => /\ inbox'[m] = Append(inbox[m], f)
                           /\ DOMAIN inbox'[m] = 1 .. Len(inbox[m]) + 1
                           /\ inbox'[m][Len(inbox[m]) + 1] = f
                           /\ \A j \in 1 .. Len(inbox[m]) : inbox'[m][j] = inbox[m][j]
<1>1. inbox[m] \in Seq(Frames)
  BY DEF BusType
<1>2. inbox'[m] = IF Chan[m] = c THEN Append(inbox[m], f) ELSE inbox[m]
  BY DEF Write
<1>. QED
  BY <1>1, <1>2

\* The receive queues after the head of one was read.
LEMMA ReadTakesHead ==
  ASSUME BusType, NEW c \in Channels, rx[c] # <<>>, rx' = [rx EXCEPT ![c] = Tail(@)]
  PROVE  /\ rx[c] \in Seq(Replies \cup {Standard}) /\ 1 \in DOMAIN rx[c] /\ Head(rx[c]) = rx[c][1]
         /\ \A j \in DOMAIN rx[c] : j # 1 => j - 1 \in DOMAIN rx'[c] /\ rx'[c][j - 1] = rx[c][j]
         /\ \A d \in Channels : \A n \in DOMAIN rx'[d] :
              \E j \in DOMAIN rx[d] : rx'[d][n] = rx[d][j]
<1>1. /\ rx[c] \in Seq(Replies \cup {Standard})
      /\ DOMAIN Tail(rx[c]) = 1 .. Len(rx[c]) - 1 /\ DOMAIN rx[c] = 1 .. Len(rx[c])
      /\ Len(rx[c]) \in Nat \ {0} /\ Head(rx[c]) = rx[c][1]
      /\ \A n \in 1 .. Len(rx[c]) - 1 : Tail(rx[c])[n] = rx[c][n + 1]
  BY DEF BusType
<1>2. ASSUME NEW d \in Channels PROVE rx'[d] = IF d = c THEN Tail(rx[c]) ELSE rx[d]
  BY DEF BusType
<1>3. \A n \in DOMAIN Tail(rx[c]) : \E j \in DOMAIN rx[c] : Tail(rx[c])[n] = rx[c][j]
  <2>1. \A n \in 1 .. Len(rx[c]) - 1 : n + 1 \in 1 .. Len(rx[c])
    BY <1>1
  <2>. QED
    BY <1>1, <2>1
<1>4. ASSUME NEW j \in DOMAIN rx[c], j # 1
      PROVE  j - 1 \in DOMAIN rx'[c] /\ rx'[c][j - 1] = rx[c][j]
  <2>1. j - 1 \in 1 .. Len(rx[c]) - 1 /\ (j - 1) + 1 = j
    BY <1>1, <1>4
  <2>. QED
    BY <1>1, <1>2, <2>1
<1>5. 1 \in DOMAIN rx[c]
  BY <1>1
<1>. QED
  BY <1>1, <1>2, <1>3, <1>4, <1>5

\* The queued frames stay when one more comes in.
LEMMA ArrivalKeeps ==
  ASSUME BusType, NEW d \in Channels, NEW r, rx' = [rx EXCEPT ![d] = Append(@, r)]
  PROVE  /\ \A c \in Channels : \A n \in DOMAIN rx[c] :
              n \in DOMAIN rx'[c] /\ rx'[c][n] = rx[c][n]
         /\ \E n \in DOMAIN rx'[d] : rx'[d][n] = r
<1>1. ASSUME NEW c \in Channels
      PROVE  /\ rx[c] \in Seq(Replies \cup {Standard})
             /\ rx'[c] = IF c = d THEN Append(rx[c], r) ELSE rx[c]
  BY DEF BusType
<1>2. ASSUME NEW S, NEW q \in Seq(S)
      PROVE  /\ \A n \in DOMAIN q : n \in DOMAIN Append(q, r) /\ Append(q, r)[n] = q[n]
             /\ Len(q) + 1 \in DOMAIN Append(q, r) /\ Append(q, r)[Len(q) + 1] = r
  OBVIOUS
<1>3. ASSUME NEW c \in Channels, NEW n \in DOMAIN rx[c]
      PROVE  n \in DOMAIN rx'[c] /\ rx'[c][n] = rx[c][n]
  BY <1>1, <1>2, <1>3
<1>4. rx'[d] = Append(rx[d], r) /\ rx[d] \in Seq(Replies \cup {Standard})
  BY <1>1
<1>5. \E n \in DOMAIN rx'[d] : rx'[d][n] = r
  BY <1>2, <1>4
<1>. QED
  BY <1>3, <1>5

(***************************************************************************)
(* Who has sent what waits to be read: a reply is true of a motor that has *)
(* the id it comes from.                                                   *)
(***************************************************************************)
TrueReply(c, f) == f # Standard => f.uid \in MotorsAt(c, f.from)

RepliesTrue == \A c \in Channels : \A n \in DOMAIN rx[c] : TrueReply(c, rx[c][n])

LEMMA ReadsAreTrue ==
  ASSUME RepliesTrue, UNCHANGED id,
         \A c \in Channels : \A n \in DOMAIN rx'[c] : \E j \in DOMAIN rx[c] : rx'[c][n] = rx[c][j]
  PROVE  RepliesTrue'
  BY DEF RepliesTrue, TrueReply, MotorsAt

LEMMA ArrivalsAreTrue ==
  ASSUME BusType, RepliesTrue, UNCHANGED id,
         \/ \E m \in Motors : Obey(m)
         \/ \E d \in Channels : OtherTraffic(d)
  PROVE  RepliesTrue'
<1>1. ASSUME NEW c \in Channels, NEW f, TrueReply(c, f) PROVE TrueReply(c, f)'
  BY <1>1 DEF TrueReply, MotorsAt
<1>2. ASSUME NEW d \in Channels, NEW r, TrueReply(d, r), rx' = [rx EXCEPT ![d] = Append(@, r)]
      PROVE  RepliesTrue'
  <2>1. ASSUME NEW c \in Channels, NEW n \in DOMAIN rx'[c] PROVE TrueReply(c, rx'[c][n])
    <3>1. rx'[c] = rx[c] \/ c = d
      BY <1>2 DEF BusType
    <3>2. (n \in DOMAIN rx[c] /\ rx'[c][n] = rx[c][n]) \/ rx'[c][n] = r
      BY <1>2, <2>1, ArrivalAppends
    <3>. QED
      BY <1>2, <2>1, <3>1, <3>2 DEF RepliesTrue
  <2>. QED
    BY <1>1, <2>1 DEF RepliesTrue
<1>3. ASSUME NEW m \in Motors, Obey(m) PROVE RepliesTrue'
  <2>. DEFINE f == Head(inbox[m])
  <2>1. f \in Frames
        /\ (UNCHANGED rx \/ (f.kind # "SET_CAN_ID"
                             /\ rx' = [rx EXCEPT ![Chan[m]] = Append(@, Answer(m, f))]))
    BY <1>3, ObeyStep
  <2>. HIDE DEF f
  <2>2. f.kind # "SET_CAN_ID" => TrueReply(Chan[m], Answer(m, f))
    <3>1. f.kind # "SET_CAN_ID" => Answer(m, f).uid = m /\ Answer(m, f).from = id[m]
      BY <2>1, AnswerType
    <3>. QED
      BY <3>1 DEF TrueReply, MotorsAt
  <2>3. Chan[m] \in Channels
    BY BusConstants
  <2>. QED
    BY <1>1, <1>2, <2>1, <2>2, <2>3 DEF RepliesTrue
<1>4. ASSUME NEW d \in Channels, OtherTraffic(d) PROVE RepliesTrue'
  <2>1. PICK r \in {Standard} \cup {Report(m) : m \in {n \in Motors : Chan[n] = d}} :
          rx' = [rx EXCEPT ![d] = Append(@, r)]
    BY <1>4 DEF OtherTraffic
  <2>2. TrueReply(d, r)
    BY DEF TrueReply, MotorsAt, Report
  <2>. QED
    BY <1>2, <2>1, <2>2
<1>. QED
  BY <1>3, <1>4
=============================================================================
