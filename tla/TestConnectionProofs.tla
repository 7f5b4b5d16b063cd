------------------------ MODULE TestConnectionProofs ------------------------
(***************************************************************************)
(* Proofs about TestConnection, for any motors, MOTOR_MAP, channels,       *)
(* attempts, parameters and other traffic, and any number of faults.       *)
(***************************************************************************)
EXTENDS TestConnection, MotorBusProofs

LEMMA ProbeConstants ==
  /\ Len(Map) \in Nat \ {0}
  /\ \A j \in 1 .. Len(Map) : Map[j].ch \in Channels /\ Map[j].id \in Ids
  /\ ProbeRetries \in Nat \ {0} /\ NumParams \in Nat \ {0}
  /\ ScanMax \in Nat /\ 0 .. ScanMax \subseteq Ids
<1>. DEFINE S == [ch : Channels, id : Ids]
<1>1. Map \in Seq(S) /\ Map # <<>>
  BY ProbeAssumption
<1>3. \A e \in S : e.ch \in Channels /\ e.id \in Ids
  OBVIOUS
<1>. HIDE DEF S
<1>2. Len(Map) \in Nat \ {0} /\ \A j \in 1 .. Len(Map) : Map[j] \in S
  BY <1>1
<1>4. {ProbeRetries, NumParams} \subseteq Nat \ {0} /\ ScanMax \in Nat /\ 0 .. ScanMax \subseteq Ids
  BY ProbeAssumption
<1>. QED
  BY <1>2, <1>3, <1>4

Asked == {"GET_ID", "PARAM_READ"}

\* What a step of the program is to the bus.
ProbeWrites == \E c \in Channels, kind \in Asked, j \in Ids : Write(c, Frame(kind, j))

ProbeReads == \E c \in Channels :
  rx' = [rx EXCEPT ![c] = <<>>] \/ (rx[c] # <<>> /\ rx' = [rx EXCEPT ![c] = Tail(@)])

ProbeOnBus ==
  /\ UNCHANGED motorVars
  /\ UNCHANGED inbox \/ ProbeWrites
  /\ UNCHANGED rx \/ ProbeReads
  /\ UNCHANGED faults \/ Fault
  /\ UNCHANGED missed \/ \E kind \in Kinds \cup {"OPEN"} : HostFails(kind)

LEMMA ProbeOnBusStep == BusType /\ ProbeTypeOK /\ (ProbeStep \/ Expires) => ProbeOnBus
<1>. SUFFICES ASSUME BusType, ProbeTypeOK, ProbeStep \/ Expires PROVE ProbeOnBus
  OBVIOUS
<1>0. /\ 0 \in Channels /\ rx \in [Channels -> Seq(Replies \cup {Standard})]
      /\ where \in {"probe", "await", "pause"} => k \in 1 .. Len(Map)
      /\ where \in {"init", "scan", "hear", "exit"} => k \in Channels
      /\ where \in {"scan", "hear"} => stage \in Ids
      /\ \A j \in 1 .. Len(Map) : Map[j].ch \in Channels /\ Map[j].id \in Ids
      /\ Asked \subseteq Kinds
  BY BusConstants, ProbeConstants DEF BusType, ProbeTypeOK, Asked, Kinds
<1>1. ASSUME NEW c \in Channels, NEW kind \in Asked, NEW j \in Ids, NEW drain \in BOOLEAN,
             Ask(c, kind, j, drain) \/ AskRefused(c, kind, drain)
      PROVE  ProbeOnBus
  <2>1. rx' = rx \/ rx' = [rx EXCEPT ![c] = <<>>]
    BY <1>0, <1>1 DEF Ask, AskRefused
  <2>2. UNCHANGED motorVars /\ (UNCHANGED faults \/ Fault)
    BY <1>1 DEF Ask, AskRefused, HostFails
  <2>3. UNCHANGED missed \/ HostFails(kind)
    BY <1>1 DEF Ask, AskRefused
  <2>4. UNCHANGED inbox \/ Write(c, Frame(kind, j))
    BY <1>1 DEF Ask, AskRefused
  <2>. QED
    BY <1>0, <2>1, <2>2, <2>3, <2>4 DEF ProbeOnBus, ProbeWrites, ProbeReads
<1>2. CASE OpenChannel
  BY <1>0, <1>2 DEF OpenChannel, ProbeOnBus, HostFails
<1>3. CASE Probe
  <2>1. CASE UNCHANGED busVars
    BY <1>0, <2>1 DEF busVars, ProbeOnBus
  <2>. DEFINE kind == IF stage = 0 THEN "GET_ID" ELSE "PARAM_READ"
  <2>2. /\ kind \in Asked /\ (stage = 0) \in BOOLEAN
        /\ Map[k].ch \in Channels /\ Map[k].id \in Ids
    BY <1>0, <1>3 DEF Probe, Asked
  <2>3. \/ Ask(Map[k].ch, kind, Map[k].id, stage = 0)
        \/ AskRefused(Map[k].ch, kind, stage = 0)
        \/ UNCHANGED busVars
    BY <1>3 DEF Probe
  <2>. QED
    BY <1>1, <2>1, <2>2, <2>3
<1>4. CASE Await \/ AwaitExpires
  <2>1. Map[k].ch \in Channels
    BY <1>0, <1>4 DEF Await, AwaitExpires
  <2>. QED
    BY <1>4, <2>1 DEF Await, AwaitExpires, ProbeOnBus, ProbeReads
<1>5. CASE Pause
  BY <1>0, <1>5 DEF Pause, ProbeOnBus
<1>6. CASE Scan
  <2>1. CASE UNCHANGED busVars
    BY <1>0, <2>1 DEF busVars, ProbeOnBus
  <2>2. /\ k \in Channels /\ stage \in Ids /\ "GET_ID" \in Asked
        /\ Ask(k, "GET_ID", stage, TRUE) \/ AskRefused(k, "GET_ID", TRUE) \/ UNCHANGED busVars
    BY <1>0, <1>6 DEF Scan, Asked
  <2>. QED
    BY <1>1, <2>1, <2>2
<1>7. CASE Hear \/ HearExpires
  BY <1>0, <1>7 DEF Hear, HearExpires, ProbeOnBus, ProbeReads
<1>. QED
  BY <1>2, <1>3, <1>4, <1>5, <1>6, <1>7 DEF ProbeStep, Expires

LEMMA ProbeBusType == BusType /\ ProbeOnBus => BusType'
<1>. SUFFICES ASSUME BusType, ProbeOnBus PROVE BusType'
  OBVIOUS
<1>1. inbox' \in [Motors -> Seq(Frames)]
  <2>1. ASSUME NEW c \in Channels, NEW kind \in Asked, NEW j \in Ids, Write(c, Frame(kind, j))
        PROVE  inbox' \in [Motors -> Seq(Frames)]
    BY <2>1, FrameType, WriteType DEF Asked, Kinds
  <2>. QED
    BY <2>1 DEF ProbeOnBus, ProbeWrites, BusType
<1>2. rx' \in [Channels -> Seq(Replies \cup {Standard})]
  <2>1. ASSUME NEW c \in Channels, rx[c] # <<>>
        PROVE  Tail(rx[c]) \in Seq(Replies \cup {Standard})
    BY <2>1 DEF BusType
  <2>2. <<>> \in Seq(Replies \cup {Standard})
    OBVIOUS
  <2>. QED
    BY <2>1, <2>2 DEF ProbeOnBus, ProbeReads, BusType
<1>3. faults' \in 0 .. MaxFaults
  BY FaultType DEF ProbeOnBus
<1>4. missed' \subseteq (Motors \cup {Host}) \X (Kinds \cup {"OPEN"})
  BY DEF ProbeOnBus, BusType, HostFails
<1>5. id' \in [Motors -> Ids] /\ run' \in [Motors -> BOOLEAN] /\ pos' \in [Motors -> Positions]
  BY DEF ProbeOnBus, BusType, motorVars
<1>. QED
  BY <1>1, <1>2, <1>3, <1>4, <1>5 DEF BusType

\* A step of the bus: a motor, or other traffic.
LEMMA BusSteps ==
  ASSUME ProbeTypeOK, BusStep(IF where = "exit" THEN {} ELSE up)
  PROVE  (\E m \in Motors : Obey(m)) \/ (\E c \in Channels : OtherTraffic(c))
  BY DEF BusStep, ProbeTypeOK

-----------------------------------------------------------------------------
(***************************************************************************)
(* The course of main().                                                   *)
(***************************************************************************)
PlaceOK(w, n, t, s) ==
  /\ w \in {"init", "probe", "await", "pause", "scan", "hear", "exit"}
  /\ n \in IF w \in {"probe", "await", "pause"} THEN 1 .. Len(Map) ELSE Channels
  /\ t \in 1 .. ProbeRetries
  /\ s \in 0 .. (IF w \in {"probe", "await"} THEN NumParams ELSE ScanMax)

Counts == up \subseteq Channels /\ ok \subseteq 1 .. Len(Map) /\ hits \subseteq Channels \X Ids \X Ids

LEMMA GotoType ==
  ASSUME NEW w, NEW n, NEW t, NEW s, PlaceOK(w, n, t, s), Goto(w, n, t, s)
  PROVE  PlaceOK(where, k, attempt, stage)'
  BY DEF PlaceOK, Goto

LEMMA TypeIsPlace == ProbeTypeOK <=> PlaceOK(where, k, attempt, stage) /\ Counts
  BY DEF ProbeTypeOK, PlaceOK, Counts

LEMMA NextAttemptPlace ==
  ASSUME ProbeTypeOK, where \in {"probe", "await"}, NextAttempt
  PROVE  PlaceOK(where, k, attempt, stage)' /\ ok' \subseteq 1 .. Len(Map)
<1>1. k \in 1 .. Len(Map) /\ attempt \in 1 .. ProbeRetries /\ ok \subseteq 1 .. Len(Map)
  BY DEF ProbeTypeOK
<1>2. PlaceOK("pause", k, 1, 0)
  BY <1>1, ProbeConstants DEF PlaceOK
<1>3. attempt < ProbeRetries => PlaceOK("probe", k, attempt + 1, 0)
  BY <1>1, ProbeConstants DEF PlaceOK
<1>. QED
  BY <1>1, <1>2, <1>3, GotoType DEF NextAttempt, NextEntry

LEMMA NextScanPlace ==
  ASSUME ProbeTypeOK, where \in {"scan", "hear"}, NextScanId \/ NextScanChannel
  PROVE  PlaceOK(where, k, attempt, stage)'
<1>1. k \in Channels /\ stage \in 0 .. ScanMax
  BY DEF ProbeTypeOK
<1>2. PlaceOK("exit", k, 1, 0) /\ (k + 1 \in Channels => PlaceOK("scan", k + 1, 1, 0))
  BY <1>1, ProbeConstants DEF PlaceOK
<1>3. stage < ScanMax => PlaceOK("scan", k, 1, stage + 1)
  BY <1>1, ProbeConstants DEF PlaceOK
<1>. QED
  BY <1>1, <1>2, <1>3, GotoType DEF NextScanId, NextScanChannel

LEMMA CourseStep == BusType /\ ProbeTypeOK /\ (ProbeStep \/ Expires) => ProbeTypeOK'
<1>. SUFFICES ASSUME BusType, ProbeTypeOK, ProbeStep \/ Expires
              PROVE  PlaceOK(where, k, attempt, stage)' /\ Counts'
  BY DEF ProbeTypeOK, PlaceOK, Counts
<1>0. /\ up \subseteq Channels /\ ok \subseteq 1 .. Len(Map) /\ hits \subseteq Channels \X Ids \X Ids
      /\ PlaceOK(where, k, attempt, stage)
      /\ where \in {"probe", "await", "pause"} => k \in 1 .. Len(Map)
      /\ where \in {"init", "scan", "hear"} => k \in Channels
      /\ attempt \in 1 .. ProbeRetries /\ stage \in Nat
      /\ where \in {"probe", "await"} => stage <= NumParams
  BY TypeIsPlace, ProbeConstants DEF PlaceOK, Counts
<1>p. /\ Len(Map) \in Nat \ {0} /\ ProbeRetries \in Nat \ {0} /\ NumParams \in Nat \ {0}
      /\ ScanMax \in Nat
  BY ProbeConstants
<1>c. Channels = 0 .. NumChannels - 1 /\ NumChannels \in Nat \ {0}
  BY BusConstants DEF Channels
<1>1. CASE OpenChannel
  <2>1. Counts'
    BY <1>0, <1>1 DEF OpenChannel, Counts
  <2>2. PlaceOK("probe", 1, 1, 0) /\ (k + 1 \in Channels => PlaceOK("init", k + 1, 1, 0))
    BY <1>p DEF PlaceOK
  <2>. QED
    BY <1>1, <2>1, <2>2, GotoType DEF OpenChannel
<1>2. CASE Probe
  <2>1. where = "probe" /\ UNCHANGED <<up, hits>>
    BY <1>2 DEF Probe
  <2>2. CASE Goto("await", k, attempt, stage) /\ UNCHANGED ok
    <3>1. PlaceOK("await", k, attempt, stage)
      BY <1>0, <1>p, <2>1 DEF PlaceOK
    <3>. QED
      BY <1>0, <2>1, <2>2, <3>1, GotoType DEF Counts
  <2>3. CASE NextAttempt
    BY <1>0, <2>1, <2>3, NextAttemptPlace DEF Counts
  <2>4. CASE NextEntry(FALSE)
    <3>1. PlaceOK("pause", k, 1, 0)
      BY <1>0, <1>p, <2>1 DEF PlaceOK
    <3>. QED
      BY <1>0, <2>1, <2>4, <3>1, GotoType DEF NextEntry, Counts
  <2>. QED
    BY <1>2, <2>2, <2>3, <2>4 DEF Probe
<1>3. CASE Await
  <2>1. where = "await" /\ UNCHANGED <<up, hits>>
    BY <1>3 DEF Await
  <2>2. CASE NextEntry(TRUE)
    <3>1. PlaceOK("pause", k, 1, 0)
      BY <1>0, <1>p, <2>1 DEF PlaceOK
    <3>. QED
      BY <1>0, <2>1, <2>2, <3>1, GotoType DEF NextEntry, Counts
  <2>3. CASE UNCHANGED <<where, k, attempt, stage, ok>>
    BY <1>0, <2>1, <2>3 DEF PlaceOK, Counts
  <2>. QED
    BY <1>3, <2>2, <2>3 DEF Await
<1>4. CASE Pause
  <2>1. where = "pause" /\ UNCHANGED <<up, ok, hits>>
    BY <1>4 DEF Pause
  <2>2. PlaceOK("scan", 0, 1, 0) /\ (k < Len(Map) => PlaceOK("probe", k + 1, 1, 0))
    BY <1>0, <1>p, <1>c, <2>1 DEF PlaceOK
  <2>. QED
    BY <1>0, <1>4, <2>1, <2>2, GotoType DEF Pause, Counts
<1>5. CASE Scan
  <2>1. where = "scan" /\ UNCHANGED <<up, ok, hits>>
    BY <1>5 DEF Scan
  <2>2. CASE Goto("hear", k, 1, stage)
    <3>1. PlaceOK("hear", k, 1, stage)
      BY <1>0, <1>p, <2>1 DEF PlaceOK
    <3>. QED
      BY <1>0, <2>1, <2>2, <3>1, GotoType DEF Counts
  <2>3. CASE NextScanId \/ NextScanChannel
    BY <1>0, <2>1, <2>3, NextScanPlace DEF Counts
  <2>. QED
    BY <1>5, <2>2, <2>3 DEF Scan
<1>6. CASE Hear
  <2>1. where = "hear" /\ UNCHANGED <<up, ok>>
    BY <1>6 DEF Hear
  <2>2. hits' = hits \/ hits' = hits \cup {<<k, stage, Head(rx[k]).from>>}
    BY <1>6 DEF Hear
  <2>3. Head(rx[k]).kind = "GET_ID" => Head(rx[k]).from \in Ids
    <3>1. Head(rx[k]) \in Replies \cup {Standard}
      BY <1>0, <1>6, <2>1 DEF Hear, BusType
    <3>. QED
      BY <3>1 DEF Replies, Standard
  <2>4. stage \in Ids
    BY <1>0, <2>1, ProbeConstants DEF PlaceOK
  <2>5. Counts'
    BY <1>0, <1>6, <2>1, <2>2, <2>3, <2>4 DEF Hear, Counts
  <2>6. CASE NextScanId
    BY <2>1, <2>5, <2>6, NextScanPlace
  <2>7. CASE UNCHANGED <<where, k, attempt, stage>>
    BY <1>0, <2>5, <2>7 DEF PlaceOK
  <2>. QED
    BY <1>6, <2>6, <2>7 DEF Hear
<1>7. CASE AwaitExpires
  <2>1. where = "await" /\ UNCHANGED <<up, hits>>
    BY <1>7 DEF AwaitExpires
  <2>2. CASE stage < NumParams /\ Goto("probe", k, attempt, stage + 1) /\ UNCHANGED ok
    <3>1. PlaceOK("probe", k, attempt, stage + 1)
      BY <1>0, <1>p, <2>1, <2>2 DEF PlaceOK
    <3>. QED
      BY <1>0, <2>1, <2>2, <3>1, GotoType DEF Counts
  <2>3. CASE NextAttempt
    BY <1>0, <2>1, <2>3, NextAttemptPlace DEF Counts
  <2>. QED
    BY <1>7, <2>2, <2>3 DEF AwaitExpires
<1>8. CASE HearExpires
  <2>1. where = "hear" /\ UNCHANGED <<up, ok, hits>> /\ NextScanId
    BY <1>8 DEF HearExpires
  <2>. QED
    BY <1>0, <2>1, NextScanPlace DEF Counts
<1>. QED
  BY <1>1, <1>2, <1>3, <1>4, <1>5, <1>6, <1>7, <1>8 DEF ProbeStep, Expires

\* What a step is.
LEMMA StepKinds ==
  ASSUME BusType, ProbeTypeOK, [ProbeNext]_<<busVars, probeVars>>
  PROVE  \/ (ProbeStep \/ Expires) /\ ProbeOnBus
         \/ \E m \in Motors : Obey(m) /\ UNCHANGED probeVars
         \/ \E c \in Channels : OtherTraffic(c) /\ UNCHANGED probeVars
         \/ UNCHANGED <<busVars, probeVars>>
  BY ProbeOnBusStep, BusSteps DEF ProbeNext

LEMMA TypeStep ==
  BusType /\ ProbeTypeOK /\ [ProbeNext]_<<busVars, probeVars>> => BusType' /\ ProbeTypeOK'
<1>. SUFFICES ASSUME BusType, ProbeTypeOK, [ProbeNext]_<<busVars, probeVars>>
              PROVE  BusType' /\ ProbeTypeOK'
  OBVIOUS
<1>1. UNCHANGED probeVars => ProbeTypeOK'
  BY DEF probeVars, ProbeTypeOK
<1>2. UNCHANGED busVars => BusType'
  BY DEF busVars, motorVars, BusType
<1>3. (ProbeStep \/ Expires) /\ ProbeOnBus => BusType' /\ ProbeTypeOK'
  BY ProbeBusType, CourseStep
<1>. QED
  BY <1>1, <1>2, <1>3, StepKinds, ObeyBusType, TrafficBusType

LEMMA InitType == BusInit /\ ProbeInit => BusType /\ ProbeTypeOK
<1>. SUFFICES ASSUME BusInit, ProbeInit PROVE BusType /\ ProbeTypeOK
  OBVIOUS
<1>1. BusType
  <2>1. <<>> \in Seq(Frames) /\ <<>> \in Seq(Replies \cup {Standard})
    OBVIOUS
  <2>2. pos \in [Motors -> Positions] /\ faults \in 0 .. MaxFaults
    BY BusConstants DEF BusInit
  <2>. QED
    BY <2>1, <2>2 DEF BusInit, BusType
<1>2. ProbeTypeOK
  BY BusConstants, ProbeConstants DEF ProbeInit, ProbeTypeOK
<1>. QED
  BY <1>1, <1>2

(***************************************************************************)
(* The program stays within its map, its attempts, its parameters and the  *)
(* ids of its scan.                                                        *)
(***************************************************************************)
THEOREM ProbeTypeCorrect == ProbeSpec => []ProbeTypeOK
  BY InitType, TypeStep, PTL DEF ProbeSpec

-----------------------------------------------------------------------------
(***************************************************************************)
(* What is on its way is true: the program asks, and changes no motor; an  *)
(* answer names the motor that gave it.                                    *)
(***************************************************************************)
OnlyAsked == \A m \in Motors : \A n \in DOMAIN inbox[m] : inbox[m][n].kind \in Asked

Exists(e) == MotorsAt(e.ch, e.id) # {}

TruthInv ==
  /\ OnlyAsked
  /\ RepliesTrue
  /\ \A j \in ok : Exists(Map[j])
  /\ \A h \in hits : MotorsAt(h[1], h[3]) # {}

Typed == BusType /\ ProbeTypeOK /\ TruthInv

\* A motor that takes a frame answers it, or a fault is counted.
LEMMA ObeyAsked ==
  ASSUME Typed, NEW m \in Motors, Obey(m)
  PROVE  LET f == inbox[m][1]
         IN /\ UNCHANGED id /\ f.kind \in Asked
            /\ f.to # id[m] => UNCHANGED <<rx, faults>>
            /\ UNCHANGED faults \/ Fault
            /\ UNCHANGED rx \/ rx' = [rx EXCEPT ![Chan[m]] = Append(@, Answer(m, f))]
            /\ f.to = id[m] => Fault \/ rx' = [rx EXCEPT ![Chan[m]] = Append(@, Answer(m, f))]
<1>. DEFINE f == inbox[m][1]
<1>1. f = Head(inbox[m]) /\ 1 \in DOMAIN inbox[m]
  BY ObeyStep DEF Typed
<1>2. f.kind \in Asked
  BY <1>1 DEF Typed, TruthInv, OnlyAsked
<1>. HIDE DEF f
<1>3. f.kind # "SET_CAN_ID"
  BY <1>2 DEF Asked
<1>4. UNCHANGED id
  BY <1>1, <1>3 DEF Obey, Execute, motorVars
<1>5. /\ f.to # id[m] => UNCHANGED <<rx, faults>>
      /\ UNCHANGED faults \/ Fault
      /\ UNCHANGED rx \/ rx' = [rx EXCEPT ![Chan[m]] = Append(@, Answer(m, f))]
      /\ f.to = id[m] => Fault \/ rx' = [rx EXCEPT ![Chan[m]] = Append(@, Answer(m, f))]
  BY <1>1, <1>3 DEF Obey
<1>. QED
  BY <1>2, <1>4, <1>5 DEF f

LEMMA IdsStay ==
  ASSUME Typed, [ProbeNext]_<<busVars, probeVars>>
  PROVE  UNCHANGED id
<1>1. \A m \in Motors : Obey(m) => UNCHANGED id
  BY ObeyAsked
<1>. QED
  BY <1>1, StepKinds DEF Typed, ProbeOnBus, OtherTraffic, busVars, motorVars

\* The program takes frames from the receive queues, and puts none there.
LEMMA ProbeTakes ==
  ASSUME BusType, ProbeOnBus
  PROVE  \A c \in Channels : \A n \in DOMAIN rx'[c] : \E j \in DOMAIN rx[c] : rx'[c][n] = rx[c][j]
<1>1. ASSUME NEW c \in Channels, rx' = [rx EXCEPT ![c] = <<>>]
      PROVE  \A d \in Channels : \A n \in DOMAIN rx'[d] : \E j \in DOMAIN rx[d] : rx'[d][n] = rx[d][j]
  BY <1>1 DEF BusType
<1>. QED
  BY <1>1, ReadTakesHead DEF ProbeOnBus, ProbeReads

LEMMA AskedStep ==
  ASSUME Typed, [ProbeNext]_<<busVars, probeVars>>
  PROVE  OnlyAsked'
<1>0. BusType /\ OnlyAsked
  BY DEF Typed, TruthInv
<1>1. ASSUME NEW c \in Channels, NEW kind \in Asked, NEW j \in Ids, Write(c, Frame(kind, j)),
             NEW m \in Motors, NEW n \in DOMAIN inbox'[m]
      PROVE  inbox'[m][n].kind \in Asked
  <2>0. kind \in Kinds
    BY DEF Asked, Kinds
  <2>1. Frame(kind, j) \in Frames /\ Frame(kind, j).kind = kind
    BY <2>0, FrameType
  <2>2. n \in 1 .. Len(inbox[m]) \/ n = Len(inbox[m]) + 1 \/ inbox'[m] = inbox[m]
    BY <1>0, <1>1, <2>1, WriteArrives
  <2>. QED
    BY <1>0, <1>1, <2>1, <2>2, WriteArrives DEF OnlyAsked
<1>2. ASSUME NEW x \in Motors, Obey(x), NEW m \in Motors, NEW n \in DOMAIN inbox'[m]
      PROVE  inbox'[m][n].kind \in Asked
  <2>1. CASE m = x
    <3>1. n \in 1 .. Len(inbox[m]) - 1 /\ DOMAIN inbox[m] = 1 .. Len(inbox[m])
          /\ inbox'[m][n] = inbox[m][n + 1] /\ Len(inbox[m]) \in Nat
      BY <1>0, <1>2, <2>1, TailShifts
    <3>2. n + 1 \in DOMAIN inbox[m]
      BY <3>1
    <3>. QED
      BY <1>0, <3>1, <3>2 DEF OnlyAsked
  <2>2. CASE m # x
    BY <1>0, <1>2, <2>2, ObeyStep DEF OnlyAsked
  <2>. QED
    BY <2>1, <2>2
<1>3. UNCHANGED inbox => OnlyAsked'
  BY <1>0 DEF OnlyAsked
<1>. QED
  BY <1>1, <1>2, <1>3, StepKinds DEF Typed, OnlyAsked, ProbeOnBus, ProbeWrites, OtherTraffic, busVars

LEMMA RepliesStep ==
  ASSUME Typed, [ProbeNext]_<<busVars, probeVars>>
  PROVE  RepliesTrue'
<1>0. BusType /\ RepliesTrue /\ UNCHANGED id
  BY IdsStay DEF Typed, TruthInv
<1>1. CASE ProbeOnBus
  BY <1>0, <1>1, ProbeTakes, ReadsAreTrue
<1>2. CASE UNCHANGED <<busVars, probeVars>>
  BY <1>0, <1>2 DEF busVars, RepliesTrue, TrueReply, MotorsAt
<1>. QED
  BY <1>0, <1>1, <1>2, ArrivalsAreTrue, StepKinds DEF Typed

\* Nobody is counted, or reported, who is not there.
LEMMA TruthStep == Typed /\ [ProbeNext]_<<busVars, probeVars>> => Typed'
<1>. SUFFICES ASSUME Typed, [ProbeNext]_<<busVars, probeVars>> PROVE Typed'
  OBVIOUS
<1>0. /\ BusType /\ ProbeTypeOK /\ RepliesTrue /\ UNCHANGED id
      /\ \A j \in ok : Exists(Map[j])
      /\ \A h \in hits : MotorsAt(h[1], h[3]) # {}
  BY IdsStay DEF Typed, TruthInv
<1>1. ASSUME NEW c \in Channels, rx[c] # <<>> PROVE TrueReply(c, Head(rx[c]))
  <2>1. rx[c] \in Seq(Replies \cup {Standard}) /\ Head(rx[c]) = rx[c][1] /\ 1 \in DOMAIN rx[c]
    BY <1>0, <1>1 DEF BusType
  <2>. QED
    BY <1>0, <2>1 DEF RepliesTrue
<1>2. ok' \subseteq ok \/ (ok' = ok \cup {k} /\ Exists(Map[k]))
  <2>1. CASE Await
    <3>. DEFINE c == Map[k].ch
                f == Head(rx[c])
    <3>1. c \in Channels /\ rx[c] # <<>>
      BY <1>0, <2>1, ProbeConstants DEF Await, ProbeTypeOK
    <3>2. TrueReply(c, f)
      BY <1>1, <3>1
    <3>3. IsReply(f, Map[k]) => Exists(Map[k])
      BY <3>2 DEF IsReply, TrueReply, Exists
    <3>4. IF IsReply(f, Map[k]) THEN ok' = ok \cup {k} ELSE ok' = ok
      BY <2>1 DEF Await, NextEntry
    <3>. QED
      BY <3>3, <3>4
  <2>2. CASE ~Await
    <3>1. UNCHANGED ok
      BY <2>2 DEF ProbeNext, ProbeStep, Expires, OpenChannel, Probe, Pause, Scan, Hear, AwaitExpires,
                  HearExpires, NextAttempt, NextEntry, probeVars
    <3>. QED
      BY <3>1
  <2>. QED
    BY <2>1, <2>2
<1>3. hits' \subseteq hits \/ \E f : hits' = hits \cup {<<k, stage, f.from>>} /\ MotorsAt(k, f.from) # {}
  <2>1. CASE Hear
    <3>1. k \in Channels /\ rx[k] # <<>>
      BY <1>0, <2>1 DEF Hear, ProbeTypeOK
    <3>2. TrueReply(k, Head(rx[k]))
      BY <1>1, <3>1
    <3>3. Head(rx[k]).kind = "GET_ID" => Head(rx[k]) # Standard
      BY DEF Standard
    <3>. QED
      BY <2>1, <3>2, <3>3 DEF Hear, TrueReply
  <2>2. CASE ~Hear
    <3>1. UNCHANGED hits
      BY <2>2 DEF ProbeNext, ProbeStep, Expires, OpenChannel, Probe, Pause, Scan, Await, AwaitExpires,
                  HearExpires, probeVars
    <3>. QED
      BY <3>1
  <2>. QED
    BY <2>1, <2>2
<1>4. (\A j \in ok' : Exists(Map[j])') /\ \A h \in hits' : MotorsAt(h[1], h[3])' # {}
  BY <1>0, <1>2, <1>3 DEF Exists, MotorsAt
<1>. QED
  BY <1>0, <1>4, TypeStep, AskedStep, RepliesStep DEF Typed, TruthInv

LEMMA InitTyped == BusInit /\ ProbeInit => Typed
<1>. SUFFICES ASSUME BusInit, ProbeInit PROVE TruthInv
  BY InitType DEF Typed
<1>1. /\ \A m \in Motors : inbox[m] = <<>>
      /\ \A c \in Channels : rx[c] = <<>>
  BY DEF BusInit
<1>2. DOMAIN <<>> = {}
  OBVIOUS
<1>. QED
  BY <1>1, <1>2 DEF TruthInv, OnlyAsked, RepliesTrue, ProbeInit

-----------------------------------------------------------------------------
(***************************************************************************)
(* The count.  An attempt that a motor lets pass costs a fault: its answer *)
(* to a parameter is still to come, or a fault has been counted.           *)
(***************************************************************************)
Due(e) == e.ch \in up /\ Exists(e)

Coming(m, e) ==
  \/ \E n \in DOMAIN inbox[m] : inbox[m][n].kind = "PARAM_READ" /\ inbox[m][n].to = id[m]
  \/ \E n \in DOMAIN rx[e.ch] : IsReply(rx[e.ch][n], e)

CountedInv == \A j \in Probed : Due(Map[j]) => j \in ok \/ faults >= ProbeRetries

AttemptInv == where \in {"probe", "await"} /\ Due(Map[k]) => faults >= attempt - 1

WaitInv ==
  where = "await" =>
    /\ Map[k].ch \in up
    /\ stage >= 1 => \A m \in MotorsAt(Map[k].ch, Map[k].id) : faults >= attempt \/ Coming(m, Map[k])

CountInv == CountedInv /\ AttemptInv /\ WaitInv

LEMMA FaultsGrow ==
  ASSUME Typed, UNCHANGED faults \/ Fault
  PROVE  faults \in Nat /\ faults' \in Nat /\ faults' >= faults /\ (Fault => faults' = faults + 1)
  BY DEF Typed, BusType, Fault

LEMMA NextAttemptCounts ==
  ASSUME Typed, CountInv, where \in {"probe", "await"}, NextAttempt, UNCHANGED <<up, id>>,
         UNCHANGED faults \/ Fault, Due(Map[k]) => faults' >= attempt
  PROVE  CountInv'
<1>0. /\ faults \in Nat /\ faults' \in Nat /\ faults' >= faults
      /\ k \in 1 .. Len(Map) /\ attempt \in 1 .. ProbeRetries /\ ProbeRetries \in Nat
      /\ Len(Map) \in Nat
  BY FaultsGrow, ProbeConstants DEF Typed, ProbeTypeOK
<1>1. Probed = 1 .. k - 1 /\ \A j \in 1 .. k - 1 : Due(Map[j]) => j \in ok \/ faults >= ProbeRetries
  BY DEF Probed, CountInv, CountedInv
<1>2. \A e : Due(e)' <=> Due(e)
  BY DEF Due, Exists, MotorsAt
<1>3. CASE attempt < ProbeRetries /\ Goto("probe", k, attempt + 1, 0) /\ UNCHANGED ok
  <2>1. where' = "probe" /\ k' = k /\ attempt' = attempt + 1 /\ Probed' = 1 .. k - 1
    BY <1>3 DEF Goto, Probed
  <2>. QED
    BY <1>0, <1>1, <1>2, <1>3, <2>1 DEF CountInv, CountedInv, AttemptInv, WaitInv
<1>4. CASE attempt = ProbeRetries /\ NextEntry(FALSE)
  <2>1. where' = "pause" /\ k' = k /\ ok' = ok /\ Probed' = 1 .. k
    BY <1>4 DEF NextEntry, Goto, Probed
  <2>2. \A j \in 1 .. k : j \in 1 .. k - 1 \/ j = k
    BY <1>0
  <2>. QED
    BY <1>0, <1>1, <1>2, <1>4, <2>1, <2>2 DEF CountInv, CountedInv, AttemptInv, WaitInv
<1>5. attempt < ProbeRetries \/ attempt = ProbeRetries
  BY <1>0
<1>. QED
  BY <1>3, <1>4, <1>5 DEF NextAttempt

\* A bus step loses no answer without a fault.
LEMMA ComingStays ==
  ASSUME Typed, NEW m \in Motors, NEW e, e.ch \in Channels, m \in MotorsAt(e.ch, e.id), Coming(m, e),
         \/ \E x \in Motors : Obey(x)
         \/ \E c \in Channels : OtherTraffic(c)
  PROVE  Fault \/ Coming(m, e)'
<1>0. BusType /\ Chan[m] = e.ch /\ id[m] = e.id
  BY DEF Typed, MotorsAt
<1>1. ASSUME NEW d \in Channels, NEW r, rx' = [rx EXCEPT ![d] = Append(@, r)],
             NEW n \in DOMAIN rx[e.ch], IsReply(rx[e.ch][n], e)
      PROVE  Coming(m, e)'
  <2>1. n \in DOMAIN rx'[e.ch] /\ rx'[e.ch][n] = rx[e.ch][n]
    BY <1>0, <1>1, ArrivalKeeps
  <2>. QED
    BY <1>1, <2>1 DEF Coming, IsReply
<1>2. ASSUME NEW x \in Motors, Obey(x) PROVE Fault \/ Coming(m, e)'
  <2>1. UNCHANGED id /\ Chan[x] \in Channels
    BY <1>2, ObeyAsked, BusConstants
  <2>2. ASSUME NEW n \in DOMAIN rx[e.ch], IsReply(rx[e.ch][n], e) PROVE Coming(m, e)'
    <3>1. UNCHANGED rx => Coming(m, e)'
      BY <2>2 DEF Coming, IsReply
    <3>2. UNCHANGED rx \/ \E r : rx' = [rx EXCEPT ![Chan[x]] = Append(@, r)]
      BY <1>2, ObeyAsked
    <3>. QED
      BY <1>1, <2>1, <2>2, <3>1, <3>2
  <2>3. ASSUME NEW n \in DOMAIN inbox[m], inbox[m][n].kind = "PARAM_READ", inbox[m][n].to = id[m]
        PROVE  Fault \/ Coming(m, e)'
    <3>1. CASE m # x
      <4>1. inbox'[m] = inbox[m]
        BY <1>0, <1>2, <3>1, ObeyStep
      <4>. QED
        BY <2>1, <2>3, <4>1 DEF Coming
    <3>2. CASE m = x /\ n # 1
      <4>1. n - 1 \in DOMAIN inbox'[m] /\ inbox'[m][n - 1] = inbox[m][n]
        <5>1. /\ Len(inbox[m]) \in Nat /\ n \in 1 .. Len(inbox[m])
              /\ DOMAIN inbox'[m] = 1 .. Len(inbox[m]) - 1
              /\ \A j \in 1 .. Len(inbox[m]) - 1 : inbox'[m][j] = inbox[m][j + 1]
          BY <1>0, <1>2, <2>3, <3>2, TailShifts
        <5>2. n - 1 \in 1 .. Len(inbox[m]) - 1 /\ (n - 1) + 1 = n
          BY <3>2, <5>1
        <5>. QED
          BY <5>1, <5>2
      <4>. QED
        BY <2>1, <2>3, <4>1 DEF Coming
    <3>3. CASE m = x /\ n = 1
      <4>. DEFINE f == inbox[m][1]
                  r == Answer(m, f)
      <4>1. f.kind = "PARAM_READ" /\ f.to = id[m]
        BY <2>3, <3>3
      <4>2. Fault \/ rx' = [rx EXCEPT ![Chan[m]] = Append(@, r)]
        BY <1>2, <3>3, <4>1, ObeyAsked
      <4>3. IsReply(r, e)
        BY <1>0, <4>1 DEF Answer, IsReply, Standard
      <4>4. ASSUME rx' = [rx EXCEPT ![Chan[m]] = Append(@, r)] PROVE Coming(m, e)'
        <5>. HIDE DEF r
        <5>1. \E j \in DOMAIN rx'[e.ch] : rx'[e.ch][j] = r
          BY <1>0, <4>4, ArrivalKeeps
        <5>. QED
          BY <4>3, <5>1 DEF Coming, IsReply
      <4>. QED
        BY <4>2, <4>4
    <3>. QED
      BY <3>1, <3>2, <3>3
  <2>. QED
    BY <2>2, <2>3 DEF Coming
<1>3. ASSUME NEW d \in Channels, OtherTraffic(d) PROVE Coming(m, e)'
  <2>1. UNCHANGED <<id, inbox>> /\ \E r : rx' = [rx EXCEPT ![d] = Append(@, r)]
    BY <1>3 DEF OtherTraffic, motorVars
  <2>. QED
    BY <1>1, <2>1 DEF Coming
<1>. QED
  BY <1>2, <1>3

\* Steps that leave the place, the count and the channels alone.
LEMMA CountIdle ==
  ASSUME Typed, CountInv, UNCHANGED <<where, k, attempt, stage, up, ok, id>>,
         UNCHANGED faults \/ Fault,
         where = "await" => \A m \in MotorsAt(Map[k].ch, Map[k].id) :
                              Coming(m, Map[k]) => Fault \/ Coming(m, Map[k])'
  PROVE  CountInv'
<1>0. /\ faults \in Nat /\ faults' \in Nat /\ faults' >= faults /\ (Fault => faults' = faults + 1)
      /\ attempt \in Nat /\ ProbeRetries \in Nat
  BY FaultsGrow, ProbeConstants DEF Typed, ProbeTypeOK
<1>1. \A e : Due(e)' <=> Due(e)
  BY DEF Due, Exists, MotorsAt
<1>2. CountedInv' /\ AttemptInv'
  BY <1>0, <1>1 DEF CountInv, CountedInv, AttemptInv, Probed
<1>3. ASSUME where = "await", stage >= 1, NEW m \in MotorsAt(Map[k].ch, Map[k].id)
      PROVE  faults' >= attempt \/ Coming(m, Map[k])'
  <2>1. faults >= attempt - 1
    BY <1>3 DEF CountInv, AttemptInv, WaitInv, Due, Exists
  <2>. QED
    BY <1>0, <1>3, <2>1 DEF CountInv, WaitInv
<1>4. WaitInv'
  <2>1. MotorsAt(Map[k].ch, Map[k].id)' = MotorsAt(Map[k].ch, Map[k].id)
    BY DEF MotorsAt
  <2>. QED
    BY <1>3, <2>1 DEF CountInv, WaitInv, Coming
<1>. QED
  BY <1>2, <1>4 DEF CountInv

\* Steps to a place outside of a probe, with the same entries probed.
LEMMA CountElsewhere ==
  ASSUME Typed, CountInv, UNCHANGED <<up, ok, id>>, UNCHANGED faults \/ Fault,
         where' \notin {"probe", "await"}, Probed' = Probed
  PROVE  CountInv'
<1>0. faults \in Nat /\ faults' \in Nat /\ faults' >= faults /\ ProbeRetries \in Nat
  BY FaultsGrow, ProbeConstants
<1>1. \A e : Due(e)' <=> Due(e)
  BY DEF Due, Exists, MotorsAt
<1>. QED
  BY <1>0, <1>1 DEF CountInv, CountedInv, AttemptInv, WaitInv

\* A probe that asks: in WaitInv's terms, the question is on its way.
LEMMA AskCounts ==
  ASSUME Typed, CountInv, Probe, Ask(Map[k].ch, IF stage = 0 THEN "GET_ID" ELSE "PARAM_READ", Map[k].id, stage = 0),
         Goto("await", k, attempt, stage), UNCHANGED ok
  PROVE  CountInv'
<1>. DEFINE e == Map[k]
            kind == IF stage = 0 THEN "GET_ID" ELSE "PARAM_READ"
<1>a. BusType /\ where = "probe" /\ UNCHANGED <<up, id>> /\ (UNCHANGED faults \/ Fault)
  BY DEF Typed, Probe, Ask, motorVars
<1>b. e.ch \in up
  BY DEF Probe, NextEntry, Goto
<1>c. e.ch \in Channels /\ e.id \in Ids /\ stage \in Nat
  BY <1>a, ProbeConstants DEF Typed, ProbeTypeOK
<1>0. /\ BusType /\ where = "probe" /\ UNCHANGED <<up, id>> /\ e.ch \in up
      /\ e.ch \in Channels /\ e.id \in Ids /\ stage \in Nat
      /\ UNCHANGED faults \/ Fault
  BY <1>a, <1>b, <1>c
<1>n. faults \in Nat /\ faults' \in Nat /\ faults' >= faults /\ ProbeRetries \in Nat /\ attempt \in Nat
  BY FaultsGrow, ProbeConstants, <1>0 DEF Typed, ProbeTypeOK
<1>1. \A x : Due(x)' <=> Due(x)
  BY <1>0 DEF Due, Exists, MotorsAt
<1>2. where' = "await" /\ k' = k /\ attempt' = attempt /\ stage' = stage /\ Probed' = Probed
  BY <1>0 DEF Goto, Probed
<1>3. CountedInv' /\ AttemptInv'
  BY <1>0, <1>n, <1>1, <1>2 DEF CountInv, CountedInv, AttemptInv
<1>4. ASSUME stage >= 1, NEW m \in MotorsAt(e.ch, e.id) PROVE Coming(m, e)'
  <2>1. Write(e.ch, Frame("PARAM_READ", e.id))
    BY <1>0, <1>4 DEF Ask
  <2>2. Frame("PARAM_READ", e.id) \in Frames
    BY <1>0, FrameType DEF Kinds
  <2>3. m \in Motors /\ Chan[m] = e.ch /\ id[m] = e.id
    BY <1>4 DEF MotorsAt
  <2>. HIDE DEF e
  <2>4. /\ Len(inbox[m]) + 1 \in DOMAIN inbox'[m]
        /\ inbox'[m][Len(inbox[m]) + 1] = Frame("PARAM_READ", e.id)
    BY <1>0, <2>1, <2>2, <2>3, WriteArrives
  <2>5. Frame("PARAM_READ", e.id).kind = "PARAM_READ" /\ Frame("PARAM_READ", e.id).to = id'[m]
    BY <1>0, <2>3 DEF Frame
  <2>. QED
    BY <2>4, <2>5 DEF Coming
<1>5. WaitInv'
  <2>1. MotorsAt(Map[k].ch, Map[k].id)' = MotorsAt(Map[k].ch, Map[k].id)
    BY <1>0, <1>2 DEF MotorsAt
  <2>. QED
    BY <1>0, <1>2, <1>4, <2>1 DEF WaitInv, Coming
<1>. QED
  BY <1>3, <1>5 DEF CountInv

LEMMA CountStep == Typed /\ CountInv /\ [ProbeNext]_<<busVars, probeVars>> => CountInv'
<1>. SUFFICES ASSUME Typed, CountInv, [ProbeNext]_<<busVars, probeVars>> PROVE CountInv'
  OBVIOUS
<1>0. /\ BusType /\ ProbeTypeOK /\ UNCHANGED id /\ Len(Map) \in Nat \ {0} /\ ProbeRetries \in Nat \ {0}
      /\ where \in {"probe", "await", "pause"} => k \in 1 .. Len(Map)
      /\ \A j \in 1 .. Len(Map) : Map[j].ch \in Channels
      /\ faults \in Nat /\ attempt \in 1 .. ProbeRetries
  BY IdsStay, ProbeConstants DEF Typed, ProbeTypeOK, BusType
<1>1. CASE OpenChannel
  <2>1. Probed' = {} /\ where' \in {"init", "probe"} /\ attempt' = 1 /\ UNCHANGED ok
    BY <1>1 DEF OpenChannel, Goto, Probed
  <2>2. faults' >= 0
    BY <1>0, <1>1, FaultsGrow DEF OpenChannel, HostFails
  <2>. QED
    BY <2>1, <2>2 DEF CountInv, CountedInv, AttemptInv, WaitInv
<1>2. CASE Probe
  <2>1. where = "probe" /\ UNCHANGED up
    BY <1>2 DEF Probe
  <2>2. CASE AskRefused(Map[k].ch, IF stage = 0 THEN "GET_ID" ELSE "PARAM_READ", stage = 0) /\ NextAttempt
    <3>1. Fault
      BY <2>2 DEF AskRefused, HostFails
    <3>2. Due(Map[k]) => faults' >= attempt
      BY <1>0, <2>1, <3>1, FaultsGrow DEF CountInv, AttemptInv
    <3>. QED
      BY <1>0, <2>1, <2>2, <3>1, <3>2, NextAttemptCounts
  <2>3. CASE Map[k].ch \notin up /\ NextEntry(FALSE) /\ UNCHANGED busVars
    <3>1. where' = "pause" /\ k' = k /\ UNCHANGED <<ok, faults>> /\ Probed' = 1 .. k /\ Probed = 1 .. k - 1
      BY <2>1, <2>3 DEF NextEntry, Goto, Probed, busVars
    <3>2. ~Due(Map[k]) /\ \A e : Due(e)' <=> Due(e)
      BY <1>0, <2>1, <2>3 DEF Due, Exists, MotorsAt
    <3>3. \A j \in 1 .. k : j \in 1 .. k - 1 \/ j = k
      BY <1>0, <2>1
    <3>. QED
      BY <3>1, <3>2, <3>3 DEF CountInv, CountedInv, AttemptInv, WaitInv
  <2>. QED
    BY <1>2, <2>2, <2>3, AskCounts DEF Probe
<1>3. CASE Await
  <2>. DEFINE e == Map[k]
  <2>1. /\ where = "await" /\ UNCHANGED <<up, inbox, faults>> /\ e.ch \in Channels /\ rx[e.ch] # <<>>
        /\ rx' = [rx EXCEPT ![e.ch] = Tail(@)]
    BY <1>0, <1>3 DEF Await
  <2>2. CASE NextEntry(TRUE)
    <3>1. where' = "pause" /\ k' = k /\ ok' = ok \cup {k} /\ Probed' = 1 .. k /\ Probed = 1 .. k - 1
      BY <2>1, <2>2 DEF NextEntry, Goto, Probed
    <3>2. \A x : Due(x)' <=> Due(x)
      BY <1>0, <2>1 DEF Due, Exists, MotorsAt
    <3>3. \A j \in 1 .. k : j \in 1 .. k - 1 \/ j = k
      BY <1>0, <2>1
    <3>. QED
      BY <2>1, <3>1, <3>2, <3>3 DEF CountInv, CountedInv, AttemptInv, WaitInv
  <2>3. CASE UNCHANGED <<where, k, attempt, stage, ok>> /\ ~IsReply(Head(rx[e.ch]), e)
    <3>1. ASSUME NEW n \in DOMAIN rx[e.ch], IsReply(rx[e.ch][n], e)
          PROVE  \E j \in DOMAIN rx'[e.ch] : IsReply(rx'[e.ch][j], e)
      <4>. HIDE DEF e
      <4>1. n # 1
        BY <1>0, <2>1, <2>3, <3>1, ReadTakesHead
      <4>2. n - 1 \in DOMAIN rx'[e.ch] /\ rx'[e.ch][n - 1] = rx[e.ch][n]
        BY <1>0, <2>1, <3>1, <4>1, ReadTakesHead
      <4>. QED
        BY <3>1, <4>2
    <3>2. \A m : Coming(m, e) => Coming(m, e)'
      BY <1>0, <2>1, <2>3, <3>1 DEF Coming, IsReply
    <3>. QED
      BY <1>0, <2>1, <2>3, <3>2, CountIdle
  <2>. QED
    BY <1>3, <2>2, <2>3 DEF Await
<1>4. CASE Pause
  <2>1. where = "pause" /\ UNCHANGED <<up, ok>> /\ (UNCHANGED faults \/ Fault) /\ Probed = 1 .. k
    BY <1>4 DEF Pause, Probed
  <2>2. CASE k < Len(Map) /\ Goto("probe", k + 1, 1, 0)
    <3>1. where' = "probe" /\ attempt' = 1 /\ k' = k + 1 /\ Probed' = 1 .. (k + 1) - 1
      BY <2>2 DEF Goto, Probed
    <3>2. (k + 1) - 1 = k /\ faults' >= 0 /\ faults' \in Nat /\ faults' >= faults
      BY <1>0, <2>1, FaultsGrow
    <3>3. \A x : Due(x)' <=> Due(x)
      BY <1>0, <2>1 DEF Due, Exists, MotorsAt
    <3>. QED
      BY <1>0, <2>1, <3>1, <3>2, <3>3 DEF CountInv, CountedInv, AttemptInv, WaitInv
  <2>3. CASE ~(k < Len(Map)) /\ Goto("scan", 0, 1, 0)
    <3>1. where' = "scan" /\ Probed' = 1 .. Len(Map)
      BY <2>3 DEF Goto, Probed
    <3>2. k = Len(Map)
      BY <1>0, <2>1, <2>3
    <3>. QED
      BY <1>0, <2>1, <3>1, <3>2, CountElsewhere
  <2>. QED
    BY <1>4, <2>2, <2>3 DEF Pause
<1>5. CASE Scan \/ Hear \/ HearExpires
  <2>1. /\ where \in {"scan", "hear"} /\ where' \in {"scan", "hear", "exit"} /\ UNCHANGED <<up, ok>>
        /\ UNCHANGED faults \/ Fault
    BY <1>5 DEF Scan, Hear, HearExpires, Ask, AskRefused, HostFails, NextScanId, NextScanChannel, Goto, busVars
  <2>2. Probed' = Probed
    BY <2>1 DEF Probed
  <2>. QED
    BY <1>0, <2>1, <2>2, CountElsewhere
<1>6. CASE AwaitExpires
  <2>1. where = "await" /\ UNCHANGED <<up, inbox, rx>> /\ (UNCHANGED faults \/ Fault)
    BY <1>6 DEF AwaitExpires
  <2>2. CASE stage < NumParams /\ Goto("probe", k, attempt, stage + 1) /\ UNCHANGED ok
    <3>1. where' = "probe" /\ k' = k /\ attempt' = attempt /\ Probed' = Probed
      BY <2>1, <2>2 DEF Goto, Probed
    <3>2. \A x : Due(x)' <=> Due(x)
      BY <1>0, <2>1 DEF Due, Exists, MotorsAt
    <3>3. faults' \in Nat /\ faults' >= faults
      BY <2>1, FaultsGrow
    <3>. QED
      BY <1>0, <2>1, <2>2, <3>1, <3>2, <3>3 DEF CountInv, CountedInv, AttemptInv, WaitInv
  <2>3. CASE ~(stage < NumParams) /\ NextAttempt
    <3>1. ASSUME Due(Map[k]) PROVE faults' >= attempt
      <4>1. PICK m \in MotorsAt(Map[k].ch, Map[k].id) : TRUE
        BY <3>1 DEF Due, Exists
      <4>2. m \in Motors /\ Chan[m] = Map[k].ch
        BY <4>1 DEF MotorsAt
      <4>3. stage >= 1
        BY <1>0, <2>1, <2>3, ProbeConstants DEF ProbeTypeOK
      <4>4. faults >= attempt \/ Coming(m, Map[k])
        BY <2>1, <4>1, <4>3 DEF CountInv, WaitInv
      <4>5. rx[Map[k].ch] = <<>> /\ (Answered(Map[k].ch) \/ Fault)
        BY <1>6 DEF AwaitExpires
      <4>6. Coming(m, Map[k]) => Fault
        <5>1. DOMAIN <<>> = {}
          OBVIOUS
        <5>. QED
          BY <4>2, <4>5, <5>1 DEF Coming, Answered
      <4>7. faults >= attempt - 1
        BY <2>1, <3>1 DEF CountInv, AttemptInv
      <4>. QED
        BY <1>0, <2>1, <4>4, <4>6, <4>7, FaultsGrow
    <3>. QED
      BY <1>0, <2>1, <2>3, <3>1, NextAttemptCounts
  <2>. QED
    BY <1>6, <2>2, <2>3 DEF AwaitExpires
<1>7. CASE /\ UNCHANGED probeVars
           /\ (\E m \in Motors : Obey(m)) \/ (\E c \in Channels : OtherTraffic(c))
  <2>1. UNCHANGED faults \/ Fault
    BY <1>7, ObeyAsked DEF OtherTraffic
  <2>2. where = "await" => \A m \in MotorsAt(Map[k].ch, Map[k].id) :
                             Coming(m, Map[k]) => Fault \/ Coming(m, Map[k])'
    <3>1. ASSUME NEW e, e.ch \in Channels, NEW m \in MotorsAt(e.ch, e.id), Coming(m, e)
          PROVE  Fault \/ Coming(m, e)'
      <4>1. m \in Motors
        BY <3>1 DEF MotorsAt
      <4>. QED
        BY <1>7, <3>1, <4>1, ComingStays
    <3>2. where = "await" => Map[k].ch \in Channels /\ k' = k
      BY <1>0, <1>7 DEF probeVars
    <3>3. where = "await" => \A m \in MotorsAt(Map[k].ch, Map[k].id) : Coming(m, Map[k]) =>
            Fault \/ \A e : e = Map[k] => Coming(m, e)'
      BY <3>1, <3>2
    <3>. QED
      BY <3>2, <3>3 DEF Coming
  <2>. QED
    BY <1>0, <1>7, <2>1, <2>2, CountIdle DEF probeVars
<1>8. CASE UNCHANGED <<busVars, probeVars>>
  BY <1>0, <1>8, CountIdle DEF busVars, probeVars, Coming
<1>. QED
  BY <1>0, <1>1, <1>2, <1>3, <1>4, <1>5, <1>6, <1>7, <1>8, StepKinds DEF ProbeStep, Expires

(***************************************************************************)
(* Only motors that are there are counted, and every motor that is there,  *)
(* as long as there are fewer faults than attempts.                        *)
(***************************************************************************)
THEOREM CountsAreRight == ProbeSpec => []CountIsRight
<1>1. BusInit /\ ProbeInit => CountInv
  BY DEF ProbeInit, CountInv, CountedInv, AttemptInv, WaitInv, Probed
<1>2. Typed /\ CountInv => CountIsRight
  <2>. SUFFICES ASSUME Typed, CountInv PROVE CountIsRight
    OBVIOUS
  <2>1. \A j \in ok : MotorsAt(Map[j].ch, Map[j].id) # {}
    BY DEF Typed, TruthInv, Exists
  <2>2. faults \in Nat /\ ProbeRetries \in Nat
    BY ProbeConstants DEF Typed, BusType
  <2>. QED
    BY <2>1, <2>2 DEF CountInv, CountedInv, CountIsRight, Due, Exists
<1>. QED
  BY <1>1, <1>2, InitTyped, TruthStep, CountStep, PTL DEF ProbeSpec

-----------------------------------------------------------------------------
(***************************************************************************)
(* The scan, as long as there was no fault and no id is shared: a question *)
(* that a motor has to answer, or its answer, is one to the last id.       *)
(***************************************************************************)
Mine(m) == {n \in DOMAIN inbox[m] : inbox[m][n].to = id[m]}

NoneMine == \A m \in Motors : Mine(m) = {}

Heard(m) == \E h \in hits : h[1] = Chan[m] /\ h[3] = id[m]

Scannable(m) == Chan[m] \in up /\ id[m] <= ScanMax

\* The motors whose turn in the scan is over, up to id s of channel c.
PastInv(c, s) ==
  \A m \in Motors : Scannable(m) /\ (Chan[m] < c \/ (Chan[m] = c /\ id[m] < s)) => Heard(m)

QuestionInv ==
  \A m \in Motors : \A n \in Mine(m) :
    Chan[m] = k /\ id[m] = stage /\ inbox[m][n].kind = "GET_ID" /\ Mine(m) = {n}

AnswerInv ==
  /\ \A m \in Motors : Chan[m] = k /\ id[m] = stage =>
       Mine(m) # {} \/ \E n \in DOMAIN rx[k] : rx[k][n].kind = "GET_ID"
  /\ \A n \in DOMAIN rx[k] : rx[k][n].kind = "GET_ID" => rx[k][n].from = stage /\ NoneMine

ScanInv ==
  /\ where = "scan" => NoneMine
  /\ where \in {"scan", "hear"} => PastInv(k, stage)
  /\ where = "hear" => k \in up /\ QuestionInv /\ AnswerInv
  /\ where = "exit" => \A m \in Motors : Scannable(m) => Heard(m)

Calm == faults = 0 /\ UniqueIds

\* The scan goes on when the motor with the last id was heard, or nobody has it.
LEMMA NextScanInv ==
  ASSUME Typed, where \in {"scan", "hear"}, PastInv(k, stage), NoneMine,
         UNCHANGED <<id, inbox, up>>, hits \subseteq hits',
         \/ NextScanChannel /\ k \notin up
         \/ NextScanId /\ \A m \in Motors : Chan[m] = k /\ id[m] = stage => Heard(m)'
  PROVE  ScanInv'
<1>a. id \in [Motors -> Ids] /\ Chan \in [Motors -> Channels] /\ Ids \subseteq Nat
  BY BusConstants DEF Typed, BusType
<1>b. Channels = 0 .. NumChannels - 1 /\ NumChannels \in Nat
  BY BusConstants DEF Channels
<1>c. \A m \in Motors : id[m] \in Nat /\ Chan[m] \in 0 .. NumChannels - 1
  BY <1>a, <1>b
<1>d. k \in 0 .. NumChannels - 1 /\ stage \in 0 .. ScanMax /\ ScanMax \in Nat
  BY <1>b, ProbeConstants DEF Typed, ProbeTypeOK
<1>0. /\ \A m \in Motors : id[m] \in Nat /\ Chan[m] \in 0 .. NumChannels - 1
      /\ k \in 0 .. NumChannels - 1 /\ stage \in 0 .. ScanMax /\ ScanMax \in Nat
      /\ Channels = 0 .. NumChannels - 1 /\ NumChannels \in Nat
  BY <1>b, <1>c, <1>d
<1>1. NoneMine' /\ \A m \in Motors : (Heard(m) => Heard(m)') /\ (Scannable(m)' <=> Scannable(m))
  BY DEF NoneMine, Mine, Heard, Scannable
<1>2. CASE NextScanId /\ stage < ScanMax
  <2>1. where' = "scan" /\ k' = k /\ stage' = stage + 1
    BY <1>2 DEF NextScanId, Goto
  <2>2. \A m \in Motors : id[m] < stage + 1 => id[m] < stage \/ id[m] = stage
    BY <1>0
  <2>3. PastInv(k, stage)'
    BY <1>0, <1>1, <1>2, <2>1, <2>2 DEF PastInv, NextScanId, NextScanChannel, Goto
  <2>. QED
    BY <1>1, <2>1, <2>3 DEF ScanInv
<1>3. CASE NextScanChannel
  <2>1. ASSUME NEW m \in Motors, Scannable(m), Chan[m] <= k PROVE Heard(m)'
    <3>1. Chan[m] < k \/ (Chan[m] = k /\ (id[m] < stage \/ id[m] = stage \/ id[m] > stage))
      BY <1>0, <2>1
    <3>2. k \notin up => Chan[m] # k
      BY <2>1 DEF Scannable
    <3>3. k \in up => stage = ScanMax /\ (Chan[m] = k /\ id[m] = stage => Heard(m)')
      BY <1>0, <1>3 DEF NextScanId, NextScanChannel, Goto
    <3>. QED
      BY <1>0, <1>1, <2>1, <3>1, <3>2, <3>3 DEF PastInv, Scannable
  <2>2. CASE k + 1 \in Channels /\ Goto("scan", k + 1, 1, 0)
    <3>1. where' = "scan" /\ k' = k + 1 /\ stage' = 0
      BY <2>2 DEF Goto
    <3>2. \A m \in Motors : ~(id[m] < 0) /\ (Chan[m] < k + 1 => Chan[m] <= k)
      BY <1>0
    <3>3. PastInv(k, stage)'
      BY <1>1, <2>1, <3>1, <3>2 DEF PastInv
    <3>. QED
      BY <1>1, <3>1, <3>3 DEF ScanInv
  <2>3. CASE k + 1 \notin Channels /\ Goto("exit", k, 1, 0)
    <3>1. where' = "exit" /\ \A m \in Motors : Chan[m] <= k
      BY <1>0, <2>3 DEF Goto
    <3>. QED
      BY <1>1, <2>1, <3>1 DEF ScanInv
  <2>. QED
    BY <1>3, <2>2, <2>3 DEF NextScanChannel
<1>. QED
  BY <1>2, <1>3 DEF NextScanId

\* A question goes to the motor with that id, and to no other.
LEMMA AskScan ==
  ASSUME Typed, NoneMine, PastInv(k, stage), k \in Channels, k \in up, stage \in Ids,
         Write(k, Frame("GET_ID", stage)), rx' = [rx EXCEPT ![k] = <<>>],
         Goto("hear", k, 1, stage), UNCHANGED <<id, up, hits>>
  PROVE  ScanInv'
<1>0. BusType /\ where' = "hear" /\ k' = k /\ stage' = stage /\ rx'[k] = <<>>
  BY DEF Typed, BusType, Goto
<1>. DEFINE f == Frame("GET_ID", stage)
<1>1. f \in Frames /\ f.kind = "GET_ID" /\ f.to = stage
  BY FrameType DEF Kinds
<1>. HIDE DEF f
<1>2. ASSUME NEW m \in Motors
      PROVE  /\ Mine(m)' = IF Chan[m] = k /\ id[m] = stage THEN {Len(inbox[m]) + 1} ELSE {}
             /\ Chan[m] = k => inbox'[m][Len(inbox[m]) + 1].kind = "GET_ID"
  <2>1. /\ Len(inbox[m]) \in Nat /\ DOMAIN inbox[m] = 1 .. Len(inbox[m])
        /\ Chan[m] # k => inbox'[m] = inbox[m]
        /\ Chan[m] = k => /\ DOMAIN inbox'[m] = 1 .. Len(inbox[m]) + 1
                          /\ inbox'[m][Len(inbox[m]) + 1] = f
                          /\ \A j \in 1 .. Len(inbox[m]) : inbox'[m][j] = inbox[m][j]
    BY <1>0, <1>1, WriteArrives DEF f
  <2>2. \A j \in 1 .. Len(inbox[m]) : inbox[m][j].to # id[m]
    BY <2>1 DEF NoneMine, Mine
  <2>. QED
    BY <1>1, <2>1, <2>2 DEF Mine
<1>3. QuestionInv' /\ k' \in up'
  BY <1>0, <1>2 DEF QuestionInv
<1>4. AnswerInv'
  <2>1. DOMAIN <<>> = {}
    OBVIOUS
  <2>2. \A m \in Motors : Chan[m] = k /\ id[m] = stage => Mine(m)' # {}
    BY <1>2
  <2>. QED
    BY <1>0, <2>1, <2>2 DEF AnswerInv
<1>5. PastInv(k, stage)'
  BY <1>0 DEF PastInv, Scannable, Heard
<1>. QED
  BY <1>0, <1>3, <1>4, <1>5 DEF ScanInv

\* The frames a motor still has to answer, after one was taken.
LEMMA MineShifts ==
  ASSUME Typed, NEW x \in Motors, Obey(x), NEW m \in Motors
  PROVE  /\ m # x => inbox'[m] = inbox[m] /\ Mine(m)' = Mine(m)
         /\ m = x => \A n \in Mine(m)' : /\ n \in Nat /\ n + 1 \in Mine(m) /\ n + 1 # 1
                                        /\ inbox'[m][n] = inbox[m][n + 1]
         /\ m = x => \A n \in Mine(m) : n # 1 => n - 1 \in Mine(m)'
<1>0. BusType /\ UNCHANGED id
  BY ObeyAsked DEF Typed
<1>1. m # x => inbox'[m] = inbox[m]
  BY <1>0, ObeyStep
<1>2. CASE m = x
  <2>1. /\ Len(inbox[m]) \in Nat \ {0} /\ DOMAIN inbox[m] = 1 .. Len(inbox[m])
        /\ DOMAIN inbox'[m] = 1 .. Len(inbox[m]) - 1
        /\ \A j \in 1 .. Len(inbox[m]) - 1 : inbox'[m][j] = inbox[m][j + 1]
    BY <1>0, <1>2, TailShifts
  <2>2. ASSUME NEW n \in Mine(m)'
        PROVE  n \in Nat /\ n + 1 \in Mine(m) /\ n + 1 # 1 /\ inbox'[m][n] = inbox[m][n + 1]
    <3>1. n \in 1 .. Len(inbox[m]) - 1 /\ inbox'[m][n].to = id[m]
      BY <1>0, <2>1, <2>2 DEF Mine
    <3>2. n \in Nat /\ n + 1 # 1 /\ n + 1 \in 1 .. Len(inbox[m])
      BY <2>1, <3>1
    <3>. QED
      BY <2>1, <3>1, <3>2 DEF Mine
  <2>3. ASSUME NEW n \in Mine(m), n # 1 PROVE n - 1 \in Mine(m)'
    <3>1. n \in 1 .. Len(inbox[m]) /\ inbox[m][n].to = id[m]
      BY <2>1, <2>3 DEF Mine
    <3>2. n - 1 \in 1 .. Len(inbox[m]) - 1 /\ (n - 1) + 1 = n
      BY <2>1, <2>3, <3>1
    <3>3. inbox'[m][n - 1] = inbox[m][n]
      BY <2>1, <3>2
    <3>. QED
      BY <1>0, <2>1, <3>1, <3>2, <3>3 DEF Mine
  <2>. QED
    BY <1>2, <2>2, <2>3
<1>. QED
  BY <1>0, <1>1, <1>2 DEF Mine

LEMMA ObeyScan ==
  ASSUME Typed, Calm, ScanInv, NEW x \in Motors, Obey(x), ~Fault, UNCHANGED probeVars
  PROVE  ScanInv'
<1>0. /\ BusType /\ UNCHANGED <<id, where, k, stage, up, hits>>
      /\ where \in {"scan", "hear"} => k \in Channels
      /\ Chan[x] \in Channels
  BY ObeyAsked, BusConstants DEF probeVars, Typed, ProbeTypeOK
<1>1. NoneMine => NoneMine'
  BY MineShifts DEF NoneMine
<1>2. PastInv(k, stage) => PastInv(k, stage)'
  BY <1>0 DEF PastInv, Scannable, Heard
<1>3. ASSUME where = "hear" PROVE QuestionInv' /\ AnswerInv'
  <2>0. k \in Channels /\ QuestionInv /\ AnswerInv
    BY <1>0, <1>3 DEF ScanInv
  <2>1. QuestionInv'
    <3>1. ASSUME NEW m \in Motors, NEW n \in Mine(m)'
          PROVE  Chan[m] = k /\ id[m] = stage /\ inbox'[m][n].kind = "GET_ID" /\ Mine(m)' = {n}
      <4>1. CASE m # x
        BY <2>0, <3>1, <4>1, MineShifts DEF QuestionInv
      <4>2. CASE m = x
        <5>1. n \in Nat /\ n + 1 \in Mine(m) /\ inbox'[m][n] = inbox[m][n + 1]
          BY <3>1, <4>2, MineShifts
        <5>2. Chan[m] = k /\ id[m] = stage /\ inbox[m][n + 1].kind = "GET_ID" /\ Mine(m) = {n + 1}
          BY <2>0, <5>1 DEF QuestionInv
        <5>3. ASSUME NEW j \in Mine(m)' PROVE j = n
          <6>1. j \in Nat /\ j + 1 \in Mine(m)
            BY <4>2, <5>3, MineShifts
          <6>. QED
            BY <5>1, <5>2, <6>1
        <5>. QED
          BY <3>1, <5>1, <5>2, <5>3
      <4>. QED
        BY <4>1, <4>2
    <3>. QED
      BY <1>0, <3>1 DEF QuestionInv
  <2>. DEFINE f == inbox[x][1]
              r == Answer(x, f)
  <2>2. /\ UNCHANGED rx \/ (f.to = id[x] /\ rx' = [rx EXCEPT ![Chan[x]] = Append(@, r)])
        /\ f.to = id[x] => rx' = [rx EXCEPT ![Chan[x]] = Append(@, r)]
    BY <1>3, ObeyAsked
  <2>3. f.to = id[x] => 1 \in Mine(x)
    BY <1>0, ObeyStep DEF Mine
  <2>4. f.kind = "GET_ID" => r.kind = "GET_ID" /\ r.from = id[x]
    BY DEF Answer
  <2>5. \A n \in DOMAIN rx[k] : n \in DOMAIN rx'[k] /\ rx'[k][n] = rx[k][n]
    <3>. HIDE DEF r, f
    <3>. QED
      BY <1>0, <2>0, <2>2, ArrivalKeeps
  <2>6. ASSUME NEW m \in Motors, Chan[m] = k, id[m] = stage
        PROVE  Mine(m)' # {} \/ \E n \in DOMAIN rx'[k] : rx'[k][n].kind = "GET_ID"
    <3>1. CASE \E n \in DOMAIN rx[k] : rx[k][n].kind = "GET_ID"
      BY <2>5, <3>1
    <3>2. ASSUME NEW n \in Mine(m), m # x \/ n # 1 PROVE Mine(m)' # {}
      BY <3>2, MineShifts
    <3>3. ASSUME 1 \in Mine(m), m = x PROVE \E n \in DOMAIN rx'[k] : rx'[k][n].kind = "GET_ID"
      <4>1. f.kind = "GET_ID" /\ f.to = id[x]
        BY <2>0, <3>3 DEF QuestionInv, Mine
      <4>2. rx' = [rx EXCEPT ![k] = Append(@, r)] /\ r.kind = "GET_ID"
        BY <2>2, <2>4, <2>6, <3>3, <4>1
      <4>. HIDE DEF r, f
      <4>3. \E n \in DOMAIN rx'[k] : rx'[k][n] = r
        BY <1>0, <2>0, <4>2, ArrivalKeeps
      <4>. QED
        BY <4>2, <4>3
    <3>. QED
      BY <2>0, <2>6, <3>1, <3>2, <3>3 DEF AnswerInv
  <2>7. ASSUME NEW n \in DOMAIN rx'[k], rx'[k][n].kind = "GET_ID"
        PROVE  rx'[k][n].from = stage /\ NoneMine'
    <3>1. CASE n \in DOMAIN rx[k] /\ rx'[k][n] = rx[k][n]
      BY <1>1, <2>0, <2>7, <3>1 DEF AnswerInv
    <3>2. CASE f.to = id[x] /\ rx'[k][n] = r
      <4>1. /\ 1 \in Mine(x) /\ Chan[x] = k /\ id[x] = stage /\ Mine(x) = {1}
            /\ f.kind = "GET_ID"
        BY <2>0, <2>3, <3>2 DEF QuestionInv
      <4>2. rx'[k][n].from = stage
        BY <2>4, <3>2, <4>1
      <4>3. ASSUME NEW m \in Motors, NEW j \in Mine(m)' PROVE FALSE
        <5>1. CASE m = x
          BY <4>1, <4>3, <5>1, MineShifts
        <5>2. CASE m # x
          <6>1. j \in Mine(m)
            BY <4>3, <5>2, MineShifts
          <6>2. Chan[m] = Chan[x] /\ id[m] = id[x]
            BY <2>0, <4>1, <6>1 DEF QuestionInv
          <6>. QED
            BY <5>2, <6>2 DEF Calm, UniqueIds
        <5>. QED
          BY <5>1, <5>2
      <4>. QED
        BY <4>2, <4>3 DEF NoneMine
    <3>3. (n \in DOMAIN rx[k] /\ rx'[k][n] = rx[k][n]) \/ (f.to = id[x] /\ rx'[k][n] = r)
      <4>. HIDE DEF r, f
      <4>. QED
        BY <1>0, <2>0, <2>2, <2>7, ArrivalAppends
    <3>. QED
      BY <3>1, <3>2, <3>3
  <2>. HIDE DEF r, f
  <2>. QED
    BY <1>0, <2>1, <2>6, <2>7 DEF AnswerInv
<1>. QED
  BY <1>0, <1>1, <1>2, <1>3 DEF ScanInv, Scannable, Heard

\* A frame of others is no answer to GET_ID.
LEMMA TrafficScan ==
  ASSUME Typed, ScanInv, NEW d \in Channels, OtherTraffic(d), UNCHANGED probeVars
  PROVE  ScanInv'
<1>0. /\ BusType /\ UNCHANGED <<id, inbox, where, k, stage, up, hits>>
      /\ where \in {"scan", "hear"} => k \in Channels
  BY DEF probeVars, Typed, ProbeTypeOK, OtherTraffic, motorVars
<1>1. PICK r : r.kind # "GET_ID" /\ rx' = [rx EXCEPT ![d] = Append(@, r)]
  BY DEF OtherTraffic, Standard, Report
<1>2. (NoneMine' <=> NoneMine) /\ (QuestionInv' <=> QuestionInv)
  BY <1>0 DEF NoneMine, QuestionInv, Mine
<1>3. PastInv(k, stage)' <=> PastInv(k, stage)
  BY <1>0 DEF PastInv, Scannable, Heard
<1>4. ASSUME where = "hear", AnswerInv PROVE AnswerInv'
  <2>1. k \in Channels /\ \A m \in Motors : Mine(m)' = Mine(m)
    BY <1>0, <1>4 DEF Mine
  <2>2. \A n \in DOMAIN rx[k] : n \in DOMAIN rx'[k] /\ rx'[k][n] = rx[k][n]
    BY <1>0, <1>1, <2>1, ArrivalKeeps
  <2>3. \A n \in DOMAIN rx'[k] : (n \in DOMAIN rx[k] /\ rx'[k][n] = rx[k][n]) \/ rx'[k][n] = r
    BY <1>0, <1>1, <2>1, ArrivalAppends
  <2>. QED
    BY <1>0, <1>1, <1>2, <1>4, <2>1, <2>2, <2>3 DEF AnswerInv
<1>. QED
  BY <1>0, <1>2, <1>3, <1>4 DEF ScanInv, Scannable, Heard

\* A frame was read.
LEMMA HearScan ==
  ASSUME Typed, ScanInv, Hear
  PROVE  ScanInv'
<1>0. /\ BusType /\ UNCHANGED <<id, inbox, up>> /\ where = "hear" /\ k \in Channels
      /\ rx[k] # <<>> /\ rx' = [rx EXCEPT ![k] = Tail(@)]
  BY DEF Typed, ProbeTypeOK, Hear, motorVars
<1>1. QuestionInv /\ AnswerInv /\ PastInv(k, stage) /\ k \in up
  BY <1>0 DEF ScanInv
<1>. DEFINE f == Head(rx[k])
<1>2. f = rx[k][1] /\ 1 \in DOMAIN rx[k]
  BY <1>0, ReadTakesHead
<1>3. CASE f.kind = "GET_ID"
  <2>1. hits' = hits \cup {<<k, stage, f.from>>} /\ NextScanId
    BY <1>3 DEF Hear
  <2>2. f.from = stage /\ NoneMine
    BY <1>1, <1>2, <1>3 DEF AnswerInv
  <2>. HIDE DEF f
  <2>3. \A m \in Motors : Chan[m] = k /\ id[m] = stage => Heard(m)'
    <3>1. <<k, stage, stage>> \in hits'
      BY <2>1, <2>2
    <3>2. <<k, stage, stage>>[1] = k /\ <<k, stage, stage>>[3] = stage
      OBVIOUS
    <3>. QED
      BY <1>0, <3>1, <3>2 DEF Heard
  <2>. QED
    BY <1>0, <1>1, <2>1, <2>2, <2>3, NextScanInv
<1>4. CASE f.kind # "GET_ID"
  <2>1. UNCHANGED <<where, k, stage, hits>>
    BY <1>4 DEF Hear
  <2>2. rx[k][1].kind # "GET_ID"
    BY <1>2, <1>4
  <2>3. \A m \in Motors : Mine(m)' = Mine(m)
    BY <1>0 DEF Mine
  <2>4. \A n \in DOMAIN rx[k] : rx[k][n].kind = "GET_ID" =>
          n - 1 \in DOMAIN rx'[k] /\ rx'[k][n - 1] = rx[k][n]
    BY <1>0, <2>2, ReadTakesHead
  <2>5. \A n \in DOMAIN rx'[k] : \E j \in DOMAIN rx[k] : rx'[k][n] = rx[k][j]
    BY <1>0, ReadTakesHead
  <2>6. AnswerInv'
    <3>1. ASSUME NEW m \in Motors, Chan[m] = k, id[m] = stage
          PROVE  Mine(m) # {} \/ \E n \in DOMAIN rx'[k] : rx'[k][n].kind = "GET_ID"
      BY <1>1, <2>4, <3>1 DEF AnswerInv
    <3>2. ASSUME NEW n \in DOMAIN rx'[k], rx'[k][n].kind = "GET_ID"
          PROVE  rx'[k][n].from = stage /\ NoneMine
      BY <1>1, <2>5, <3>2 DEF AnswerInv
    <3>. QED
      BY <1>0, <2>1, <2>3, <3>1, <3>2 DEF AnswerInv, NoneMine
  <2>7. QuestionInv' /\ PastInv(k, stage)'
    BY <1>0, <1>1, <2>1, <2>3 DEF QuestionInv, PastInv, Scannable, Heard
  <2>. QED
    BY <1>0, <1>1, <2>1, <2>6, <2>7 DEF ScanInv
<1>. QED
  BY <1>3, <1>4

\* The steps that only the scan has.
LEMMA AskOrGiveUpScan ==
  ASSUME Typed, ScanInv, Scan \/ HearExpires, ~Fault
  PROVE  ScanInv'
<1>0. /\ BusType /\ UNCHANGED <<id, up, hits>> /\ where \in {"scan", "hear"} /\ k \in Channels
      /\ stage \in Ids
  BY BusConstants, ProbeConstants
     DEF Typed, ProbeTypeOK, Scan, HearExpires, Ask, AskRefused, motorVars, busVars
<1>1. PastInv(k, stage)
  BY <1>0 DEF ScanInv
<1>2. CASE Scan
  <2>0. where = "scan" /\ NoneMine
    BY <1>2 DEF Scan, ScanInv
  <2>1. CASE k \in up /\ Ask(k, "GET_ID", stage, TRUE) /\ Goto("hear", k, 1, stage)
    <3>1. rx' = [rx EXCEPT ![k] = <<>>] /\ Write(k, Frame("GET_ID", stage))
      BY <2>1 DEF Ask
    <3>. QED
      BY <1>0, <1>1, <2>0, <2>1, <3>1, AskScan
  <2>2. ~AskRefused(k, "GET_ID", TRUE)
    BY DEF AskRefused, HostFails
  <2>3. CASE k \notin up /\ NextScanChannel /\ UNCHANGED busVars
    <3>1. UNCHANGED inbox
      BY <2>3 DEF busVars
    <3>. QED
      BY <1>0, <1>1, <2>0, <2>3, <3>1, NextScanInv
  <2>. QED
    BY <1>2, <2>1, <2>2, <2>3 DEF Scan
<1>3. CASE HearExpires
  <2>1. /\ where = "hear" /\ rx[k] = <<>> /\ Answered(k) /\ NextScanId
        /\ UNCHANGED inbox /\ QuestionInv /\ AnswerInv
    BY <1>3 DEF HearExpires, ScanInv
  <2>2. \A m \in Motors : Chan[m] = k => Mine(m) = {}
    <3>1. \A m \in Motors : Chan[m] = k => inbox[m] = <<>>
      BY <2>1 DEF Answered
    <3>2. DOMAIN <<>> = {}
      OBVIOUS
    <3>. QED
      BY <3>1, <3>2 DEF Mine
  <2>3. NoneMine
    BY <2>1, <2>2 DEF NoneMine, QuestionInv
  <2>4. \A m \in Motors : ~(Chan[m] = k /\ id[m] = stage)
    <3>1. DOMAIN rx[k] = {}
      BY <2>1
    <3>. QED
      BY <2>1, <2>2, <3>1 DEF AnswerInv
  <2>. QED
    BY <1>0, <1>1, <2>1, <2>3, <2>4, NextScanInv
<1>. QED
  BY <1>2, <1>3

\* The scan begins when every motor has answered what it was asked before.
LEMMA PauseScan ==
  ASSUME Typed, Pause, ~Fault
  PROVE  ScanInv'
<1>1. /\ \A m \in Motors : inbox[m] = <<>>
      /\ UNCHANGED <<id, inbox, up, hits>>
      /\ \/ where' = "probe"
         \/ where' = "scan" /\ k' = 0 /\ stage' = 0
  BY DEF Pause, Goto, motorVars
<1>2. NoneMine'
  <2>1. DOMAIN <<>> = {}
    OBVIOUS
  <2>. QED
    BY <1>1, <2>1 DEF NoneMine, Mine
<1>3. ASSUME NEW m \in Motors PROVE ~(Chan[m] < 0) /\ ~(id[m] < 0)
  <2>1. Ids \subseteq Nat /\ id \in [Motors -> Ids] /\ Chan \in [Motors -> Channels]
    BY BusConstants DEF Typed, BusType
  <2>2. Channels \subseteq Nat
    BY BusConstants DEF Channels
  <2>3. Chan[m] \in Nat /\ id[m] \in Nat
    BY <2>1, <2>2
  <2>. QED
    BY <2>3
<1>4. k' = 0 /\ stage' = 0 => PastInv(k, stage)'
  BY <1>1, <1>3 DEF PastInv
<1>. QED
  BY <1>1, <1>2, <1>4 DEF ScanInv

LEMMA ScanStep ==
  Typed /\ (Calm => ScanInv) /\ [ProbeNext]_<<busVars, probeVars>> => (Calm => ScanInv)'
<1>. SUFFICES ASSUME Typed, Calm => ScanInv, [ProbeNext]_<<busVars, probeVars>>, Calm'
              PROVE  ScanInv'
  OBVIOUS
<1>1. BusType /\ ProbeTypeOK /\ UNCHANGED id
  BY IdsStay DEF Typed
<1>2. UNCHANGED faults \/ Fault
  <2>1. \A m \in Motors : Obey(m) => UNCHANGED faults \/ Fault
    BY ObeyAsked
  <2>. QED
    BY <1>1, <2>1, StepKinds DEF ProbeOnBus, OtherTraffic, busVars
<1>3. Calm /\ ~Fault
  BY <1>1, <1>2, FaultsGrow DEF Calm, UniqueIds
<1>4. CASE OpenChannel \/ Probe \/ Await \/ AwaitExpires
  <2>1. where' \in {"init", "probe", "await", "pause"}
    BY <1>4 DEF OpenChannel, Probe, Await, AwaitExpires, NextEntry, NextAttempt, Goto
  <2>. QED
    BY <2>1 DEF ScanInv
<1>5. CASE Pause \/ Scan \/ Hear \/ HearExpires
  BY <1>3, <1>5, PauseScan, AskOrGiveUpScan, HearScan
<1>6. CASE \E m \in Motors : Obey(m) /\ UNCHANGED probeVars
  BY <1>3, <1>6, ObeyScan
<1>7. CASE \E c \in Channels : OtherTraffic(c) /\ UNCHANGED probeVars
  BY <1>3, <1>7, TrafficScan
<1>8. CASE UNCHANGED <<busVars, probeVars>>
  BY <1>3, <1>8 DEF busVars, motorVars, probeVars, ScanInv, NoneMine, Mine, PastInv, Scannable, Heard,
     QuestionInv, AnswerInv
<1>. QED
  BY <1>1, <1>4, <1>5, <1>6, <1>7, <1>8, StepKinds DEF ProbeStep, Expires

(***************************************************************************)
(* The scan (scan_channel_ids()) reports no id that no motor has, and,     *)
(* without a fault and with unique ids, every id of every open channel: a  *)
(* question that is asked is answered before the next one is asked.        *)
(***************************************************************************)
THEOREM ScansAreRight == ProbeSpec => []ScanIsRight
<1>1. ProbeInit => ScanInv
  BY DEF ProbeInit, ScanInv
<1>2. Typed /\ (Calm => ScanInv) => ScanIsRight
  BY DEF Typed, TruthInv, Calm, ScanInv, ScanIsRight, Scannable, Heard
<1>. QED
  BY <1>1, <1>2, InitTyped, TruthStep, ScanStep, PTL DEF ProbeSpec
=============================================================================
