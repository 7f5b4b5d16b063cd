--------------------------- MODULE TestConnection ---------------------------
(***************************************************************************)
(* test_connection (src/apps/test_connection.cpp): opens the channels,     *)
(* probes each motor of MOTOR_MAP and asks each channel for its ids.       *)
(***************************************************************************)
EXTENDS MotorBus

CONSTANTS
  Map,          \* MOTOR_MAP: a sequence of [ch, id]
  ProbeRetries, \* PROBE_RETRIES
  NumParams,    \* PROBE_PARAMS: how many parameters are read
  ScanMax       \* SCAN_ID_MAX; SCAN_ID_MIN is 0

ASSUME ProbeAssumption ==
  /\ Map \in Seq([ch : Channels, id : Ids]) \ {<<>>}
  /\ {ProbeRetries, NumParams} \subseteq Nat \ {0}
  /\ ScanMax \in Nat /\ 0 .. ScanMax \subseteq Ids

VARIABLES
  where,        \* where main() is
  k,            \* its channel, or entry of Map
  attempt,      \* attempt of probe_motor()
  stage,        \* 0: GET_ID, then the parameters; in the scan: requested_id
  up,           \* channel_ok
  ok,           \* the entries ok_count counts
  hits          \* printed by the scan: <<channel, requested id, reported id>>

probeVars == <<where, k, attempt, stage, up, ok, hits>>

ProbeInit ==
  /\ where = "init" /\ k = 0 /\ attempt = 1 /\ stage = 0
  /\ up = {}
  /\ ok = {}
  /\ hits = {}

Goto(w, n, t, s) == where' = w /\ k' = n /\ attempt' = t /\ stage' = s

OpenChannel ==
  /\ where = "init"
  /\ \/ up' = up \cup {k} /\ UNCHANGED <<faults, missed>>
     \/ HostFails("OPEN") /\ UNCHANGED up
  /\ IF k + 1 \in Channels THEN Goto("init", k + 1, 1, 0) ELSE Goto("probe", 1, 1, 0)
  /\ UNCHANGED <<motorVars, inbox, rx, ok, hits>>

NextEntry(responded) ==
  /\ ok' = IF responded THEN ok \cup {k} ELSE ok
  /\ Goto("pause", k, 1, 0)

\* Faulty: one attempt too many.
AttemptTooMany ==
  IF attempt <= ProbeRetries
  THEN Goto("probe", k, attempt + 1, 0) /\ UNCHANGED ok
  ELSE NextEntry(FALSE)

\* Faulty: attempts are not counted.
AttemptForever == Goto("probe", k, attempt, 0) /\ UNCHANGED ok

NextAttempt ==
  IF attempt < ProbeRetries
  THEN Goto("probe", k, attempt + 1, 0) /\ UNCHANGED ok
  ELSE NextEntry(FALSE)

\* drain_rx_queue(), which an error of read() ends at once; then CAN_Write().
Ask(c, kind, i, drain) ==
  /\ \/ rx' = [rx EXCEPT ![c] = IF drain THEN <<>> ELSE @] /\ UNCHANGED faults
     \/ drain /\ Fault /\ UNCHANGED rx
  /\ Write(c, Frame(kind, i))
  /\ UNCHANGED <<motorVars, missed>>

AskRefused(c, kind, drain) ==
  /\ HostFails(kind)
  /\ rx' = [rx EXCEPT ![c] = IF drain THEN <<>> ELSE @]
  /\ UNCHANGED <<motorVars, inbox>>

(***************************************************************************)
(* probe_motor(): the queue is drained once per attempt, before GET_ID.    *)
(* A write that fails ends the attempt.                                    *)
(***************************************************************************)
Probe ==
  LET e == Map[k]
      kind == IF stage = 0 THEN "GET_ID" ELSE "PARAM_READ"
  IN /\ where = "probe"
     /\ \/ /\ e.ch \in up
           /\ Ask(e.ch, kind, e.id, stage = 0)
           /\ Goto("await", k, attempt, stage)
           /\ UNCHANGED ok
        \/ e.ch \in up /\ AskRefused(e.ch, kind, stage = 0) /\ NextAttempt
        \/ e.ch \notin up /\ NextEntry(FALSE) /\ UNCHANGED busVars
     /\ UNCHANGED <<up, hits>>

\* The 2 ms between two motors; an answer that takes longer is late: a fault.
Pause ==
  /\ where = "pause"
  /\ ((\A m \in Motors : inbox[m] = <<>>) /\ UNCHANGED faults) \/ Fault
  /\ IF k < Len(Map) THEN Goto("probe", k + 1, 1, 0) ELSE Goto("scan", 0, 1, 0)
  /\ UNCHANGED <<motorVars, inbox, rx, missed, up, ok, hits>>

\* is_reply_for_motor(): of whatever type, but to the host.
IsReply(f, e) == f # Standard /\ f.dest = "host" /\ f.from = e.id

\* wait_for_reply(): reads on as long as there are frames ...
Await ==
  LET e == Map[k]
  IN /\ where = "await"
     /\ rx[e.ch] # <<>>
     /\ rx' = [rx EXCEPT ![e.ch] = Tail(@)]
     /\ IF IsReply(Head(rx[e.ch]), e) THEN NextEntry(TRUE)
        ELSE UNCHANGED <<where, k, attempt, stage, ok>>
     /\ UNCHANGED <<motorVars, inbox, faults, missed, up, hits>>

\* Faulty: the parameters are not tried.
AwaitGivesUp ==
  LET c == Map[k].ch
  IN /\ where = "await"
     /\ rx[c] = <<>>
     /\ (Answered(c) /\ UNCHANGED faults) \/ Fault
     /\ NextAttempt
     /\ UNCHANGED <<motorVars, inbox, rx, missed, up, hits>>

\* ... and looks at the time when there are none.
AwaitExpires ==
  LET c == Map[k].ch
  IN /\ where = "await"
     /\ rx[c] = <<>>
     /\ (Answered(c) /\ UNCHANGED faults) \/ Fault
     /\ IF stage < NumParams THEN Goto("probe", k, attempt, stage + 1) /\ UNCHANGED ok
        ELSE NextAttempt
     /\ UNCHANGED <<motorVars, inbox, rx, missed, up, hits>>

(***************************************************************************)
(* scan_channel_ids(): takes any answer to GET_ID for the answer to the    *)
(* last one.                                                               *)
(***************************************************************************)
NextScanChannel ==
  IF k + 1 \in Channels THEN Goto("scan", k + 1, 1, 0) ELSE Goto("exit", k, 1, 0)

\* Faulty: the last id is left out.
NextScanIdShort ==
  IF stage + 1 < ScanMax THEN Goto("scan", k, 1, stage + 1) ELSE NextScanChannel

NextScanId ==
  IF stage < ScanMax THEN Goto("scan", k, 1, stage + 1) ELSE NextScanChannel

Scan ==
  /\ where = "scan"
  /\ \/ k \in up /\ Ask(k, "GET_ID", stage, TRUE) /\ Goto("hear", k, 1, stage)
     \/ k \in up /\ AskRefused(k, "GET_ID", TRUE) /\ NextScanId
     \/ k \notin up /\ NextScanChannel /\ UNCHANGED busVars
  /\ UNCHANGED <<up, ok, hits>>

Hear ==
  /\ where = "hear"
  /\ rx[k] # <<>>
  /\ rx' = [rx EXCEPT ![k] = Tail(@)]
  /\ LET f == Head(rx[k])
     IN IF f.kind = "GET_ID" THEN hits' = hits \cup {<<k, stage, f.from>>} /\ NextScanId
        ELSE UNCHANGED <<where, k, attempt, stage, hits>>
  /\ UNCHANGED <<motorVars, inbox, faults, missed, up, ok>>

HearExpires ==
  /\ where = "hear"
  /\ rx[k] = <<>>
  /\ (Answered(k) /\ UNCHANGED faults) \/ Fault
  /\ NextScanId
  /\ UNCHANGED <<motorVars, inbox, rx, missed, up, ok, hits>>

ProbeStep == OpenChannel \/ Probe \/ Await \/ Pause \/ Scan \/ Hear

Expires == AwaitExpires \/ HearExpires

ProbeNext ==
  \/ ProbeStep
  \/ Expires
  \/ BusStep(IF where = "exit" THEN {} ELSE up) /\ UNCHANGED probeVars

ProbeSpec == BusInit /\ ProbeInit /\ [][ProbeNext]_<<busVars, probeVars>>

-----------------------------------------------------------------------------
ProbeTypeOK ==
  /\ where \in {"init", "probe", "await", "pause", "scan", "hear", "exit"}
  /\ k \in IF where \in {"probe", "await", "pause"} THEN 1 .. Len(Map) ELSE Channels
  /\ attempt \in 1 .. ProbeRetries
  /\ stage \in 0 .. (IF where \in {"probe", "await"} THEN NumParams ELSE ScanMax)
  /\ up \subseteq Channels
  /\ ok \subseteq 1 .. Len(Map)
  /\ hits \subseteq Channels \X Ids \X Ids

\* The entries whose probe is over.
Probed == IF where = "init" THEN {}
          ELSE IF where \in {"probe", "await"} THEN 1 .. k - 1
          ELSE IF where = "pause" THEN 1 .. k ELSE 1 .. Len(Map)

(***************************************************************************)
(* A motor is counted as connected only if there is one with its id on its *)
(* channel, and, with fewer faults than attempts, whenever there is one:   *)
(* also if it answers GET_ID to 0xFE, which the probe does not take for an *)
(* answer, and if its answers come late.                                   *)
(***************************************************************************)
CountIsRight ==
  /\ \A j \in ok : MotorsAt(Map[j].ch, Map[j].id) # {}
  /\ faults < ProbeRetries =>
       \A j \in Probed :
         Map[j].ch \in up /\ MotorsAt(Map[j].ch, Map[j].id) # {} => j \in ok

(***************************************************************************)
(* The scan reports every id that is in use and no other, as long as       *)
(* nothing is late, lost or shared; by which request it reports an id is   *)
(* another matter.                                                         *)
(***************************************************************************)
ScanIsRight ==
  /\ \A h \in hits : MotorsAt(h[1], h[3]) # {}
  /\ where = "exit" /\ UniqueIds /\ faults = 0 =>
       \A m \in Motors : Chan[m] \in up /\ id[m] <= ScanMax =>
         \E h \in hits : h[1] = Chan[m] /\ h[3] = id[m]

(***************************************************************************)
(* The program ends, although its inner loops read on as long as there are *)
(* frames.                                                                 *)
(***************************************************************************)
ProbeEnds == (where = "init") ~> (where = "exit")
=============================================================================
