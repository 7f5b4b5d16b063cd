---------------------------- MODULE MotorConfig ----------------------------
(***************************************************************************)
(* motor_config (src/apps/motor_config.cpp): one run of the tool, with one *)
(* command.  It is a single thread; what makes it hard is that it tells    *)
(* replies apart by their type and the id they come from alone, and waits  *)
(* for each of them only so long.                                          *)
(***************************************************************************)
EXTENDS MotorBus

CONSTANTS
  Retries,      \* --retries
  MaxDrain      \* frames drain() reads at most: 256

ASSUME ToolAssumption == {Retries, MaxDrain} \subseteq Nat \ {0}

VARIABLES
  cmd,          \* the command line
  at,           \* where the tool is
  step,         \* what it asks for there
  ch,           \* the channel its CanBus has open
  target,       \* the id it asks
  try,          \* attempt
  seen,         \* old_device
  found,        \* the devices it has printed
  result        \* how the command ended

placeVars == <<at, step, target, try>>
toolVars == <<placeVars, ch, seen, found, result>>
vars == <<busVars, cmd, toolVars>>

None == "none"

\* get_device() returns no device, or one.
ASSUME NoneAssumption == None \notin Motors

\* The command lines main() accepts; scan takes one channel, or all of them.
Commands ==
  {c \in [name : {"scan", "get", "set-id", "set-zero"}, dry : BOOLEAN,
          all : BOOLEAN, ch : Channels, a : Ids, b : Ids] :
     /\ c.name = "scan" => c.a <= c.b /\ (c.all => c.ch = 0)
     /\ c.name = "set-id" => c.a # c.b
     /\ c.name \in {"get", "set-zero"} => c.b = c.a
     /\ c.name # "scan" => ~c.all}

Init ==
  /\ BusInit
  /\ cmd \in Commands
  /\ at = "open" /\ step = cmd.name /\ target = cmd.a /\ try = 1
  /\ ch = cmd.ch
  /\ seen = None
  /\ found = {}
  /\ result = None

Go(a, s, i, t) == at' = a /\ step' = s /\ target' = i /\ try' = t

Finish(r) ==
  /\ at' = "done"
  /\ result' = r
  /\ UNCHANGED <<step, target, try>>

(***************************************************************************)
(* CanBus::drain(): reads until the queue is empty.  A frame that is not   *)
(* extended makes receive() go on to the condition of its loop, which with *)
(* a timeout of 0 is false: drain() ends there, whatever is behind.        *)
(***************************************************************************)
EndsAfter(q, n) ==
  /\ \A k \in 1 .. n - 1 : q[k] # Standard /\ k < MaxDrain
  /\ n = Len(q) \/ n = MaxDrain \/ (n > 0 /\ q[n] = Standard)

Drained ==
  \E n \in 0 .. Len(rx[ch]) :
    /\ EndsAfter(rx[ch], n)
    /\ rx' = [rx EXCEPT ![ch] = SubSeq(@, n + 1, Len(@))]

\* drain(), which an error of read() ends at once.
Drain == (Drained /\ UNCHANGED faults) \/ (Fault /\ UNCHANGED rx)

\* Faulty: a dry run sends the frames it prints.
SendAnyway(f) ==
  /\ Drain /\ Write(ch, f)
  /\ UNCHANGED <<motorVars, missed, cmd>>

\* Each command is sent behind a drain(); a dry run only prints it.
Send(f) ==
  /\ IF cmd.dry THEN UNCHANGED <<rx, inbox, faults>> ELSE Drain /\ Write(ch, f)
  /\ UNCHANGED <<motorVars, missed, cmd>>

\* CAN_Write() fails.
Refused(kind) ==
  /\ ~cmd.dry
  /\ HostFails(kind)
  /\ Drained
  /\ UNCHANGED <<motorVars, inbox, cmd>>

-----------------------------------------------------------------------------
(***************************************************************************)
(* get_device(): GET_ID up to Retries times.  Returned(dev) is what each   *)
(* command does with the result, None if nobody answered.                  *)
(***************************************************************************)
NextChannel(all) ==
  IF cmd.all /\ ch + 1 \in Channels
  THEN /\ ch' = ch + 1
       /\ Go("open", step, cmd.a, 1)
       /\ UNCHANGED result
  ELSE /\ Finish(IF all = {} /\ ~cmd.dry THEN "absent" ELSE "ok")
       /\ UNCHANGED ch

Scanned(dev) ==
  /\ step = "scan"
  /\ found' = IF dev = None THEN found ELSE found \cup {<<ch, target, dev>>}
  /\ IF target < cmd.b
     THEN Go("query", step, target + 1, 1) /\ UNCHANGED <<ch, result>>
     ELSE NextChannel(found')
  /\ UNCHANGED seen

Got(dev) ==
  /\ step = "get"
  /\ Finish(IF dev = None THEN "absent" ELSE "ok")
  /\ found' = IF dev = None THEN found ELSE {<<ch, target, dev>>}
  /\ UNCHANGED <<ch, seen>>

OldChecked(dev) ==
  /\ step = "set-id"
  /\ IF dev = None THEN Finish("absent") ELSE Go("query", "new", cmd.b, 1) /\ UNCHANGED result
  /\ seen' = dev
  /\ UNCHANGED <<ch, found>>

\* Faulty: a motor that answers at the new id is no obstacle.
NewUnchecked(dev) ==
  /\ step = "new"
  /\ Go("confirm", step, target, 1)
  /\ UNCHANGED <<ch, seen, found, result>>

NewChecked(dev) ==
  /\ step = "new"
  /\ IF dev = None THEN Go("confirm", step, target, 1) /\ UNCHANGED result ELSE Finish("in use")
  /\ UNCHANGED <<ch, seen, found>>

\* Faulty: whoever answers at the new id will do.
VerifiedById(dev) ==
  /\ step = "verify"
  /\ Finish(IF dev = None THEN "unverified" ELSE "ok")
  /\ UNCHANGED <<ch, seen, found>>

Verified(dev) ==
  /\ step = "verify"
  /\ Finish(IF dev = None THEN "unverified" ELSE IF dev # seen THEN "collision" ELSE "ok")
  /\ UNCHANGED <<ch, seen, found>>

Identified(dev) ==
  /\ step = "set-zero"
  /\ IF dev = None THEN Finish("absent") ELSE Go("read", "before", cmd.a, 1) /\ UNCHANGED result
  /\ UNCHANGED <<ch, seen, found>>

Returned(dev) ==
  \/ Scanned(dev) \/ Got(dev)
  \/ OldChecked(dev) \/ NewChecked(dev) \/ Verified(dev)
  \/ Identified(dev)

\* PcanChannel's constructor throws: scan goes on, main() returns 2.
Open ==
  /\ at = "open"
  /\ \/ /\ at' = IF cmd.name \in {"set-id", "set-zero"} /\ cmd.dry THEN "confirm" ELSE "query"
        /\ UNCHANGED <<step, target, try, ch, result, faults, missed>>
     \/ /\ ~cmd.dry
        /\ HostFails("OPEN")
        /\ IF step = "scan" THEN NextChannel(found) ELSE Finish("error") /\ UNCHANGED ch
  /\ UNCHANGED <<motorVars, inbox, rx, cmd, seen, found>>

Query ==
  /\ at = "query"
  /\ \/ /\ Send(Frame("GET_ID", target))
        /\ IF cmd.dry
           THEN IF step = "scan" THEN NextChannel(found) ELSE Finish("ok") /\ UNCHANGED ch
           ELSE Go("reply", step, target, try) /\ UNCHANGED <<ch, result>>
        /\ UNCHANGED <<seen, found>>
     \/ Refused("GET_ID") /\ Returned(None)

\* Faulty: the id a reply comes from is not compared.
ExpectsAny(f) ==
  \/ at = "reply" /\ f.kind = "GET_ID"
  \/ at = "ack"   /\ f.kind = "FEEDBACK" /\ f.dest = "host"
  \/ at = "value" /\ f.kind = "PARAM_READ" /\ f.dest = "host"

\* What the predicate of the wait_for() under way accepts.
Expects(f) ==
  \/ at = "reply" /\ f.kind = "GET_ID" /\ f.from = target
  \/ at = "ack"   /\ f.kind = "FEEDBACK" /\ f.from = target /\ f.dest = "host"
  \/ at = "value" /\ f.kind = "PARAM_READ" /\ f.from = target /\ f.dest = "host"

\* read_mechanical_position() returned: before confirmation it is only shown.
Shown ==
  /\ step = "before"
  /\ Go("confirm", step, target, 1)
  /\ UNCHANGED <<ch, seen, found, result>>

ReadBack(p) ==
  /\ step = "after"
  /\ IF p # None THEN Finish(IF p = "far" THEN "off zero" ELSE "verified")
     ELSE IF try < 3 THEN Go("read", step, target, try + 1) /\ UNCHANGED result
     ELSE Finish("acknowledged")
  /\ UNCHANGED <<ch, seen, found>>

\* The frame that was waited for.
Accept(f) ==
  \/ at = "reply" /\ Returned(f.uid)
  \/ at = "ack" /\ Go("read", "after", target, 1) /\ UNCHANGED <<ch, seen, found, result>>
  \/ at = "value" /\ (Shown \/ ReadBack(f.pos))

\* Faulty: one attempt too many.
GiveUpLate ==
  \/ /\ at = "reply"
     /\ \/ /\ try <= Retries
           /\ Go("query", step, target, try + 1)
           /\ UNCHANGED <<ch, seen, found, result>>
        \/ try > Retries /\ Returned(None)
  \/ at = "ack" /\ Finish("unacknowledged") /\ UNCHANGED <<ch, seen, found>>
  \/ at = "value" /\ (Shown \/ ReadBack(None))

\* Faulty: asks again until it is answered.
GiveUpNever ==
  \/ /\ at = "reply"
     /\ Go("query", step, target, try)
     /\ UNCHANGED <<ch, seen, found, result>>
  \/ at = "ack" /\ Finish("unacknowledged") /\ UNCHANGED <<ch, seen, found>>
  \/ at = "value" /\ (Shown \/ ReadBack(None))

GiveUp ==
  \/ /\ at = "reply"
     /\ \/ /\ try < Retries
           /\ Go("query", step, target, try + 1)
           /\ UNCHANGED <<ch, seen, found, result>>
        \/ try >= Retries /\ Returned(None)
  \/ at = "ack" /\ Finish("unacknowledged") /\ UNCHANGED <<ch, seen, found>>
  \/ at = "value" /\ (Shown \/ ReadBack(None))

\* receive() takes a frame for wait_for().
Receive ==
  /\ at \in {"reply", "ack", "value"}
  /\ rx[ch] # <<>>
  /\ rx' = [rx EXCEPT ![ch] = Tail(@)]
  /\ LET f == Head(rx[ch])
     IN IF Expects(f) THEN Accept(f) ELSE UNCHANGED toolVars
  /\ UNCHANGED <<motorVars, inbox, faults, missed, cmd>>

\* The deadline passes; while an answer is still to come that is a fault.
Expire ==
  /\ at \in {"reply", "ack", "value"}
  /\ (Answered(ch) /\ UNCHANGED faults) \/ Fault
  /\ GiveUp
  /\ UNCHANGED <<motorVars, inbox, rx, missed, cmd>>

\* confirm_destructive(): --yes or a dry run, or what the operator types.
Confirm ==
  /\ at = "confirm"
  /\ \/ Go("stop", cmd.name, cmd.a, 1) /\ UNCHANGED result
     \/ ~cmd.dry /\ Finish("cancelled")
  /\ UNCHANGED <<busVars, cmd, ch, seen, found>>

\* Faulty: no STOP before the change.
StopForgotten ==
  /\ at = "stop"
  /\ Go("set", step, target, try)
  /\ UNCHANGED <<busVars, cmd, ch, seen, found, result>>

SendStop ==
  /\ at = "stop"
  /\ \/ Send(Frame("STOP", cmd.a)) /\ Go("set", step, target, try) /\ UNCHANGED result
     \/ Refused("STOP") /\ Finish("not sent")
  /\ UNCHANGED <<ch, seen, found>>

\* Faulty: the position is read back without waiting for the acknowledgement.
ReadAtOnce == Go("read", "after", target, 1)

\* The wait_for() of set-zero's acknowledgement comes next.
AwaitAck == Go("ack", step, target, 1)

\* Faulty: behind the change the new id is checked as it was before it.
SetThenCheck ==
  /\ at = "set"
  /\ \/ /\ cmd.name = "set-id"
        /\ Send([kind |-> "SET_CAN_ID", to |-> cmd.a, arg |-> cmd.b])
        /\ IF cmd.dry THEN Finish("ok") ELSE Go("query", "new", cmd.b, 1) /\ UNCHANGED result
     \/ /\ cmd.name = "set-zero"
        /\ Send(Frame("SET_ZERO", cmd.a))
        /\ IF cmd.dry THEN Finish("ok") ELSE AwaitAck /\ UNCHANGED result
     \/ Refused(IF cmd.name = "set-id" THEN "SET_CAN_ID" ELSE "SET_ZERO") /\ Finish("not sent")
  /\ UNCHANGED <<ch, seen, found>>

\* send_set_id() or send_set_zero(), and what is waited for next.
Set ==
  /\ at = "set"
  /\ \/ /\ cmd.name = "set-id"
        /\ Send([kind |-> "SET_CAN_ID", to |-> cmd.a, arg |-> cmd.b])
        /\ IF cmd.dry THEN Finish("ok") ELSE Go("query", "verify", cmd.b, 1) /\ UNCHANGED result
     \/ /\ cmd.name = "set-zero"
        /\ Send(Frame("SET_ZERO", cmd.a))
        /\ IF cmd.dry THEN Finish("ok") ELSE AwaitAck /\ UNCHANGED result
     \/ Refused(IF cmd.name = "set-id" THEN "SET_CAN_ID" ELSE "SET_ZERO") /\ Finish("not sent")
  /\ UNCHANGED <<ch, seen, found>>

Read ==
  /\ at = "read"
  /\ \/ /\ Send(Frame("PARAM_READ", target))
        /\ Go("value", step, target, try)
        /\ UNCHANGED <<ch, seen, found, result>>
     \/ Refused("PARAM_READ") /\ (Shown \/ ReadBack(None))

ToolStep == Open \/ Query \/ Receive \/ SendStop \/ Set \/ Read

Closed == IF at \in {"open", "done"} THEN Channels ELSE {}

Next ==
  \/ ToolStep
  \/ Expire
  \/ Confirm
  \/ BusStep({ch} \ Closed) /\ UNCHANGED <<cmd, toolVars>>

(***************************************************************************)
(* The tool runs, each wait has its deadline, and the motors come to the   *)
(* frames of their channel.  The operator need not answer the question.    *)
(***************************************************************************)
Fairness ==
  /\ WF_vars(ToolStep)
  /\ WF_vars(Expire)
  /\ \A m \in Motors : WF_vars(Obey(m) /\ UNCHANGED <<cmd, toolVars>>)

Spec == Init /\ [][Next]_vars /\ Fairness

-----------------------------------------------------------------------------
ConfigTypeOK ==
  /\ BusType
  /\ cmd \in Commands
  /\ at \in {"open", "query", "reply", "confirm", "stop", "set", "ack", "read", "value", "done"}
  /\ step \in {"scan", "get", "set-id", "new", "verify", "set-zero", "before", "after"}
  /\ ch \in Channels
  /\ target \in Ids
  /\ try \in Nat \ {0}
  /\ at # "done" => try <= IF at \in {"query", "reply"} THEN Retries ELSE 3
  /\ seen \in Motors \cup {None}
  /\ found \subseteq Channels \X Ids \X Motors
  /\ result \in {None, "ok", "absent", "in use", "cancelled", "not sent", "unverified", "collision",
                 "unacknowledged", "off zero", "verified", "acknowledged", "error"}

(***************************************************************************)
(* "Stop first so an ID maintenance operation cannot leave an enabled      *)
(* motor moving" (line 506): a motor that gets another id or another zero  *)
(* is at rest, unless the STOP did not reach it.                           *)
(***************************************************************************)
ActsAtRest ==
  [][\A m \in Motors :
       (id'[m] # id[m] \/ pos'[m] # pos[m]) => (~run[m] \/ <<m, "STOP">> \in missed)]_vars

\* How a command ends that was given up before its change was sent.
Refusals == {"absent", "in use", "cancelled", "not sent", "error"}

(***************************************************************************)
(* "no change made" (lines 486, 491 and 549), "Cancelled." and --dry-run,  *)
(* "Print PCAN channel and frames without sending": a motor gets the id or *)
(* the zero that the command line names, on its channel, and none is still *)
(* to change when the tool has given the command up.                       *)
(***************************************************************************)
ChangesAsTold ==
  [][\A m \in Motors :
       id'[m] # id[m] \/ pos'[m] # pos[m] =>
         /\ ~cmd.dry /\ result \notin Refusals
         /\ Chan[m] = cmd.ch /\ id[m] = cmd.a
         /\ \/ cmd.name = "set-id" /\ id'[m] = cmd.b /\ pos'[m] = pos[m]
            \/ cmd.name = "set-zero" /\ id'[m] = id[m]]_vars

(***************************************************************************)
(* "is already in use; no change made": the motor that set-id identified   *)
(* has its old id when the command was given up, and keeps it.             *)
(***************************************************************************)
NoChangeMade ==
  cmd.name = "set-id" /\ seen # None /\ result \in Refusals => id[seen] = cmd.a

(***************************************************************************)
(* "requires its MCU UID to match the original device": when set-id says   *)
(* that the id was changed, the motor that was identified has the new id,  *)
(* whatever was late or lost, and even if ids were shared.                 *)
(***************************************************************************)
ChangeIsReal ==
  cmd.name = "set-id" /\ result = "ok" /\ ~cmd.dry => id[seen] = cmd.b

(***************************************************************************)
(* "verifies that the old ID responds and the new ID is unused": when      *)
(* set-id sends the change, no motor of the channel has the new id, if     *)
(* fewer frames and answers were lost or late than there are attempts ...  *)
(***************************************************************************)
NewIdIsUnused ==
  cmd.name = "set-id" /\ at = "set" /\ ~cmd.dry /\ faults < Retries =>
    MotorsAt(ch, cmd.b) = {}

(***************************************************************************)
(* ... and CAN_Write() did not fail: get_device() reports an id it could   *)
(* not ask (line 228) like one that did not answer.                        *)
(***************************************************************************)
NewIdIsUnusedIfAsked == HostFailed \/ NewIdIsUnused

(***************************************************************************)
(* "Mechanical zero set and verified": the read-back is no answer to the   *)
(* read before, and no STOP's feedback passes for a zero that was set: the *)
(* motor's zero was set, or it did not obey SET_ZERO and its position had  *)
(* been near zero.                                                         *)
(***************************************************************************)
VerifiedIsZero ==
  result = "verified" /\ UniqueIds =>
    \A m \in MotorsAt(ch, target) :
      pos[m] = "zero" \/ (pos[m] = "near" /\ <<m, "SET_ZERO">> \in missed)

\* The motors that scan and get ought to find on the channels they ask.
Present ==
  {<<Chan[m], id[m], m>> : m \in {n \in Motors : id[n] \in cmd.a .. cmd.b
                                                 /\ (cmd.all \/ Chan[n] = cmd.ch)}}

(***************************************************************************)
(* scan and get print no motor at an id it does not have, and with fewer   *)
(* faults than attempts they miss none, late answers to earlier ids or     *)
(* not.                                                                    *)
(***************************************************************************)
FoundIsPresent ==
  /\ found \subseteq Present
  /\ /\ at = "done" /\ ~cmd.dry /\ cmd.name \in {"scan", "get"}
     /\ UniqueIds /\ faults < Retries /\ ~HostFailed
     => found = Present

\* Whatever the bus carries, the command ends, or waits for the operator.
ToolEnds == <>(at = "done") \/ <>[](at = "confirm")
=============================================================================
