----------------------------- MODULE PositionRead -----------------------------
(***************************************************************************)
(* apps/position_read.cpp: a program of one thread that finds the motors   *)
(* on the channels, shows their positions, and enables and holds or stops  *)
(* the one the operator selects.                                           *)
(*                                                                         *)
(* Outside src/: the operator, signals, the driver's queues, the bus and   *)
(* the motors.  A disabled motor is turned by hand.  A motor answers every *)
(* frame: a request with its position of that moment, any other frame with *)
(* feedback, which says where it is as far as it is within the MIT range.  *)
(***************************************************************************)
EXTENDS Integers, Sequences, FiniteSetsExt

CONSTANTS
  Order,        \* all the motors, by channel and CAN id
  Chan,         \* per motor, its channel
  NumChannels,  \* NUM_CHANNELS
  Positions,    \* positions of a motor
  MitRange,     \* those from P_MIN to P_MAX
  PollEvery,    \* OFF_POLL_DIVIDER
  TxCap,        \* frames the transmit queue of a channel holds
  RxCap,        \* frames its receive queue holds
  DrainMax      \* frames drain_and_process() reads at most: 256

Motors == {Order[k] : k \in DOMAIN Order}

Channels == 0 .. NumChannels - 1

ASSUME PositionAssumption ==
  /\ Order \in Seq(Motors)
  /\ NumChannels \in Nat \ {0}
  /\ Chan \in [Motors -> Channels]
  /\ MitRange \subseteq Positions /\ MitRange # {}
  /\ {PollEvery, TxCap, RxCap, DrainMax} \subseteq Nat \ {0}

VARIABLES
  running,      \* g_running
  at,           \* where the program is
  i,            \* the loop index of the loop it is in
  asking,       \* refresh_position_sync() is called by "initial" or "on"
  found,        \* motors: those that answered the scan, in order
  selected,     \* selected
  tick,         \* tick, modulo PollEvery
  cursor,       \* poll_cursors
  enabled,      \* MotorState::enabled
  shown,        \* MotorState::position_rad, or Unknown
  hold,         \* MotorState::hold_position_rad, or Unknown
  tx, rx,       \* the queues of each channel
  pos,          \* motor: its position
  drive,        \* motor: "run" once enabled, "reset" once stopped
  target,       \* motor: the position it was commanded since its last STOP
  adrift        \* history: motors whose last STOP was refused where the
                \* program does not look

placeVars == <<at, i, asking>>
listVars  == <<found, selected, tick, cursor>>
stateVars == <<enabled, shown, hold>>
motorVars == <<pos, drive, target>>
vars == <<running, placeVars, listVars, stateVars, tx, rx, motorVars, adrift>>

Unknown == "unknown"

N == Len(found)

Chosen == IF asking = "initial" THEN found[i] ELSE found[selected + 1]

\* Motors of the list from index k on that are ON.
OnFrom(k) == {j \in k .. N : enabled[found[j]]}

Go(place, index) == at' = place /\ i' = index

\* while (g_running)
Round == IF running THEN Go("key", 1) ELSE Go("stopall", 1)

-----------------------------------------------------------------------------
Init ==
  /\ running = TRUE
  /\ at = "scan" /\ i = 1 /\ asking = "initial"
  /\ found = <<>> /\ selected = 0 /\ tick = 0
  /\ cursor = [c \in Channels |-> 0]
  /\ enabled = [m \in Motors |-> FALSE]
  /\ shown = [m \in Motors |-> Unknown]
  /\ hold = [m \in Motors |-> Unknown]
  /\ tx = [c \in Channels |-> <<>>]
  /\ rx = [c \in Channels |-> <<>>]
  /\ pos \in [Motors -> Positions]
  /\ drive = [m \in Motors |-> "reset"]
  /\ target = [m \in Motors |-> Unknown]
  /\ adrift = {}

\* PcanChannel::write_extended(), with the two results it may have.
Written(kind, m, p) ==
  /\ Len(tx[Chan[m]]) < TxCap
  /\ tx' = [tx EXCEPT ![Chan[m]] = Append(@, [kind |-> kind, motor |-> m, pos |-> p])]

Refused(m) == Len(tx[Chan[m]]) >= TxCap /\ UNCHANGED tx

\* stop(false), taken by the queue.
Stopped(m) == Written("STOP", m, Unknown) /\ adrift' = adrift \ {m}

\* stop(false) where its result is ignored.
StopUnchecked(m) == Stopped(m) \/ (Refused(m) /\ adrift' = adrift \cup {m})

(***************************************************************************)
(* scan_channels(): GET_ID to every id, after a drain; an answer that is   *)
(* late is drained or does not match.  A channel that cannot be opened has *)
(* no answers.  A signal cuts the scan short.                              *)
(***************************************************************************)
Scan ==
  /\ at = "scan"
  /\ IF running /\ i <= Len(Order)
     THEN Go("scan", i + 1) /\ found' \in {found, Append(found, Order[i])}
     ELSE Go("initial", 1) /\ UNCHANGED found
  /\ UNCHANGED <<running, asking, selected, tick, cursor, stateVars, tx, rx,
                 motorVars, adrift>>

\* refresh_initial_positions(): results are ignored.  Then the GUI opens.
Initial ==
  /\ at = "initial"
  /\ IF running /\ i <= N THEN Go("ask", i) ELSE Round
  /\ UNCHANGED <<running, asking, listVars, stateVars, tx, rx, motorVars, adrift>>

-----------------------------------------------------------------------------
(***************************************************************************)
(* refresh_position_sync() of the motor Chosen.                            *)
(***************************************************************************)
Failed == IF asking = "initial" THEN Go("initial", i + 1) ELSE Go("hold", 1)

Ask ==
  /\ at = "ask"
  /\ \/ Written("READ", Chosen, Unknown) /\ Go("wait", i)
     \/ Refused(Chosen) /\ Failed
  /\ UNCHANGED <<running, asking, listVars, stateVars, rx, motorVars, adrift>>

\* Faulty: the range of the position is not tested.
AnsweredAnyRange(p) ==
  IF asking = "initial" THEN Go("initial", i + 1) /\ UNCHANGED hold
  ELSE Go("stop", i) /\ hold' = [hold EXCEPT ![Chosen] = p]

\* enable_selected_motor() refuses a position outside of the MIT range.
Answered(p) ==
  IF asking = "initial" THEN Go("initial", i + 1) /\ UNCHANGED hold
  ELSE IF p \in MitRange
  THEN Go("stop", i) /\ hold' = [hold EXCEPT ![Chosen] = p]
  ELSE Go("hold", 1) /\ UNCHANGED hold

\* Faulty: the answer of another motor ends the wait.
WaitFrameAny ==
  LET c == Chan[Chosen]
      f == Head(rx[c])
  IN /\ at = "wait"
     /\ rx[c] # <<>>
     /\ rx' = [rx EXCEPT ![c] = Tail(@)]
     /\ shown' = [shown EXCEPT ![f.motor] = f.pos]
     /\ Answered(f.pos)
     /\ UNCHANGED <<running, asking, listVars, enabled, tx, motorVars, adrift>>

\* Any answer of the motor will do, one to an earlier frame too.
WaitFrame ==
  LET c == Chan[Chosen]
      f == Head(rx[c])
  IN /\ at = "wait"
     /\ rx[c] # <<>>
     /\ rx' = [rx EXCEPT ![c] = Tail(@)]
     /\ shown' = [shown EXCEPT ![f.motor] = f.pos]
     /\ IF f.motor = Chosen THEN Answered(f.pos) ELSE UNCHANGED <<at, i, hold>>
     /\ UNCHANGED <<running, asking, listVars, enabled, tx, motorVars, adrift>>

\* Faulty: the deadline is looked at after a frame only.
WaitForever ==
  /\ at = "wait"
  /\ rx[Chan[Chosen]] # <<>>
  /\ Failed
  /\ UNCHANGED <<running, asking, listVars, stateVars, tx, rx, motorVars, adrift>>

\* The deadline passes, or read() fails.
WaitEnds ==
  /\ at = "wait"
  /\ Failed
  /\ UNCHANGED <<running, asking, listVars, stateVars, tx, rx, motorVars, adrift>>

-----------------------------------------------------------------------------
(***************************************************************************)
(* enable_selected_motor() after the refresh, and disable_selected_motor().*)
(***************************************************************************)
EnableStop ==
  /\ at = "stop"
  /\ \/ Stopped(Chosen) /\ Go("mode", i)
     \/ Refused(Chosen) /\ Go("hold", 1) /\ UNCHANGED adrift
  /\ UNCHANGED <<running, asking, listVars, stateVars, rx, motorVars>>

EnableMode ==
  /\ at = "mode"
  /\ \/ Written("MODE", Chosen, Unknown) /\ Go("prime", i)
     \/ Refused(Chosen) /\ Go("hold", 1)
  /\ UNCHANGED <<running, asking, listVars, stateVars, rx, motorVars, adrift>>

EnablePrime ==
  /\ at = "prime"
  /\ \/ Written("MIT", Chosen, hold[Chosen]) /\ Go("enable", i)
     \/ Refused(Chosen) /\ Go("undo", i)
  /\ UNCHANGED <<running, asking, listVars, stateVars, rx, motorVars, adrift>>

Enable ==
  /\ at = "enable"
  /\ \/ /\ Written("ENABLE", Chosen, Unknown)
        /\ enabled' = [enabled EXCEPT ![Chosen] = TRUE]
        /\ Go("hold", 1)
     \/ Refused(Chosen) /\ Go("undo", i) /\ UNCHANGED enabled
  /\ UNCHANGED <<running, asking, listVars, shown, hold, rx, motorVars, adrift>>

EnableUndo ==
  /\ at = "undo"
  /\ StopUnchecked(Chosen)
  /\ Go("hold", 1)
  /\ UNCHANGED <<running, asking, listVars, stateVars, rx, motorVars>>

\* Faulty: the motor is shown OFF although its STOP was refused.
DisableAnyway ==
  /\ at = "disable"
  /\ Stopped(Chosen) \/ (Refused(Chosen) /\ UNCHANGED adrift)
  /\ enabled' = [enabled EXCEPT ![Chosen] = FALSE]
  /\ Go("hold", 1)
  /\ UNCHANGED <<running, asking, listVars, shown, hold, rx, motorVars>>

Disable ==
  /\ at = "disable"
  /\ \/ Stopped(Chosen) /\ enabled' = [enabled EXCEPT ![Chosen] = FALSE]
     \/ Refused(Chosen) /\ UNCHANGED <<enabled, adrift>>
  /\ Go("hold", 1)
  /\ UNCHANGED <<running, asking, listVars, shown, hold, rx, motorVars>>

-----------------------------------------------------------------------------
(***************************************************************************)
(* The loop of main(), one round every 20 ms: a key, hold, poll, drain.    *)
(***************************************************************************)
\* An exception, in the constructor of the GUI or later: stop_all(), and the
\* error is reported.  g_running is not read any more.
Throws ==
  /\ at = "key"
  /\ running' = FALSE
  /\ Go("stopall", 1)
  /\ UNCHANGED <<asking, listVars, stateVars, tx, rx, motorVars, adrift>>

NoKey ==
  /\ at = "key"
  /\ Go("hold", 1)
  /\ UNCHANGED <<running, asking, listVars, stateVars, tx, rx, motorVars, adrift>>

Quit ==
  /\ at = "key"
  /\ running' = FALSE
  /\ Go("hold", 1)
  /\ UNCHANGED <<asking, listVars, stateVars, tx, rx, motorVars, adrift>>

\* Faulty: the selection does not come round at the end of the list.
DownTooFar ==
  /\ at = "key" /\ N > 0
  /\ selected' = selected + 1
  /\ Go("hold", 1)
  /\ UNCHANGED <<running, asking, found, tick, cursor, stateVars, tx, rx, motorVars, adrift>>

Down ==
  /\ at = "key" /\ N > 0
  /\ selected' = (selected + 1) % N
  /\ Go("hold", 1)
  /\ UNCHANGED <<running, asking, found, tick, cursor, stateVars, tx, rx, motorVars, adrift>>

Up ==
  /\ at = "key" /\ N > 0
  /\ selected' = (selected + N - 1) % N
  /\ Go("hold", 1)
  /\ UNCHANGED <<running, asking, found, tick, cursor, stateVars, tx, rx, motorVars, adrift>>

Toggle ==
  /\ at = "key" /\ N > 0
  /\ asking' = "on"
  /\ IF enabled[found[selected + 1]] THEN Go("disable", 1) ELSE Go("ask", 1)
  /\ UNCHANGED <<running, listVars, stateVars, tx, rx, motorVars, adrift>>

\* Faulty: OFF motors are held too.
HoldAll ==
  /\ at = "hold"
  /\ i <= N
  /\ \/ Written("MIT", found[i], hold[found[i]]) /\ Go("hold", i + 1)
     \/ Refused(found[i]) /\ Go("giveup", i)
  /\ UNCHANGED <<running, asking, listVars, stateVars, rx, motorVars, adrift>>

\* send_hold_commands(), one motor that is ON.
Hold ==
  /\ at = "hold"
  /\ OnFrom(i) # {}
  /\ LET j == Min(OnFrom(i))
         m == found[j]
     IN \/ Written("MIT", m, hold[m]) /\ Go("hold", j + 1)
        \/ Refused(m) /\ Go("giveup", j)
  /\ UNCHANGED <<running, asking, listVars, stateVars, rx, motorVars, adrift>>

\* "Hold TX failed; STOP requested."
GiveUp ==
  /\ at = "giveup"
  /\ StopUnchecked(found[i])
  /\ enabled' = [enabled EXCEPT ![found[i]] = FALSE]
  /\ Go("hold", i + 1)
  /\ UNCHANGED <<running, asking, listVars, shown, hold, rx, motorVars>>

HoldEnds ==
  /\ at = "hold"
  /\ OnFrom(i) = {}
  /\ Go(IF tick = 0 THEN "poll" ELSE "drain", 0)
  /\ UNCHANGED <<running, asking, listVars, stateVars, tx, rx, motorVars, adrift>>

NextChannel(again, after) ==
  IF i < NumChannels - 1 THEN Go(again, i + 1) ELSE Go(after, 0)

\* How far behind the cursor the motors of channel c are that are OFF.
OffBehind(c) ==
  {k \in 0 .. N - 1 :
     LET m == found[((cursor[c] + k) % N) + 1] IN Chan[m] = c /\ ~enabled[m]}

\* Faulty: the cursor stays on the motor that was asked.
PollSame ==
  /\ at = "poll"
  /\ IF OffBehind(i) = {} THEN UNCHANGED <<tx, cursor>>
     ELSE LET index == (cursor[i] + Min(OffBehind(i))) % N
              m == found[index + 1]
          IN /\ Written("READ", m, Unknown) \/ Refused(m)
             /\ cursor' = [cursor EXCEPT ![i] = index]
  /\ NextChannel("poll", "drain")
  /\ UNCHANGED <<running, asking, found, selected, tick, stateVars, rx, motorVars, adrift>>

\* poll_disabled_positions(), channel i: the result of the request is ignored.
Poll ==
  /\ at = "poll"
  /\ IF OffBehind(i) = {} THEN UNCHANGED <<tx, cursor>>
     ELSE LET index == (cursor[i] + Min(OffBehind(i))) % N
              m == found[index + 1]
          IN /\ Written("READ", m, Unknown) \/ Refused(m)
             /\ cursor' = [cursor EXCEPT ![i] = (index + 1) % N]
  /\ NextChannel("poll", "drain")
  /\ UNCHANGED <<running, asking, found, selected, tick, stateVars, rx, motorVars, adrift>>

\* What is shown after the first n frames of channel c.
ShownAfter(c, n) ==
  [m \in Motors |->
     LET of == {k \in 1 .. n : rx[c][k].motor = m}
     IN IF of = {} THEN shown[m] ELSE rx[c][Max(of)].pos]

\* drain_and_process(), channel i: up to DrainMax frames.  read() may fail,
\* and the rest waits for the next round; it does not fail first every time.
Drain ==
  LET most == Min({Len(rx[i]), DrainMax})
  IN /\ at = "drain"
     /\ \E n \in Min({1, most}) .. most :
          /\ shown' = ShownAfter(i, n)
          /\ rx' = [rx EXCEPT ![i] = SubSeq(@, n + 1, Len(@))]
     /\ NextChannel("drain", "sleep")
     /\ UNCHANGED <<running, asking, listVars, enabled, hold, tx, motorVars, adrift>>

Sleep ==
  /\ at = "sleep"
  /\ tick' = (tick + 1) % PollEvery
  /\ Round
  /\ UNCHANGED <<running, asking, found, selected, cursor, stateVars, tx, rx, motorVars, adrift>>

(***************************************************************************)
(* stop_all(): one STOP to every motor that is ON.  Then main() returns;   *)
(* frames still queued when a channel is closed are taken to be sent.      *)
(***************************************************************************)
StopAll ==
  /\ at = "stopall"
  /\ IF OnFrom(i) = {}
     THEN Go("exit", 0) /\ UNCHANGED <<enabled, tx, adrift>>
     ELSE LET j == Min(OnFrom(i))
          IN /\ StopUnchecked(found[j])
             /\ enabled' = [enabled EXCEPT ![found[j]] = FALSE]
             /\ Go("stopall", j + 1)
  /\ UNCHANGED <<running, asking, listVars, shown, hold, rx, motorVars>>

-----------------------------------------------------------------------------
(***************************************************************************)
(* Outside src/.                                                           *)
(***************************************************************************)
Signal ==
  /\ running
  /\ running' = FALSE
  /\ UNCHANGED <<placeVars, listVars, stateVars, tx, rx, motorVars, adrift>>

\* A motor executes a frame; one that runs goes to its target.
Execute(f) ==
  /\ drive' = [drive EXCEPT ![f.motor] =
                  IF f.kind = "ENABLE" THEN "run"
                  ELSE IF f.kind = "STOP" THEN "reset" ELSE @]
  /\ target' = [target EXCEPT ![f.motor] =
                  IF f.kind = "MIT" THEN f.pos
                  ELSE IF f.kind = "STOP" THEN Unknown ELSE @]
  /\ pos' = [pos EXCEPT ![f.motor] =
                  IF drive'[f.motor] = "run" /\ target'[f.motor] # Unknown
                  THEN target'[f.motor] ELSE @]

\* What try_parse_feedback() makes of the feedback of a motor at p: what
\* uint_to_float() returns is always within the range, wherever the motor is.
Decoded(p) == IF p \in MitRange THEN {p} ELSE MitRange

\* The position the program reads in the answer to frame f of a motor at p.
Reported(f, p) == IF f.kind = "READ" THEN {p} ELSE Decoded(p)

\* A motor answers every frame; a full receive queue loses the answer.
Deliver(c) ==
  LET f == Head(tx[c])
  IN /\ tx[c] # <<>>
     /\ tx' = [tx EXCEPT ![c] = Tail(@)]
     /\ Execute(f)
     /\ IF Len(rx[c]) < RxCap
        THEN \E p \in Reported(f, pos'[f.motor]) :
               rx' = [rx EXCEPT ![c] = Append(@, [motor |-> f.motor, pos |-> p])]
        ELSE UNCHANGED rx
     /\ UNCHANGED <<running, placeVars, listVars, stateVars, adrift>>

\* The operator turns a motor by hand, until the program is to end.
Turn(m, p) ==
  /\ running
  /\ drive[m] = "reset"
  /\ pos' = [pos EXCEPT ![m] = p]
  /\ UNCHANGED <<running, placeVars, listVars, stateVars, tx, rx, drive, target, adrift>>

-----------------------------------------------------------------------------
Refresh == Ask \/ WaitFrame \/ WaitEnds

Key ==
  \/ NoKey \/ Quit \/ Down \/ Up \/ Toggle
  \/ EnableStop \/ EnableMode \/ EnablePrime \/ Enable \/ EnableUndo \/ Disable

ProgramStep ==
  \/ Scan \/ Initial \/ Refresh
  \/ Throws \/ Key \/ Hold \/ GiveUp \/ HoldEnds \/ Poll \/ Drain \/ Sleep
  \/ StopAll

OutsideStep ==
  \/ Signal
  \/ \E c \in Channels : Deliver(c)
  \/ \E m \in Motors, p \in Positions : Turn(m, p)

Next == ProgramStep \/ OutsideStep

\* The program goes on, and the bus carries what is queued.
Spec ==
  /\ Init /\ [][Next]_vars
  /\ WF_vars(ProgramStep)
  /\ \A c \in Channels : WF_vars(Deliver(c))

-----------------------------------------------------------------------------
\* Types, and the bounds of the indices into the list of motors.
PositionTypeOK ==
  /\ running \in BOOLEAN
  /\ at \in {"scan", "initial", "ask", "wait", "stop", "mode", "prime", "enable",
             "undo", "disable", "key", "hold", "giveup", "poll", "drain",
             "sleep", "stopall", "exit"}
  /\ i \in 0 .. (IF at \in {"poll", "drain"} THEN NumChannels - 1 ELSE Len(Order) + 1)
  /\ asking \in {"initial", "on"}
  /\ found \in Seq(Motors) /\ N <= Len(Order)
  /\ selected \in 0 .. (IF N = 0 THEN 0 ELSE N - 1)
  /\ tick \in 0 .. PollEvery - 1
  /\ cursor \in [Channels -> 0 .. (IF N = 0 THEN 0 ELSE N - 1)]
  /\ enabled \in [Motors -> BOOLEAN]
  /\ shown \in [Motors -> Positions \cup {Unknown}]
  /\ hold \in [Motors -> MitRange \cup {Unknown}]
  /\ tx \in [Channels -> Seq([kind : {"READ", "STOP", "MODE", "MIT", "ENABLE"},
                              motor : Motors, pos : Positions \cup {Unknown}])]
  /\ rx \in [Channels -> Seq([motor : Motors, pos : Positions])]
  /\ pos \in [Motors -> Positions]
  /\ drive \in [Motors -> {"reset", "run"}]
  /\ target \in [Motors -> Positions \cup {Unknown}]
  /\ adrift \subseteq Motors

\* Frame k of the queue that motor m is on.
Queued(kind, m, k) ==
  k \in DOMAIN tx[Chan[m]] /\ tx[Chan[m]][k].kind = kind /\ tx[Chan[m]][k].motor = m

\* A STOP to motor m is behind the first n frames of its queue.
StopBehind(m, n) == \E k \in DOMAIN tx[Chan[m]] : k > n /\ Queued("STOP", m, k)

(***************************************************************************)
(* A motor that is shown OFF does not run, or its STOP is on the way,      *)
(* unless its last STOP was refused where the program does not look (lines *)
(* 425, 451 and 465).  A STOP of the operator's that is refused leaves the *)
(* motor ON (lines 435-444).                                               *)
(***************************************************************************)
OffIsOff ==
  \A m \in Motors :
    drive[m] = "run" => enabled[m] \/ m \in adrift \/ StopBehind(m, 0)

(***************************************************************************)
(* "The program never uses zero as the automatic ON target"                *)
(* (position_read.md lines 20-21): a motor that runs was commanded, before *)
(* its ENABLE and with no STOP since, a position some answer of it carried *)
(* that is within the MIT range.  It need not be where the motor is: see   *)
(* HoldsRead for when it is.                                               *)
(***************************************************************************)
RunsOnTarget ==
  \A m \in Motors : drive[m] = "run" => target[m] \in MitRange

(***************************************************************************)
(* "OFF motors receive no MIT command" (position_read.md line 14): an MIT  *)
(* command is on the way only to a motor that is ON or being enabled, or a *)
(* STOP follows it, unless the motor's last STOP was refused where the     *)
(* program does not look.  That happens: if ENABLE and the STOP of line    *)
(* 425 are both refused, the MIT command of line 422 goes to an OFF motor  *)
(* with nothing behind it.                                                 *)
(***************************************************************************)
NoMitToOff ==
  \A m \in Motors : \A k \in DOMAIN tx[Chan[m]] :
    Queued("MIT", m, k) =>
      \/ enabled[m] \/ m \in adrift
      \/ at \in {"enable", "undo"} /\ m = Chosen
      \/ StopBehind(m, k)

(***************************************************************************)
(* "The screen continues showing ... current angle" of OFF motors          *)
(* (position_read.md lines 14-16): when nobody turns a motor or presses    *)
(* Space any more, the positions of the OFF motors of the list are shown   *)
(* in the end, however many motors, ON and OFF, share the channel (the     *)
(* cursor comes round), and whatever feedback said before, if there is     *)
(* room in the queues when the program asks and when a motor answers.      *)
(***************************************************************************)
OffPositionShown ==
  /\ <>[](\A c \in Channels : (at = "poll" => Len(tx[c]) < TxCap)
                             /\ (tx[c] # <<>> => Len(rx[c]) < RxCap))
  /\ <>[][pos' = pos /\ ~Toggle]_vars
  => <>[](\/ at = "exit"
          \/ \A j \in 1 .. N : ~enabled[found[j]] => shown[found[j]] = pos[found[j]])

(***************************************************************************)
(* "q: stop motors and quit", and so for a signal: the program ends, also  *)
(* when it comes while an answer is waited for that never arrives.         *)
(***************************************************************************)
QuitEnds == ~running ~> at = "exit"

(***************************************************************************)
(* "Quitting or receiving SIGINT/SIGTERM stops every motor that this       *)
(* program enabled" (position_read.md lines 24-25): when it has ended and  *)
(* all its frames are delivered, no motor runs.                            *)
(***************************************************************************)
EndStopsMotors ==
  (at = "exit" /\ \A c \in Channels : tx[c] = <<>>)
    => \A m \in Motors : drive[m] = "reset"
=============================================================================
