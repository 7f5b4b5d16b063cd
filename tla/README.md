# A TLA+ model of QUB_Controller

QUB_Controller drives the 13 Robstride actuators and the CV7-AHRS IMU of the
QUB humanoid from C++ threads with real-time priorities.  This directory
models its threads, the lock-free slots between them, the CAN channels and the
programs around them, checks the model with TLC, and proves the most important
facts about it with TLAPS.  Paths below are relative to the repository.

## 1. Inventory

| Component (source) | State | Operations | Talks to |
|---|---|---|---|
| `SeqLocked<T>` (`include/shared_state.hpp`) | `seq_`, `data_` | `store()`, `load()`, `generation()` | one writer thread, many reader threads, by memory alone |
| `MotorThread` (`src/motor_thread.cpp`), one per CAN channel | `started_`, `last_feedback_`, the position in the loop | `start()`, `stop()`, `run()` = `send_commands()`, `drain_feedback()`, `publish_state()`, sleep | `SharedState::action` (reads), `::channel[ch]` (writes), `::shutdown` (both), its `PcanChannel` and `Robstride` objects |
| `Robstride` (`src/robstride.cpp`) | none that changes | `enable()`, `stop()`, `send_mit_command()`, parameter writes, `try_parse_feedback()` | writes frames to, and is handed frames from, a `PcanChannel` |
| `PcanChannel` (`src/pcan_channel.cpp`) | the driver's queues | open, close, `read()`, `write_extended()`, `reset()` | libpcanbasic and the bus |
| `test_4ch`, `test_rt_thread` (`apps/`) | the position in `main()`, `g_shared_ptr` | open, share, hold action, start in order, monitor, stop in order, unwind, signal handler | `MotorThread`, `SharedState` |
| `ImuDriver`, `ImuThread` (`src/imu_driver.cpp`), `apps/test_imu.cpp` | `connected_`, `filter_mode_`, the last packet | `configure()`, `disconnect()`, `poll_and_publish()`, `start()`, `stop()`, `run()` | the sensor over a serial port, `SharedState::imu` and `::shutdown` |
| `position_read` (`apps/`) | per motor: enabled, position, hold position, generation | scan, refresh with timeout, enable, disable, hold loop, poll, drain | operator, `PcanChannel`, `Robstride` |
| `motor_config` (`apps/`) | the place in the command, the id asked, the attempt, the devices found | `scan`, `get`, `set-id`, `set-zero`: drain, query, wait, retry, confirm, STOP, change, verify, read back | operator, its own `CanBus` over `PcanChannel` |
| `test_connection` (`apps/`) | channels that opened, the count of motors that answered | open, probe each motor of `MOTOR_MAP`, scan each channel for ids | `PcanChannel` |
| `test_can_init` (`apps/`) | none that lasts | open, read a second of traffic | `PcanChannel` |
| `rt_utils`, `robot_config` (`include/`) | constants | priorities, CPU pinning, periodic sleep, motor map | the threads |

What is hard here:

* **Concurrency.** A plain copy of a struct races with its readers; four motor
  threads, the main thread and a signal handler share one `shutdown` flag that
  nobody clears; slots are read while they are replaced.
* **Ordering.** STOP must come after the last MIT command; an action must not
  be overtaken by an older one; replies carry no number of the question they
  answer, so a late one passes for the answer to the next question.
* **Failure.** A full transmit queue refuses a frame, the bus loses one, a
  motor or the serial port is unplugged, `pthread_create` or a command of the
  IMU dialogue fails half-way, and most results are ignored.
* **Liveness.** `load()` retries without a bound, `stop()` joins a thread, and
  drain loops and waits read a bus that may never be silent.

`PROJECT.json` lists these hazards line by line with the properties that cover
them.

## 2. Modules

| Module | Models |
|---|---|
| `AtomicCell` | what a `SeqLocked<T>` promises: a store and a load each take effect at one instant |
| `SeqLock` | `store()` and `load()`, one step per access to `seq_` and per word of `data_`; refines `AtomicCell` |
| `SeqLockSched` | the same steps under SCHED_FIFO priorities and CPUs |
| `MotorThread` | `start()`, `stop()` and `run()` on any number of channels, with the transmit and receive queues, the bus, the motors and the clock |
| `CommandStream` | what the motor threads promise the motors: stored actions in order, and a STOP after the last |
| `FourChannel` | `main()` of `test_4ch` around the steps of `MotorThread` |
| `ImuThread` | the IMU's dialogue, thread and program |
| `PositionRead` | `position_read`: polling, enabling and holding motors from a terminal |
| `PositionHistory` | the same, and where the motor has been since the operator pressed Space |
| `MotorBus` | the channels and motors as the two maintenance tools meet them |
| `MotorConfig` | one run of `motor_config` with one command |
| `TestConnection` | one run of `test_connection` |
| `SeqLockProofs`, `MotorThreadProofs`, `FourChannelProofs`, `ImuThreadProofs`, `PositionReadProofs`, `MotorBusProofs`, `MotorConfigProofs`, `TestConnectionProofs` | theorems and their proofs; `MotorBusProofs` has the lemmas the last two share |
| `MCMotorThread`, `MCFourChannel`, `MCPositionRead`, `MCTools` | instances for TLC |

Operators with the comment "Faulty: ..." are plausible mistakes in the code
that stand next to the action they would replace.  They are part of no
specification; putting one in the place of its original makes the property it
was written for fail, which shows that the property can see such a mistake.

How they fit together: `MotorThread` takes a `load()` or a `store()` of a slot
as one step, which `SeqLock` justifies by implementing `AtomicCell`.
`SeqLockSched` extends `SeqLock` with CPUs and priorities.  `MotorThread`
implements `CommandStream`: what a motor executes and whether it runs are the
abstract state, and the stream to a motor is over when `shutdown` is set, its
channel's thread is not in its loop and no MIT command is queued (`Silent`).
`FourChannel` extends `MotorThread` and lets its steps interleave with those
of `main()`.
`ImuThread` and `PositionRead` are programs of their own; `PositionHistory`
adds a history variable to the latter, which no step depends on.  `MotorConfig` and
`TestConnection` extend `MotorBus`; `MCTools` runs one or the other on the same
motors, as an operator would.

## 3. State and actions

**SeqLock** (`include/shared_state.hpp` 110-133).  `seq` is `seq_` modulo
`SeqMod` (2^32 in the code), `data` is `data_` word by word, `wpc`/`wval`/
`wleft` and `rpc`/`s1`/`s2`/`snap`/`rleft` are the positions and locals of
`store()` and of each `load()`.  Each access to `seq_` is one step; the words of
a struct copy are written and read one by one in any order.  With
`Reorder = TRUE` words may also be written before `seq_` is made odd and read
after `seq_` is read again, which release stores and acquire loads allow.
`committed` and `age` are history variables.

**SeqLockSched.**  A *placement* gives the priorities of writer and readers
(`robot_config.hpp` 139-141) and the number of CPUs they share
(`rt_utils.hpp`).  A thread steps only if it has a CPU: fewer threads of
higher priority are inside `store()` or `load()` than there are CPUs.

**MotorThread** (`src/motor_thread.cpp`).  `call` is the `start()` or `stop()`
under way in the thread that makes these calls, `tpc[c]` the position of
channel c's RT thread: `test` -> `load` -> `send` -> `drain` -> `publish` ->
`sleep`.  `fb` is `last_feedback_` (whose it is, and its age in periods),
`slot` the published `ChannelState` (whose feedback is shown, and `online`),
`action` the number of the stored action.  `tx`/`rx` are the driver's queues;
a full `tx` refuses a frame, a full `rx` drops one.  `Deliver`, `Lose`,
`OtherTraffic`, `Unplug`, `Tick` and `StoreAction` are the bus, the motors, the
clock and the policy, which are outside `src/`.

**FourChannel** (`apps/test_4ch.cpp` 100-230).  `mpc`/`mch` follow `main()`:
open the channels, share, store the hold action, start every thread, monitor,
stop every thread, destroy the objects in reverse order, exit.  `Signal` sets
`shutdown` whenever `g_shared_ptr` is set.

**ImuThread** (`src/imu_driver.cpp`, `apps/test_imu.cpp`).  `Steps` lists the
commands of `configure()`, `dev` what the sensor was told, and may start as any
earlier program left it.  `WaitPoll`/`WaitEnds` are the 30-second wait for
AHRS mode, `LoopPoll` the 200 Hz loop.

**PositionRead** (`apps/position_read.cpp`).  `at` and `i` follow the single
thread: scan, first refresh, then rounds of key, hold, poll, drain, sleep.  The
operator's choices, the signal, and the moment the deadline of
`refresh_position_sync()` passes are nondeterministic; the motors turn by hand
while they are disabled.  A motor answers a request for `mechPos` with where it is
(`Reported`), and any other frame with feedback, which `uint_to_float()` decodes
into [P_MIN, P_MAX]: of a motor outside of that range it may say any position within
(`Decoded`).  `adrift` is a history variable: the motors whose last STOP was refused at
a call whose result nobody looks at (lines 425, 451, 465), until one is taken.
In `PositionHistory`, `been` collects the positions of the motor that is
switched on from Space to its answer; if a frame or an answer of that motor was on
its way when Space was pressed (`OnItsWay`), it is every position, and claims nothing.

**MotorBus.**  `inbox[m]` are the frames on a channel that motor m has not come
to: a frame is broadcast, and whether m obeys it depends on the id m has when
it takes it, which a `SET_CAN_ID` in between may have changed.  `rx[c]` is the
receive queue, `Obey` takes a frame, executes it and answers, unless a fault
loses the frame, its effect or its answer.  `missed` remembers which motor did
not obey what.  Motors in `Fixed` answer `GET_ID` to 0xFE instead of the host,
which both tools' sources mention.

**MotorConfig** (`apps/motor_config.cpp`).  `at` is the place within an
exchange (query, reply, ..., ack, value), `step` the exchange of the command,
`target` and `try` the id asked and the attempt; `seen` is the device
`set-id` identified, `found` what was printed, `result` how the command ended.
`Drained` is `drain()` with its limit, and with its end at the first frame that
is not extended.  `Expire` is the deadline of a `wait_for()`; while an answer
is still to come it is a fault, like the loss of a frame.

**TestConnection** (`apps/test_connection.cpp`).  `where` follows `main()`:
open, probe (asking, awaiting, pausing), scan (asking, hearing), exit; `k` is
the entry of `MOTOR_MAP` or the channel, `attempt` and `stage` the loops of
`probe_motor()`, or in the scan the id asked.  `ok` is what `ok_count` counts,
`hits` what the scan prints.

## 4. What TLC checks

| Run | Question | Answer |
|---|---|---|
| `seqlock` | Is a load untorn, is the slot atomic, do `store()` and `load()` return? | yes, if accesses take effect in program order |
| `seqlock_reorder` | And under the orders the source asks for? | a load can be torn (finding) |
| `motor` | Are STOPs the last word, is feedback the motor's own and the newest that was read, through restarts, faults, full queues?  Do the threads implement `CommandStream`, in particular are commands in order? | yes |
| `motor_live` | Does `stop()` return, does a silent motor go offline, do actions reach the motors? | yes |
| `four` | Does `main()` end, without threads, with motors stopped after one lost STOP? | yes |
| `four_sigint` | Does SIGINT stop every motor? | not after a failed `pthread_create` (finding) |
| `imu` | Does the thread run only on a configured sensor, end with the link, and publish a fall back of the filter? | yes |
| `imu_shutdown` | Does `shutdown` end the thread? | no (finding) |
| `position` | Do OFF motors stay still and uncommanded, is a motor held within the MIT range and where it was read, do positions appear, does quitting end? | yes; but for motors whose STOP was refused unseen, and for a position read while an earlier answer was on its way |
| `position_exit` | Does quitting stop every motor that was enabled? | not one whose STOP was refused (finding) |
| `tools` | Do `motor_config` and `test_connection` tell the truth (a change of id, no change, a zero, a device, a count), change motors only at rest and as told, and end? | yes, whatever is late, lost or shared, within the limits each property states |
| `config_unasked` | Does `set-id` change an id only to one that is unused? | not if the question could not be sent (finding) |

### Bounds and why they are enough

* `SeqMod = 4`, two words, two readers: the counter wraps several times in a
  behaviour.  A load overtaken by exactly `SeqMod` changes of `seq_` cannot see
  them; `NoWrapDuringLoad` excludes that case.  In the code it takes 2^31
  stores during one load.  Two words are the least that can be torn.
* `Placements`: a channel slot (writer above readers) on one CPU, and the action
  slot (readers above writer) with a CPU each, which leaves the interleavings
  of `SeqLock` unrestricted.
* `MaxActions`, `MaxFaults` bound what is stored and what fails in one
  behaviour: one action already tells "none" from "one", two tell old from
  new; a fault is a refused or failed system call, a lost frame or an unplugged
  motor.  Two faults in `four` are a failed call and a lost STOP, or the loss
  of both STOPs.
* `TxCap`, `RxCap` of one or two frames make full queues ordinary.  `RxCap = 0`
  in `four` switches the feedback off, which `main()` does not look at.
* `MaxFrames = 1` stands for 32 frames per cycle and `DrainMax = 2` for 256,
  `Timeout` of one or two periods for 10, `WaitPolls = 2` for the polls of 30
  seconds, `PollEvery = 1` for 5 (of the rounds between two polls nothing but
  holding and draining is left, which is part of every round too).
* Two positions, one inside and one outside of the MIT range, tell a current
  position from an old one, one that may be held from one that may not, and what
  feedback says from where the motor is.
* `tools`: two motors on the first of two channels and ids 0 and 1 include motors
  that share an id, ids nobody has, an empty channel, a change that makes or
  ends a shared id, and any place of the motors relative to `MOTOR_MAP`.  Two
  attempts (`Retries` and `ProbeRetries`) are the code's own numbers; one fault
  tells what a retry repairs from what it does not see; `MaxDrain = 1`
  stands for 256 frames and `MaxOther = 1` for the traffic of others, so that
  `drain()` may leave an answer behind; one parameter (`NumParams`) tells an
  attempt that goes on to parameters from one that does not.
* In `PositionRead` no frame is lost on the bus, the operator turns motors
  only until the program is to end, and `read()` does not fail on the first frame for
  ever.  Refused writes and answers lost in a full receive queue are there.

### Fairness

RT threads have SCHED_FIFO priorities and CPUs of their own, and `main()` and
`position_read` are runnable at the end of their sleeps: `WF` on the steps of
each thread, of each call that was begun, and of `main()`.  In `SeqLockSched`
fairness applies only to a thread that has a CPU, as the scheduler does.  The
bus and the clock make progress: `WF` on `Deliver` and `Tick`; and a sensor
that streams sends packets.  No fairness is assumed of the operator, of signals,
of faults, of `start()` and `stop()` being called, of stores of actions, or of
other traffic.  That the monitor loop of a test ends is its duration.

In `MCTools` the motors come to their frames (`WF` on `Obey`), `motor_config`'s
deadlines pass (`WF`), and those of `test_connection` under `SF`: its inner loops
look at the clock only when the queue is empty, which happens again and again
although not for ever.  A frame takes some 130 microseconds at 1 Mbit/s, more than a read takes.  The operator need not answer the confirmation: `ToolEnds` is about
what comes before and after it.

## 5. What TLAPS proves

Every theorem holds for all values of the constants that satisfy the named
assumptions of the module: any number of channels, motors, words, queue places,
attempts and faults.  The assumptions are that a motor is on one channel and a
channel has motors (`ConfigAssumption`), that ids are unique within a channel
of `MOTOR_MAP` (`IdAssumption`; `MotorBus` does not assume it), that "no device"
is none of the motors (`NoneAssumption`), that the MIT range is not empty
(`PositionAssumption`), and the types of the constants and
bounds.

`SeqLockProofs`
* `TypeCorrect`, and under `Reorder = FALSE`:
* `LoadsAreNotTorn`.  "No torn read" is not inductive.  The invariant also says
  what `data_` looks like while `seq_` is even or odd (`WriterInv`) and, for a
  reader with an even `s1` that is copying, that `seq = s1 + age` modulo
  `SeqMod` with `age` below `SeqMod`, and that while `age` is 0 its words are
  those of the committed payload (`CopyInv`, `ReaderInv`).  Equality of `s1` and `s2` then
  forces `age = 0` (`PlusFixed`), and the snapshot is whole (`StableSnapshot`).
* `SeqLockedIsAtomic`: every step is a step or a stutter of `AtomicCell`, with
  the payload the last completed store left as the cell's value.
* `RetriesAreCaused` (`RetryMeansStore`): while a load copies and its `age` is 0,
  `seq` is still its `s1` (`SeqInv`), so the second reading agrees with the first.
  This is about `seq_` alone and holds with `Reorder = TRUE` too.
* `SchedImplements`: a step under priorities and placements is a step of `SeqLock`,
  so the theorems above hold there.

`MotorThreadProofs`
* `TypeCorrect`: in particular the bounds of all loop indices.
* `StopsComeLast` (`NoMitAfterStop`): needs that a STOP is queued only after
  the join, with `shutdown` set for good (`CallInv`), so that a thread started later
  ends at its first test (`StopInv`).
* `SlotsShowTheirMotor` (`FeedbackIsOwn`): frames stay on their channel
  (`TxInv`, `RxInv`) and an id identifies a motor there (`UniqueMatch`), so
  `last_feedback_` is the motor's own (`FbInv`).
* `FeedbackIsKept` (`FeedbackIsStored`): only `drain_feedback()` takes a frame off
  a queue (`RxShrinks`), and the motor it offers it to is the one that sent it.
* `CommandsAreInOrder` (`CommandsFollowAction`): action numbers never decrease
  from the motors through the queue to the thread's snapshot (`AgeInv`).
* `JoinsAThread` (`JoinHasThread`): `started_` is set only with a thread, and
  nobody but the `stop()` under way takes it away (`ThreadInv`).
* `StreamImplemented` (`ImplementsStream`): frames that are delivered are the abstract
  steps, all other steps are `Store`, `End` or stutter.  A channel that is silent stays so
  (`SilentLasts`), because `shutdown` is never cleared and a thread made later ends
  at its first test; a STOP is queued only by a silent channel or behind
  its last MIT command (`StopsLast`), so when a motor comes to it the stream is
  over (`StoppedIsOver`), and while an MIT command is queued it is not
  (`CommandedIsNotOver`).

`FourChannelProofs`
* `MainUsesThreads`: `main()` calls `start()` and `stop()` as `MotorThread`
  supposes, so the theorems above hold in the program; `MainStreams` says so of
  the streams and the joins.
* `FTypeCorrect`, `NoThreadIsLeft` (`NoThreadOutlivesMain`): `PlaceInv` says for
  each place of `main()` which call it may have under way and which channels
  are not started, or not any more; on the way out of `return 1` too.
* `OneStopIsEnough` (`StopSurvivesOneLoss`): after the join nothing but STOPs
  enters a channel's queue, and of the two STOPs of each motor that `stop()` has
  written so far (`WrittenInv`) each was obeyed, is queued with nothing behind it
  that could undo it, or is counted in `lostStops`; so it stays in every channel
  that is not started (`SettledInv`).

`ImuThreadProofs`
* `TypeCorrect` and `ThreadRunsConfigured` (`RunsConfigured`): while `configure()`
  is under way the sensor has obeyed each command before `step`, and there is a
  thread only after the last (`DialogueInv`).
* `ThreadHasPort` (`PortOutlivesThread`): `connected_` is set before the thread is
  made and cleared after it is joined, also where `start()` fails.

`PositionReadProofs`
* `PositionTypeCorrect`, `OffMotorsAreOff` (`OffIsOff`), `MitOnlyToOn`
  (`NoMitToOff`), `RunningOnTarget` (`RunsOnTarget`).  The invariants are about
  the order of frames in a transmit queue: behind each ENABLE on its way to a
  motor that is not ON there is a STOP, or the motor is in `adrift` (`OffInv`);
  what is held is within the MIT range (`HoldInv`); and before each ENABLE there
  is an MIT with such a target, delivered or on its way, without a STOP between
  the two (`TargetInv`).  A motor in `adrift` is excepted from the first two until its
  next STOP is taken; the code has nothing to say of it (section 6).
* `HeldWhereRead` (`HoldsRead`): a target within the range may still be a clamped or
  an old position.  If nothing of the motor was on its way at Space, then until
  the answer it is sent nothing but the request, whose answer is exact, so each of
  its answers says where it has been since (`BeenInv`).
* `OnMotorsHoldMeasured` (`HoldsMeasured`, stated in the proof module): from the
  STOP that switching on begins with, only the position in `hold_position_rad` is
  sent to the motor (`MeasuredInv`), and that changes only while the motor is OFF
  (`AskInv`).  Telling targets apart takes two positions within the MIT range,
  for which the run `position` has no room; smaller instances confirm it.

`MotorConfigProofs`
* `ConfigTypeCorrect`; `ChangesAtRest` (`ActsAtRest`): before each SET_CAN_ID or
  SET_ZERO in an inbox there is the STOP, or the motor has come to it already and
  rests or has it in `missed` (`RestInv`).
* `ChangesAreReal` (`ChangeIsReal`): the only change on its way is the one the
  command line asks for (`OrderInv`), so a motor that answered at the new id
  still has it when the answer is read (`AnswerInv`).  `Course` says which
  exchanges each command consists of.
* `NewIdsAreUnused` (`NewIdIsUnusedIfAsked`) and `FoundArePresent`
  (`FoundIsPresent`): until the change is sent ids stay, so what is on its way is
  true (`SettledInv`), and a motor that is asked has the question or the answer on
  its way unless each attempt so far cost a fault (`AskedInv`).  `UnusedInv` and
  `FoundInv` carry that on to what the command makes of it.  This is where
  `NoneAssumption` is needed: no device is not a device.
* `MotorsChangeAsTold` (`ChangesAsTold`) and `RefusalsChangeNothing` (`NoChangeMade`):
  a frame that changes a motor is on its way only when the command is past all its
  refusals (`Committed`, `ToldInv`), on the channel and with the id of the command
  line (`AimedInv`); so the motor that was identified keeps its id until then
  (`KeptInv`).
* `ZerosAreVerified` (`VerifiedIsZero`): a motor answers in the order of its
  frames, and its channel keeps that order.  Behind the feedback of the STOP no
  answer of before it can be waiting (`InLine`, `ZeroInv`), so the position read
  back was read by the motor after the new zero, if it obeyed (`VerifiedInv`).

`TestConnectionProofs`
* `ProbeTypeCorrect`; `CountsAreRight` (`CountIsRight`): what is on its way is true
  (`TruthInv`), and every attempt that a motor lets pass has cost a fault, for the
  answer to a parameter is on its way as long as there was none (`CountInv`).
  `GET_ID` counts for nothing in this argument: a motor may answer it to 0xFE.
* `ScansAreRight` (`ScanIsRight`): without a fault and with unique ids, at most one
  question is on its way that some motor has to answer, or its answer is
  (`QuestionInv`, `AnswerInv`), and all motors before it were heard (`PastInv`).

Only model-checked: liveness, which TLAPS cannot prove under fairness
(`LoadCompletes`, `StoreCompletes`, `StopReturns`, `SilentGoesOffline`,
`ActionReachesMotors`, `Terminates`, `LinkLossEndsThread`, `FallbackIsPublished`,
`QuitEnds`, `OffPositionShown`, `ToolEnds`, `ProbeEnds`).  Every invariant, action property and
refinement that a passing run checks is proved.  The other way round, `FTypeOK` and the properties
stated in the proof modules (`RetryMeansStore`, `JoinHasThread`, `CommandsFollowAction`,
`PortOutlivesThread`, `HoldsMeasured`) are left to their proofs: each held in a run before
it was proved.

## 6. Where code and documents differ

1. `shared_state.hpp:10` promises untorn reads; the memory orders used do not
   give them (`seqlock_reorder`).
2. `test_4ch.cpp:15` promises that SIGINT stops all motors; those of a channel
   whose `pthread_create` failed are not (`four_sigint`).
3. `shared_state.hpp:156` says that all threads poll `shutdown`; the IMU's does
   not (`imu_shutdown`).
4. `docs/position_read.md:24` promises that quitting stops every motor; one
   whose STOP was refused by a full queue is forgotten (`position_exit`).
5. `docs/motor_config.md:91-92` says that `set-id` verifies that the new id is
   unused; it takes a question that could not be sent for one that nobody
   answered (`config_unasked`).

Seen in reading, without a run:

* `shared_state.hpp:11` excludes priority inversion; a reader of higher priority
  that spins in `load()` (line 128) on the CPU of its writer would starve it.  The
  readers of the action slot have the higher priority; but nothing in `src/` calls
  `pin_to_cpu()` or stores an action while motor threads run, so where its writer
  runs is left to the program that will.
* `motor_thread.cpp:175` reads a frame before it tests the limit: the 33rd
  frame of a cycle is dropped.  `FeedbackIsStored` is about the others.
* `motor_thread.hpp:72` says that `stop()` stops the motors and then joins; the
  code joins first, which is what makes `NoMitAfterStop` hold.
* `motor_config.cpp:594` compares the position read back with its limit; a NaN
  passes, and the zero is reported verified.
* `refresh_position_sync()` takes any answer of the motor for its current position
  (`position_read.cpp:369`), so with a frame or an answer on its way when Space is
  pressed ON may hold an old position, although `position_read.md:17` says that the
  current one is read first.  If that answer is feedback, it lies within the MIT range
  wherever the motor is (`robstride.cpp:240`), so the test of lines 403-404 passes, and
  ON moves a motor that `position_read.md:17-19` says it refuses.  Without the
  `OnItsWay` case of `Remember`, TLC shows the first as a violation of `HoldsRead`.
* When the prime MIT command of `position_read.cpp:422` is queued and both ENABLE and
  the STOP of line 425 are refused, a motor that is shown OFF gets an MIT command,
  against `position_read.md:14`.  `NoMitToOff` excepts just such motors (`adrift`).
* The scan of `test_connection` prints an answer to an earlier request under the
  id of the last one.

## 7. Not modelled

* `test_can_init` is straight-line; the build file.
* The fixed-point encoding of payloads (`float_to_uint()`), but for the range of the
  position in feedback (section 3, PositionRead); the parameter writes
  of `Robstride`, and `MOTOR_MAP` itself (it is a constant with assumptions).
  The models keep of a command the action it comes from, or its target.
* Timing: a period is a `sleep` that ends; statistics of the loops are printed
  only.  Terminal output and the parsing of arguments are left out.
* `combine_channels()`: four loads whose result is printed; as steps of their own
  they multiply the states of `FourChannel`, and no line promises anything about
  how the four slots belong together.
* Frames still queued in libpcanbasic when a channel is closed: they are taken
  to be sent.  Whether `CAN_Uninitialize` discards them is not in the source.

## 8. How the development was built, and what could follow

The order was: the slots (`SeqLock`), the loops on them (`MotorThread`), the
program around the loops (`FourChannel`), the IMU, `position_read`, and the
maintenance tools; each with its invariants checked before they were proved.
What could follow: the codec of `robstride.cpp` (bounds, monotony, NaN) and the
catching-up of `sleep_until_next_period()`.
