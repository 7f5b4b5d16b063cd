---------------------------- MODULE SeqLockSched ----------------------------
(***************************************************************************)
(* SeqLocked under the scheduling the threads ask for: SCHED_FIFO, with    *)
(* the priorities of include/robot_config.hpp lines 139-141 (motor 90, IMU *)
(* 80, policy 70; the main threads that read the slots have none, 0).  A   *)
(* thread in store() or load() never blocks, so it keeps its CPU until it  *)
(* returns or a thread of higher priority is woken, and a reader that      *)
(* spins on an odd seq_ keeps it too.                                      *)
(*                                                                         *)
(* A placement says which CPUs the threads of a slot have, as given by     *)
(* rt::pin_to_cpu() of include/rt_utils.hpp, and their priorities.         *)
(***************************************************************************)
EXTENDS SeqLock, FiniteSets

CONSTANTS
  Placements    \* the placements a behaviour may have

\* A channel slot: a motor thread writes, the policy and others read.
ChannelSlot(n) == [cpus |-> n, writer |-> 90, reader |-> 70]

\* The action slot: the policy writes, motor threads read.
ActionSlot(n) == [cpus |-> n, writer |-> 70, reader |-> 90]

\* A channel slot on one CPU, the action slot with a CPU for every thread: in
\* the latter every thread can always go on, as in SeqLock itself.
SafePlacements == {ChannelSlot(1), ActionSlot(Cardinality(Readers) + 1)}

ASSUME PlacementAssumption ==
  Placements \subseteq [cpus : Nat \ {0}, writer : Nat, reader : Nat]

VARIABLE place

schedVars == <<vars, place>>

Loading == {r \in Readers : rpc[r] # "idle"}

Storing == wpc # "idle"

\* Fewer threads of higher priority want a CPU than there are CPUs.
WriterHasCpu ==
  place.reader > place.writer => Cardinality(Loading) < place.cpus

ReaderHasCpu ==
  (place.writer > place.reader /\ Storing) => 1 < place.cpus

SchedInit == Init /\ place \in Placements

\* StoreCall and LoadCall are the wake-up of a periodic thread: a timer's.
SchedNext ==
  /\ \/ \E v \in Values : StoreCall(v)
     \/ WriterHasCpu /\ StoreStep
     \/ \E r \in Readers : LoadCall(r)
     \/ \E r \in Readers : ReaderHasCpu /\ LoadStep(r)
  /\ UNCHANGED place

(***************************************************************************)
(* A thread that has a CPU for ever takes its next step; a thread that has *)
(* none takes no step at all.  Nobody has to call store() or load().       *)
(***************************************************************************)
SchedSpec ==
  /\ SchedInit
  /\ [][SchedNext]_schedVars
  /\ WF_schedVars(WriterHasCpu /\ StoreStep /\ UNCHANGED place)
  /\ \A r \in Readers : WF_schedVars(ReaderHasCpu /\ LoadStep(r) /\ UNCHANGED place)

-----------------------------------------------------------------------------
(***************************************************************************)
(* "The writer is never blocked" (shared_state.hpp line 9): a store() that *)
(* is called returns, whatever the readers do.                             *)
(***************************************************************************)
StoreCompletes == Storing ~> ~Storing

(***************************************************************************)
(* A load() returns once the writer leaves it alone (the retry loop of     *)
(* shared_state.hpp lines 126-132).  A writer that stores for ever may     *)
(* keep it in that loop for ever: nothing in load() bounds the retries.    *)
(***************************************************************************)
LoadCompletes ==
  \A r \in Readers : <>[]~Storing => (r \in Loading ~> r \notin Loading)
=============================================================================
