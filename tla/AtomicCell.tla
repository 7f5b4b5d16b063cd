----------------------------- MODULE AtomicCell -----------------------------
(***************************************************************************)
(* What a SeqLocked<T> promises its users (include/shared_state.hpp): a    *)
(* cell with one writer and many readers in which a store takes effect at  *)
(* one instant, and a load returns the value the cell held at one instant  *)
(* between its call and its return.                                        *)
(***************************************************************************)

CONSTANTS
  Readers,      \* threads that call load()
  Values,       \* payloads that are stored
  InitValue     \* the payload of a fresh SeqLocked: T data_{}

VARIABLES
  cell,         \* the payload of the last store that took effect
  phase,        \* per reader: no load, a load under way, value taken
  result        \* per reader: the value the load will return

cellVars == <<cell, phase, result>>

Init ==
  /\ cell = InitValue
  /\ phase = [r \in Readers |-> "idle"]
  /\ result = [r \in Readers |-> InitValue]

Store(v) ==
  /\ cell' = v
  /\ UNCHANGED <<phase, result>>

Invoke(r) ==
  /\ phase[r] = "idle"
  /\ phase' = [phase EXCEPT ![r] = "pending"]
  /\ UNCHANGED <<cell, result>>

Take(r) ==
  /\ phase[r] = "pending"
  /\ phase' = [phase EXCEPT ![r] = "took"]
  /\ result' = [result EXCEPT ![r] = cell]
  /\ UNCHANGED cell

Return(r) ==
  /\ phase[r] = "took"
  /\ phase' = [phase EXCEPT ![r] = "idle"]
  /\ result' = [result EXCEPT ![r] = InitValue]
  /\ UNCHANGED cell

Next ==
  \/ \E v \in Values : Store(v)
  \/ \E r \in Readers : Invoke(r) \/ Take(r) \/ Return(r)

Spec == Init /\ [][Next]_cellVars
=============================================================================
