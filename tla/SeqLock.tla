------------------------------- MODULE SeqLock -------------------------------
(***************************************************************************)
(* SeqLocked<T> of include/shared_state.hpp: one writer thread calls       *)
(* store(), any number of reader threads call load().  Every access to     *)
(* seq_ is one step; the plain copies of data_ are one step per word, in   *)
(* any order, because the copy of a struct is not atomic.                  *)
(*                                                                         *)
(* Reorder = FALSE: memory accesses take effect in program order.          *)
(* Reorder = TRUE: the reorderings of the plain accesses to data_ that the *)
(* memory orders written in the source leave open.  A release store does   *)
(* not keep LATER writes behind it, so words of data_ may be written       *)
(* before seq_ is made odd; an acquire load does not keep EARLIER reads    *)
(* before it, so words of data_ may be read after seq_ is read again.      *)
(***************************************************************************)
EXTENDS Integers

CONSTANTS
  Readers,      \* threads that call load()
  Words,        \* the words that make up a T
  Values,       \* payloads; word w of payload v is represented by v
  InitValue,    \* payload of T data_{}
  SeqMod,       \* number of values of seq_: 2^32 in the code
  Reorder       \* see above

ASSUME SeqModAssumption ==
  SeqMod \in Nat /\ SeqMod > 2 /\ SeqMod % 2 = 0

ASSUME ReorderAssumption == Reorder \in BOOLEAN

ASSUME WordsAssumption == Words # {}

ASSUME InitValueAssumption == InitValue \in Values

VARIABLES
  seq,          \* seq_
  data,         \* data_, word by word
  wpc,          \* where the writer is in store()
  wval,         \* the argument of store()
  wleft,        \* words the writer has still to write
  rpc,          \* where each reader is in load()
  s1, s2,       \* load()'s two readings of seq_
  snap,         \* load()'s snapshot, word by word
  rleft,        \* words the reader has still to read
  committed,    \* history: payload of the last completed store
  age           \* history: changes of seq_ since the reader read s1

writerVars == <<wpc, wval, wleft>>
readerVars == <<rpc, s1, s2, snap, rleft>>
vars == <<seq, data, writerVars, readerVars, committed, age>>

Whole(v) == [w \in Words |-> v]

Odd(s) == s % 2 = 1

\* Faulty: seq_ is not reduced to its width.
BumpNoWrap(s) == s + 1

\* uint32_t addition of 1.
Bump(s) == IF s = SeqMod - 1 THEN 0 ELSE s + 1

\* Readers between their reading of s1 and their reading of s2.
Copying == {r \in Readers : rpc[r] = "copy"}

Aged == [r \in Readers |-> IF r \in Copying THEN age[r] + 1 ELSE age[r]]

(***************************************************************************)
(* Bound: seq_ does not go all the way round during one load().  For the   *)
(* code this says that a load() does not last 2^31 stores.  A store() that *)
(* has been called is never held up by it.                                 *)
(***************************************************************************)
NoWrapDuringLoad == \A r \in Copying : age[r] + 2 < SeqMod

-----------------------------------------------------------------------------
Init ==
  /\ seq = 0
  /\ data = Whole(InitValue)
  /\ wpc = "idle"
  /\ wval = InitValue
  /\ wleft = {}
  /\ rpc = [r \in Readers |-> "idle"]
  /\ s1 = [r \in Readers |-> 0]
  /\ s2 = [r \in Readers |-> 0]
  /\ snap = [r \in Readers |-> Whole(InitValue)]
  /\ rleft = [r \in Readers |-> {}]
  /\ committed = InitValue
  /\ age = [r \in Readers |-> 0]

(***************************************************************************)
(* store()                                                                 *)
(***************************************************************************)
StoreCall(v) ==
  /\ wpc = "idle"
  /\ NoWrapDuringLoad
  /\ wpc' = "mark"
  /\ wval' = v
  /\ wleft' = Words
  /\ UNCHANGED <<seq, data, readerVars, committed, age>>

\* Faulty: the writer waits for the readers, as with a lock.
StoreMarkWaits ==
  /\ wpc = "mark"
  /\ Copying = {}
  /\ wpc' = "copy"
  /\ seq' = Bump(seq)
  /\ age' = Aged
  /\ UNCHANGED <<data, wval, wleft, readerVars, committed>>

\* seq_.store(s + 1, release)
StoreMark ==
  /\ wpc = "mark"
  /\ wpc' = "copy"
  /\ seq' = Bump(seq)
  /\ age' = Aged
  /\ UNCHANGED <<data, wval, wleft, readerVars, committed>>

\* One word of data_ = value.
StoreWord(w) ==
  /\ wpc = "copy" \/ (Reorder /\ wpc = "mark")
  /\ w \in wleft
  /\ data' = [data EXCEPT ![w] = wval]
  /\ wleft' = wleft \ {w}
  /\ UNCHANGED <<seq, wpc, wval, readerVars, committed, age>>

\* Faulty: the second store to seq_ is forgotten, seq_ stays odd.
StoreDoneStaysOdd ==
  /\ wpc = "copy"
  /\ wleft = {}
  /\ wpc' = "idle"
  /\ committed' = wval
  /\ UNCHANGED <<seq, data, wval, wleft, readerVars, age>>

\* seq_.store(s + 2, release): every word has been written before it.
StoreDone ==
  /\ wpc = "copy"
  /\ wleft = {}
  /\ wpc' = "idle"
  /\ seq' = Bump(seq)
  /\ age' = Aged
  /\ committed' = wval
  /\ UNCHANGED <<data, wval, wleft, readerVars>>

(***************************************************************************)
(* load()                                                                  *)
(***************************************************************************)
LoadCall(r) ==
  /\ rpc[r] = "idle"
  /\ rpc' = [rpc EXCEPT ![r] = "seq1"]
  /\ UNCHANGED <<seq, data, writerVars, s1, s2, snap, rleft, committed, age>>

\* Faulty: the test for an odd seq_ is missing.
LoadSeq1Odd(r) ==
  /\ rpc[r] = "seq1"
  /\ rpc' = [rpc EXCEPT ![r] = "copy"]
  /\ s1' = [s1 EXCEPT ![r] = seq]
  /\ rleft' = [rleft EXCEPT ![r] = Words]
  /\ age' = [age EXCEPT ![r] = 0]
  /\ UNCHANGED <<seq, data, writerVars, s2, snap, committed>>

\* Faulty: data_ is not copied, the snapshot of the last load() is used.
LoadSeq1Cached(r) ==
  /\ rpc[r] = "seq1"
  /\ ~Odd(seq)
  /\ rpc' = [rpc EXCEPT ![r] = "copy"]
  /\ s1' = [s1 EXCEPT ![r] = seq]
  /\ age' = [age EXCEPT ![r] = 0]
  /\ UNCHANGED <<seq, data, writerVars, s2, snap, rleft, committed>>

\* The reader spins (a stuttering step) for as long as seq_ is odd.
LoadSeq1(r) ==
  /\ rpc[r] = "seq1"
  /\ ~Odd(seq)
  /\ rpc' = [rpc EXCEPT ![r] = "copy"]
  /\ s1' = [s1 EXCEPT ![r] = seq]
  /\ rleft' = [rleft EXCEPT ![r] = Words]
  /\ age' = [age EXCEPT ![r] = 0]
  /\ UNCHANGED <<seq, data, writerVars, s2, snap, committed>>

\* One word of snapshot = data_.
LoadWord(r, w) ==
  /\ rpc[r] = "copy" \/ (Reorder /\ rpc[r] = "check")
  /\ w \in rleft[r]
  /\ snap' = [snap EXCEPT ![r][w] = data[w]]
  /\ rleft' = [rleft EXCEPT ![r] = @ \ {w}]
  /\ UNCHANGED <<seq, data, writerVars, rpc, s1, s2, committed, age>>

LoadSeq2(r) ==
  /\ rpc[r] = "copy"
  /\ rleft[r] = {} \/ Reorder
  /\ rpc' = [rpc EXCEPT ![r] = "check"]
  /\ s2' = [s2 EXCEPT ![r] = seq]
  /\ UNCHANGED <<seq, data, writerVars, s1, snap, rleft, committed, age>>

Accepts(r) == s1[r] = s2[r]

\* if (s1 == s2) return snapshot; otherwise once more round the loop.
LoadCheck(r) ==
  /\ rpc[r] = "check"
  /\ rleft[r] = {}
  /\ rpc' = [rpc EXCEPT ![r] = IF Accepts(r) THEN "idle" ELSE "seq1"]
  /\ UNCHANGED <<seq, data, writerVars, s1, s2, snap, rleft, committed, age>>

-----------------------------------------------------------------------------
StoreStep ==
  \/ StoreMark
  \/ \E w \in Words : StoreWord(w)
  \/ StoreDone

LoadStep(r) ==
  \/ LoadSeq1(r)
  \/ \E w \in Words : LoadWord(r, w)
  \/ LoadSeq2(r)
  \/ LoadCheck(r)

Next ==
  \/ \E v \in Values : StoreCall(v)
  \/ StoreStep
  \/ \E r \in Readers : LoadCall(r) \/ LoadStep(r)

Spec == Init /\ [][Next]_vars

-----------------------------------------------------------------------------
TypeOK ==
  /\ seq \in 0 .. SeqMod - 1
  /\ data \in [Words -> Values]
  /\ wpc \in {"idle", "mark", "copy"}
  /\ wval \in Values
  /\ wleft \subseteq Words
  /\ rpc \in [Readers -> {"idle", "seq1", "copy", "check"}]
  /\ s1 \in [Readers -> 0 .. SeqMod - 1]
  /\ s2 \in [Readers -> 0 .. SeqMod - 1]
  /\ snap \in [Readers -> [Words -> Values]]
  /\ rleft \in [Readers -> SUBSET Words]
  /\ committed \in Values
  /\ age \in [Readers -> 0 .. SeqMod - 1]

(***************************************************************************)
(* A load() that is about to return has a snapshot all of whose words come *)
(* from one store: "Reader ... does not see torn data", shared_state.hpp   *)
(* line 10, for the retry loop of load().                                  *)
(***************************************************************************)
NoTornRead ==
  \A r \in Readers :
    (rpc[r] = "check" /\ rleft[r] = {} /\ Accepts(r))
      => \E v \in Values : snap[r] = Whole(v)

\* A reader whose second reading of seq_ agrees with the first.
Took(r) == rpc[r] = "check" /\ Accepts(r)

(***************************************************************************)
(* SeqLocked implements the atomic cell: a store takes effect when seq_    *)
(* becomes even again, a load when it reads the same even seq_ again.      *)
(***************************************************************************)
PhaseOf(r) ==
  IF rpc[r] = "idle" THEN "idle" ELSE IF Took(r) THEN "took" ELSE "pending"

ResultOf(r) ==
  IF Took(r) THEN CHOOSE v \in Values : snap[r] = Whole(v) ELSE InitValue

Cell == INSTANCE AtomicCell WITH
  cell <- committed,
  phase <- [r \in Readers |-> PhaseOf(r)],
  result <- [r \in Readers |-> ResultOf(r)]

(***************************************************************************)
(* Every behaviour of store() and load() is one of the atomic cell: loads  *)
(* are never torn, never return a payload older than their call, and one   *)
(* reader's loads never go back to an older store.                         *)
(***************************************************************************)
ImplementsCell == Cell!Spec
=============================================================================
