---------------------------- MODULE SeqLockProofs ----------------------------
(***************************************************************************)
(* Proofs about SeqLock and SeqLockSched: for any readers, payloads, size  *)
(* of a payload, width of seq_ and placement, load() returns no torn       *)
(* snapshot when the accesses take effect in program order, and no reader  *)
(* spins on the CPU of its writer.                                         *)
(***************************************************************************)
EXTENDS SeqLockSched, TLAPS

-----------------------------------------------------------------------------
\* seq_ after n more changes.
Plus(s, n) == IF s + n < SeqMod THEN s + n ELSE s + n - SeqMod

\* Changes of seq_ still to come from a store() that was called.
Pending == IF wpc = "idle" THEN 0 ELSE IF wpc = "mark" THEN 2 ELSE 1

\* seq_ is odd exactly while data_ is being written.
WriterInv ==
  /\ Odd(seq) <=> wpc = "copy"
  /\ wpc # "copy" => data = Whole(committed)
  /\ wpc = "mark" => wleft = Words
  /\ wpc = "copy" => \A w \in Words \ wleft : data[w] = wval

\* What a reader between its two readings of seq_ can rely on.
CopyInv(r) ==
  /\ ~Odd(s1[r])
  /\ age[r] + Pending < SeqMod
  /\ seq = Plus(s1[r], age[r])
  /\ age[r] = 0 => \A w \in Words \ rleft[r] : snap[r][w] = committed

ReaderInv ==
  \A r \in Readers :
    /\ rpc[r] = "copy" => CopyInv(r)
    /\ rpc[r] = "check" => rleft[r] = {}
    /\ (rpc[r] = "check" /\ Accepts(r)) => \E v \in Values : snap[r] = Whole(v)

IInv == TypeOK /\ WriterInv /\ ReaderInv

-----------------------------------------------------------------------------
USE SeqModAssumption

\* Adding 1 to seq_ keeps its width and changes its parity.
LEMMA BumpType == ASSUME NEW s \in 0 .. SeqMod - 1
                  PROVE  /\ Bump(s) \in 0 .. SeqMod - 1
                         /\ Odd(Bump(s)) <=> ~Odd(s)
  BY DEF Bump, Odd

\* Adding 1 to seq_ is one more change, the wrap at SeqMod included.
LEMMA PlusBump ==
  ASSUME NEW s \in 0 .. SeqMod - 1, NEW n \in Nat, n + 1 < SeqMod
  PROVE  Bump(Plus(s, n)) = Plus(s, n + 1)
  BY DEF Bump, Plus

\* Fewer than SeqMod changes bring seq_ back to s only if there were none.
LEMMA PlusFixed ==
  ASSUME NEW s \in 0 .. SeqMod - 1, NEW n \in 0 .. SeqMod - 1, Plus(s, n) = s
  PROVE  n = 0
  BY DEF Plus

-----------------------------------------------------------------------------
\* A fresh SeqLocked: seq_ is even and data_ is T{}.
THEOREM InitInv == Init => IInv
  BY InitValueAssumption
  DEF Init, IInv, TypeOK, WriterInv, ReaderInv, Odd, Whole

(***************************************************************************)
(* The actions of the writer.  What they change for a reader that copies   *)
(* is its age, and seq_ with it.                                           *)
(***************************************************************************)
LEMMA StoreCallInv ==
  ASSUME NEW v \in Values, IInv, StoreCall(v) PROVE IInv'
  BY DEF IInv, TypeOK, WriterInv, ReaderInv, CopyInv, Pending, StoreCall,
         NoWrapDuringLoad, Copying, readerVars, Accepts, Whole

\* While a store() has a change of seq_ to come, the age of a copying reader
\* can grow by one: NoWrapDuringLoad was tested when the store() was called.
LEMMA AgedType ==
  ASSUME TypeOK, ReaderInv, Pending >= 1
  PROVE  /\ Aged \in [Readers -> 0 .. SeqMod - 1]
         /\ \A r \in Readers : rpc[r] = "copy" =>
              /\ Aged[r] = age[r] + 1
              /\ Bump(seq) = Plus(s1[r], Aged[r])
<1>1. \A r \in Readers : rpc[r] = "copy" => age[r] + 1 < SeqMod
  BY DEF TypeOK, ReaderInv, CopyInv, Pending
<1>2. Aged \in [Readers -> 0 .. SeqMod - 1]
  BY <1>1 DEF Aged, Copying, TypeOK
<1>3. ASSUME NEW r \in Readers, rpc[r] = "copy"
      PROVE  Aged[r] = age[r] + 1 /\ Bump(seq) = Plus(s1[r], Aged[r])
  BY <1>1, <1>3, PlusBump DEF Aged, Copying, TypeOK, ReaderInv, CopyInv
<1>4. QED
  BY <1>2, <1>3

\* seq_ becomes odd before the first word of data_ is written.
LEMMA StoreMarkInv == IInv /\ StoreMark => IInv'
<1> SUFFICES ASSUME IInv, StoreMark PROVE IInv'
  OBVIOUS
<1> USE DEF StoreMark
<1>1. TypeOK /\ ReaderInv /\ Pending = 2
  BY DEF IInv, Pending
<1>2. Pending' = 1
  BY DEF Pending
<1>3. TypeOK'
  BY <1>1, AgedType, BumpType DEF TypeOK, readerVars
<1>4. WriterInv'
  BY <1>1, BumpType DEF IInv, TypeOK, WriterInv
<1>5. ASSUME NEW r \in Readers, rpc[r] = "copy"
      PROVE  CopyInv(r)'
  BY <1>1, <1>2, <1>5, AgedType DEF TypeOK, ReaderInv, CopyInv, readerVars
<1>6. ReaderInv'
  BY <1>1, <1>5 DEF ReaderInv, readerVars, Accepts, Whole
<1>7. QED
  BY <1>3, <1>4, <1>6 DEF IInv

\* A word of data_ is written while seq_ is odd, so no reader that saw the
\* present seq_ copies it (age 0 is excluded by parity).
LEMMA StoreWordInv ==
  ASSUME Reorder = FALSE, NEW w \in Words, IInv, StoreWord(w) PROVE IInv'
<1> USE DEF StoreWord
<1>1. TypeOK'
  BY DEF IInv, TypeOK, readerVars
<1>2. WriterInv'
  BY DEF IInv, TypeOK, WriterInv
<1>3. ReaderInv'
  BY DEF IInv, ReaderInv, CopyInv, Pending, readerVars, Accepts, Whole
<1>4. QED
  BY <1>1, <1>2, <1>3 DEF IInv

\* seq_ becomes even when data_ holds the whole of the new payload.
LEMMA StoreDoneInv == IInv /\ StoreDone => IInv'
<1> SUFFICES ASSUME IInv, StoreDone PROVE IInv'
  OBVIOUS
<1> USE DEF StoreDone
<1>1. TypeOK /\ ReaderInv /\ Pending = 1
  BY DEF IInv, Pending
<1>2. Pending' = 0
  BY DEF Pending
<1>3. TypeOK'
  BY <1>1, AgedType, BumpType DEF TypeOK, readerVars
<1>4. WriterInv'
  BY <1>1, BumpType DEF IInv, TypeOK, WriterInv, Whole
<1>5. ASSUME NEW r \in Readers, rpc[r] = "copy"
      PROVE  CopyInv(r)'
  BY <1>1, <1>2, <1>5, AgedType DEF TypeOK, ReaderInv, CopyInv, readerVars
<1>6. ReaderInv'
  BY <1>1, <1>5 DEF ReaderInv, readerVars, Accepts, Whole
<1>7. QED
  BY <1>3, <1>4, <1>6 DEF IInv

(***************************************************************************)
(* The actions of a reader change what the invariant says of that reader   *)
(* only.                                                                   *)
(***************************************************************************)
\* A load() that begins relies on nothing yet.
LEMMA LoadCallInv ==
  ASSUME NEW r \in Readers, IInv, LoadCall(r) PROVE IInv'
  BY DEF IInv, TypeOK, WriterInv, ReaderInv, CopyInv, Pending, LoadCall,
         writerVars, Accepts, Whole

\* The first reading of seq_ is even: its age is 0 and no word is copied yet.
LEMMA LoadSeq1Inv ==
  ASSUME NEW r \in Readers, IInv, LoadSeq1(r) PROVE IInv'
<1> USE DEF LoadSeq1
<1>1. TypeOK'
  BY DEF IInv, TypeOK, writerVars
<1>2. WriterInv'
  BY DEF IInv, WriterInv, writerVars, Whole
<1>3. CopyInv(r)'
  BY DEF IInv, TypeOK, WriterInv, CopyInv, Pending, Plus, writerVars
<1>4. ASSUME NEW q \in Readers, q # r, rpc[q] = "copy"
      PROVE  CopyInv(q)'
  BY <1>4 DEF IInv, TypeOK, ReaderInv, CopyInv, Pending, writerVars
<1>5. ReaderInv'
  BY <1>3, <1>4 DEF IInv, TypeOK, ReaderInv, Accepts, Whole
<1>6. QED
  BY <1>1, <1>2, <1>5 DEF IInv

\* A word copied at age 0 is a word of the committed payload.
LEMMA LoadWordInv ==
  ASSUME Reorder = FALSE, NEW r \in Readers, NEW w \in Words, IInv, LoadWord(r, w)
  PROVE  IInv'
<1> USE DEF LoadWord
<1>1. rpc[r] = "copy" /\ TypeOK /\ WriterInv /\ CopyInv(r)
  BY DEF IInv, ReaderInv
<1>2. TypeOK'
  BY DEF IInv, TypeOK, writerVars
<1>3. WriterInv'
  BY DEF IInv, WriterInv, writerVars, Whole
<1>4. CopyInv(r)'
  <2>1. age[r] = 0 => data[w] = committed
    <3>1. age[r] = 0 => seq = s1[r]
      BY <1>1 DEF TypeOK, CopyInv, Plus
    <3>2. age[r] = 0 => data = Whole(committed)
      BY <1>1, <3>1 DEF WriterInv, CopyInv
    <3>3. QED
      BY <3>2 DEF Whole
  <2>2. age[r] = 0 => \A x \in Words \ rleft'[r] : snap'[r][x] = committed
    BY <1>1, <2>1 DEF TypeOK, CopyInv
  <2>3. QED
    BY <1>1, <2>2 DEF TypeOK, CopyInv, Pending, writerVars
<1>5. ASSUME NEW q \in Readers, q # r, rpc[q] = "copy"
      PROVE  CopyInv(q)'
  BY <1>5 DEF IInv, TypeOK, ReaderInv, CopyInv, Pending, writerVars
<1>6. ReaderInv'
  BY <1>1, <1>4, <1>5 DEF IInv, TypeOK, ReaderInv, Accepts, Whole
<1>7. QED
  BY <1>2, <1>3, <1>6 DEF IInv

(***************************************************************************)
(* The heart of the argument: equal readings of seq_ mean age 0, since the *)
(* age stays below SeqMod, and age 0 means that data_ did not change.      *)
(***************************************************************************)
LEMMA StableSnapshot ==
  ASSUME IInv, NEW r \in Readers, rpc[r] = "copy", rleft[r] = {}, s1[r] = seq
  PROVE  age[r] = 0 /\ snap[r] = Whole(committed)
<1>1. TypeOK /\ CopyInv(r)
  BY DEF IInv, ReaderInv
<1>2. age[r] = 0
  BY <1>1, PlusFixed DEF TypeOK, CopyInv
<1>3. snap[r] \in [Words -> Values] /\ \A w \in Words : snap[r][w] = committed
  BY <1>1, <1>2 DEF TypeOK, CopyInv
<1>4. QED
  BY <1>2, <1>3 DEF Whole

\* If the second reading of seq_ agrees, the snapshot is whole.
LEMMA LoadSeq2Inv ==
  ASSUME Reorder = FALSE, NEW r \in Readers, IInv, LoadSeq2(r) PROVE IInv'
<1> USE DEF LoadSeq2
<1>1. TypeOK'
  BY DEF IInv, TypeOK, writerVars
<1>2. WriterInv'
  BY DEF IInv, WriterInv, writerVars, Whole
<1>3. rpc'[r] = "check" /\ rleft'[r] = {} /\ s2'[r] = seq
  BY DEF IInv, TypeOK
<1>4. Accepts(r)' => snap'[r] = Whole(committed)'
  BY <1>3, StableSnapshot DEF Accepts, Whole
<1>5. ASSUME NEW q \in Readers, q # r
      PROVE  /\ rpc'[q] = rpc[q] /\ Accepts(q)' = Accepts(q)
             /\ rpc[q] = "copy" => CopyInv(q)'
  BY <1>5 DEF IInv, TypeOK, ReaderInv, CopyInv, Pending, writerVars, Accepts
<1>6. committed' \in Values
  BY <1>1 DEF TypeOK
<1>7. ReaderInv'
  BY <1>3, <1>4, <1>5, <1>6 DEF IInv, ReaderInv, Whole
<1>8. QED
  BY <1>1, <1>2, <1>7 DEF IInv

\* Accepting or retrying leaves nothing to rely on.
LEMMA LoadCheckInv ==
  ASSUME NEW r \in Readers, IInv, LoadCheck(r) PROVE IInv'
  BY DEF IInv, TypeOK, WriterInv, ReaderInv, CopyInv, Pending, LoadCheck,
         writerVars, Accepts, Whole

-----------------------------------------------------------------------------
\* Every step of store() and load() preserves the invariant.
THEOREM StepInv ==
  ASSUME Reorder = FALSE PROVE IInv /\ [Next]_vars => IInv'
<1> SUFFICES ASSUME IInv, [Next]_vars PROVE IInv'
  OBVIOUS
<1>1. ASSUME NEW v \in Values, StoreCall(v) PROVE IInv'
  BY <1>1, StoreCallInv
<1>2. CASE StoreStep
  BY <1>2, StoreMarkInv, StoreWordInv, StoreDoneInv DEF StoreStep
<1>3. ASSUME NEW r \in Readers, LoadCall(r) PROVE IInv'
  BY <1>3, LoadCallInv
<1>4. ASSUME NEW r \in Readers, LoadStep(r) PROVE IInv'
  BY <1>4, LoadSeq1Inv, LoadWordInv, LoadSeq2Inv, LoadCheckInv DEF LoadStep
<1>5. CASE UNCHANGED vars
  BY <1>5 DEF vars, writerVars, readerVars, IInv, TypeOK, WriterInv, ReaderInv,
              CopyInv, Pending, Accepts, Whole
<1>6. QED
  BY <1>1, <1>2, <1>3, <1>4, <1>5 DEF Next

(***************************************************************************)
(* seq_ keeps its width, and every other variable its type.                *)
(***************************************************************************)
THEOREM TypeCorrect == ASSUME Reorder = FALSE PROVE Spec => []TypeOK
<1>1. IInv => TypeOK
  BY DEF IInv
<1>2. QED
  BY InitInv, StepInv, <1>1, PTL DEF Spec

(***************************************************************************)
(* load() of shared_state.hpp never returns a torn snapshot, for any       *)
(* number of readers, any payload and any width of seq_, as long as        *)
(* accesses are in program order and seq_ does not come round in one load. *)
(***************************************************************************)
THEOREM LoadsAreNotTorn == ASSUME Reorder = FALSE PROVE Spec => []NoTornRead
<1>1. IInv => NoTornRead
  BY DEF IInv, ReaderInv, NoTornRead
<1>2. QED
  BY InitInv, StepInv, <1>1, PTL DEF Spec

-----------------------------------------------------------------------------
(***************************************************************************)
(* Refinement of AtomicCell.                                               *)
(***************************************************************************)
\* A payload is known by its words, of which there is at least one.
LEMMA WholeInjective ==
  ASSUME NEW v \in Values PROVE (CHOOSE u \in Values : Whole(v) = Whole(u)) = v
  BY WordsAssumption DEF Whole

\* A fresh SeqLocked is a fresh cell.
THEOREM InitRefines == Init => Cell!Init
  BY DEF Init, Cell!Init, PhaseOf, ResultOf, Took

\* What PhaseOf and ResultOf look at.
LEMMA SameReader ==
  ASSUME NEW r \in Readers,
         rpc'[r] = rpc[r], s1'[r] = s1[r], s2'[r] = s2[r], snap'[r] = snap[r]
  PROVE  PhaseOf(r)' = PhaseOf(r) /\ ResultOf(r)' = ResultOf(r)
  BY DEF PhaseOf, ResultOf, Took, Accepts, Whole

\* A step that leaves the cell, and the phase and result of all readers, alone.
LEMMA CellStutters ==
  ASSUME committed' = committed,
         \A r \in Readers : PhaseOf(r)' = PhaseOf(r) /\ ResultOf(r)' = ResultOf(r)
  PROVE  UNCHANGED Cell!cellVars
  BY DEF Cell!cellVars

\* The cell is stored to when seq_ becomes even again; the other steps of
\* store() change nothing of the cell.
LEMMA StoreRefines ==
  IInv /\ ((\E v \in Values : StoreCall(v)) \/ StoreStep)
    => [Cell!Next]_(Cell!cellVars)
<1> SUFFICES ASSUME IInv, (\E v \in Values : StoreCall(v)) \/ StoreStep
             PROVE  [Cell!Next]_(Cell!cellVars)
  OBVIOUS
<1>1. \A r \in Readers : PhaseOf(r)' = PhaseOf(r) /\ ResultOf(r)' = ResultOf(r)
  BY SameReader
  DEF StoreStep, StoreCall, StoreMark, StoreWord, StoreDone, readerVars
<1>2. CASE StoreDone
  <2>1. wval \in Values /\ committed' = wval
    BY <1>2 DEF StoreDone, IInv, TypeOK
  <2>2. Cell!Store(wval)
    BY <1>1, <2>1 DEF Cell!Store
  <2>3. QED
    BY <2>1, <2>2 DEF Cell!Next
<1>3. CASE ~StoreDone
  <2>1. committed' = committed
    BY <1>3 DEF StoreStep, StoreCall, StoreMark, StoreWord
  <2>2. QED
    BY <1>1, <2>1, CellStutters
<1>4. QED
  BY <1>2, <1>3

\* The value is taken from the cell at the second reading of seq_ if it agrees
\* with the first; a retry changes nothing of the cell.
LEMMA LoadRefines ==
  ASSUME Reorder = FALSE, IInv, NEW r \in Readers, LoadCall(r) \/ LoadStep(r)
  PROVE  [Cell!Next]_(Cell!cellVars)
<1>1. committed' = committed
  BY DEF LoadCall, LoadStep, LoadSeq1, LoadWord, LoadSeq2, LoadCheck
<1>2. \A q \in Readers : q # r => PhaseOf(q)' = PhaseOf(q) /\ ResultOf(q)' = ResultOf(q)
  <2>1. \A q \in Readers : q # r =>
          /\ rpc'[q] = rpc[q] /\ s1'[q] = s1[q]
          /\ s2'[q] = s2[q] /\ snap'[q] = snap[q]
    BY DEF IInv, TypeOK, LoadCall, LoadStep, LoadSeq1, LoadWord, LoadSeq2, LoadCheck
  <2>2. QED
    BY <2>1, SameReader
<1>3. CASE LoadCall(r)
  <2>1. /\ PhaseOf(r) = "idle" /\ PhaseOf(r)' = "pending"
        /\ ResultOf(r)' = ResultOf(r)
    BY <1>3 DEF IInv, TypeOK, LoadCall, PhaseOf, ResultOf, Took
  <2>2. Cell!Invoke(r)
    BY <1>1, <1>2, <2>1 DEF Cell!Invoke
  <2>3. QED
    BY <2>2 DEF Cell!Next
<1>4. CASE LoadSeq1(r) \/ (\E w \in Words : LoadWord(r, w))
  <2>1. PhaseOf(r)' = PhaseOf(r) /\ ResultOf(r)' = ResultOf(r)
    BY <1>4 DEF IInv, TypeOK, LoadSeq1, LoadWord, PhaseOf, ResultOf, Took
  <2>2. QED
    BY <1>1, <1>2, <2>1, CellStutters
<1>5. CASE LoadSeq2(r)
  <2>1. /\ rpc[r] = "copy" /\ rleft[r] = {}
        /\ PhaseOf(r) = "pending" /\ ResultOf(r) = InitValue
    BY <1>5 DEF LoadSeq2, PhaseOf, ResultOf, Took
  <2>2. Took(r)' <=> s1[r] = seq
    BY <1>5 DEF IInv, TypeOK, LoadSeq2, Took, Accepts
  <2>3. CASE s1[r] = seq
    <3>1. snap[r] = Whole(committed) /\ committed \in Values
      BY <2>1, <2>3, StableSnapshot DEF IInv, TypeOK
    <3>2. ResultOf(r)' = committed
      BY <1>5, <2>2, <2>3, <3>1, WholeInjective DEF LoadSeq2, ResultOf, Whole
    <3>3. PhaseOf(r)' = "took"
      BY <1>5, <2>2, <2>3 DEF IInv, TypeOK, LoadSeq2, PhaseOf
    <3>4. Cell!Take(r)
      BY <1>1, <1>2, <2>1, <3>2, <3>3 DEF Cell!Take
    <3>5. QED
      BY <3>4 DEF Cell!Next
  <2>4. CASE s1[r] # seq
    <3>1. PhaseOf(r)' = "pending" /\ ResultOf(r)' = InitValue
      BY <1>5, <2>2, <2>4 DEF IInv, TypeOK, LoadSeq2, PhaseOf, ResultOf
    <3>2. QED
      BY <1>1, <1>2, <2>1, <3>1, CellStutters
  <2>5. QED
    BY <2>3, <2>4
<1>6. CASE LoadCheck(r)
  <2>1. CASE Accepts(r)
    <3>1. /\ PhaseOf(r) = "took" /\ PhaseOf(r)' = "idle"
          /\ ResultOf(r)' = InitValue
      BY <1>6, <2>1 DEF IInv, TypeOK, LoadCheck, PhaseOf, ResultOf, Took
    <3>2. Cell!Return(r)
      BY <1>1, <1>2, <3>1 DEF Cell!Return
    <3>3. QED
      BY <3>2 DEF Cell!Next
  <2>2. CASE ~Accepts(r)
    <3>1. PhaseOf(r)' = PhaseOf(r) /\ ResultOf(r)' = ResultOf(r)
      BY <1>6, <2>2 DEF IInv, TypeOK, LoadCheck, PhaseOf, ResultOf, Took
    <3>2. QED
      BY <1>1, <1>2, <3>1, CellStutters
  <2>3. QED
    BY <2>1, <2>2
<1>7. QED
  BY <1>3, <1>4, <1>5, <1>6 DEF LoadStep

\* Every step of SeqLocked is a step of the cell, or changes nothing of it.
THEOREM StepRefines ==
  ASSUME Reorder = FALSE PROVE IInv /\ [Next]_vars => [Cell!Next]_(Cell!cellVars)
<1> SUFFICES ASSUME IInv, [Next]_vars PROVE [Cell!Next]_(Cell!cellVars)
  OBVIOUS
<1>1. CASE UNCHANGED vars
  <2>1. committed' = committed
    BY <1>1 DEF vars
  <2>2. \A r \in Readers : PhaseOf(r)' = PhaseOf(r) /\ ResultOf(r)' = ResultOf(r)
    BY <1>1 DEF vars, readerVars, PhaseOf, ResultOf, Took, Accepts, Whole
  <2>3. QED
    BY <2>1, <2>2, CellStutters
<1>2. QED
  BY <1>1, StoreRefines, LoadRefines DEF Next

(***************************************************************************)
(* A SeqLocked behaves as an atomic cell: every load() returns a payload   *)
(* that the slot held at one instant between its call and its return.      *)
(***************************************************************************)
THEOREM SeqLockedIsAtomic == ASSUME Reorder = FALSE PROVE Spec => ImplementsCell
<1>1. Spec => []IInv
  BY InitInv, StepInv, PTL DEF Spec
<1>2. QED
  BY <1>1, InitRefines, StepRefines, PTL DEF Spec, ImplementsCell, Cell!Spec

-----------------------------------------------------------------------------
(***************************************************************************)
(* A load() goes round its loop again (line 131 of shared_state.hpp) only  *)
(* if the writer changed seq_ after the load's first reading: a reader is  *)
(* never made to retry by other readers, nor by what it read before.       *)
(***************************************************************************)
RetryMeansStore ==
  \A r \in Readers : (rpc[r] = "check" /\ ~Accepts(r)) => age[r] > 0

(***************************************************************************)
(* What holds with the accesses to data_ reordered too: it concerns seq_,  *)
(* whose accesses keep their order.  seq_ is odd while store() is between  *)
(* its two changes of it, and what a reader has seen of seq_ is as many    *)
(* changes old as its age says, the bound NoWrapDuringLoad being tested    *)
(* when a store() is called.                                               *)
(***************************************************************************)
SeqInv ==
  /\ seq \in 0 .. SeqMod - 1
  /\ wpc \in {"idle", "mark", "copy"}
  /\ rpc \in [Readers -> {"idle", "seq1", "copy", "check"}]
  /\ s1 \in [Readers -> 0 .. SeqMod - 1]
  /\ s2 \in [Readers -> 0 .. SeqMod - 1]
  /\ age \in [Readers -> Nat]
  /\ Odd(seq) <=> wpc = "copy"
  /\ \A r \in Readers : rpc[r] = "copy" /\ age[r] = 0 => seq = s1[r]
  /\ RetryMeansStore

\* A reader that copies is one change of seq_ older after a step of store().
LEMMA AgedIsOlder ==
  ASSUME SeqInv
  PROVE  /\ Aged \in [Readers -> Nat]
         /\ \A r \in Readers :
              /\ rpc[r] = "copy" => Aged[r] # 0
              /\ rpc[r] # "copy" => Aged[r] = age[r]
  BY DEF SeqInv, Aged, Copying

\* Every step of store() and load(), its accesses in whatever order, preserves
\* the invariant.
LEMMA SeqInvStep == SeqInv /\ [Next]_vars => SeqInv'
<1> SUFFICES ASSUME SeqInv, [Next]_vars PROVE SeqInv'
  OBVIOUS
<1> USE DEF SeqInv, RetryMeansStore, Accepts
<1>1. ASSUME NEW v \in Values, StoreCall(v) PROVE SeqInv'
  BY <1>1 DEF StoreCall, readerVars
<1>2. CASE StoreMark
  BY <1>2, AgedIsOlder, BumpType DEF StoreMark, readerVars
<1>3. ASSUME NEW w \in Words, StoreWord(w) PROVE SeqInv'
  BY <1>3 DEF StoreWord, readerVars
<1>4. CASE StoreDone
  BY <1>4, AgedIsOlder, BumpType DEF StoreDone, readerVars
<1>5. ASSUME NEW r \in Readers, LoadCall(r) PROVE SeqInv'
  BY <1>5 DEF LoadCall, writerVars
<1>6. ASSUME NEW r \in Readers, LoadSeq1(r) PROVE SeqInv'
  BY <1>6 DEF LoadSeq1, writerVars
<1>7. ASSUME NEW r \in Readers, NEW w \in Words, LoadWord(r, w) PROVE SeqInv'
  BY <1>7 DEF LoadWord, writerVars
<1>8. ASSUME NEW r \in Readers, LoadSeq2(r) PROVE SeqInv'
  BY <1>8 DEF LoadSeq2, writerVars
<1>9. ASSUME NEW r \in Readers, LoadCheck(r) PROVE SeqInv'
  BY <1>9 DEF LoadCheck, writerVars
<1>10. CASE UNCHANGED vars
  BY <1>10 DEF vars, writerVars, readerVars
<1>11. QED
  BY <1>1, <1>2, <1>3, <1>4, <1>5, <1>6, <1>7, <1>8, <1>9, <1>10
  DEF Next, StoreStep, LoadStep

\* A fresh SeqLocked.
LEMMA SeqInvInit == Init => SeqInv
  BY DEF Init, SeqInv, RetryMeansStore, Odd

(***************************************************************************)
(* load() retries only because of a store(): a reader that is alone with   *)
(* an idle writer returns at its first attempt, with the memory orders of  *)
(* the source too.                                                         *)
(***************************************************************************)
THEOREM RetriesAreCaused == Spec => []RetryMeansStore
<1>1. SeqInv => RetryMeansStore
  BY DEF SeqInv
<1>2. QED
  BY <1>1, SeqInvInit, SeqInvStep, PTL DEF Spec

(***************************************************************************)
(* The scheduler only holds steps back: what is proved of Spec holds under *)
(* SCHED_FIFO with any placement.                                          *)
(***************************************************************************)
THEOREM SchedImplements == SchedSpec => Spec
<1>1. SchedInit => Init
  BY DEF SchedInit
<1>2. [SchedNext]_schedVars => [Next]_vars
  BY DEF SchedNext, schedVars, Next
<1>3. QED
  BY <1>1, <1>2, PTL DEF SchedSpec, Spec
=============================================================================
