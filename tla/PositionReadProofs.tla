------------------------- MODULE PositionReadProofs -------------------------
(***************************************************************************)
(* Proofs about PositionRead, for any motors on any number of channels,    *)
(* any MIT range, and queues of any size.                                  *)
(***************************************************************************)
EXTENDS PositionHistory, WellFoundedInduction, TLAPS

Config == PositionAssumption

FrameSet == [kind : {"READ", "STOP", "MODE", "MIT", "ENABLE"},
             motor : Motors, pos : Positions \cup {Unknown}]

AnswerSet == [motor : Motors, pos : Positions]

Indices == 0 .. (IF N = 0 THEN 0 ELSE N - 1)

\* Where the program is, and what it knows of the motors.
ListType ==
  /\ running \in BOOLEAN
  /\ found \in Seq(Motors) /\ N <= Len(Order)
  /\ selected \in Indices
  /\ cursor \in [Channels -> Indices]
  /\ tick \in 0 .. PollEvery - 1
  /\ enabled \in [Motors -> BOOLEAN]
  /\ hold \in [Motors -> MitRange \cup {Unknown}]

Switching == {"stop", "mode", "prime", "enable", "undo", "disable"}

\* The index belongs to the loop it is in, and Chosen to the list.
PlaceOK(a, k) ==
  /\ a \in {"scan", "initial", "ask", "wait", "key", "hold", "giveup", "poll", "drain",
            "sleep", "stopall", "exit"} \cup Switching
  /\ k \in 0 .. (IF a \in {"poll", "drain"} THEN NumChannels - 1 ELSE Len(Order) + 1)
  /\ a \in {"scan", "initial", "hold", "stopall", "giveup"} => k >= 1
  /\ a = "scan" => N < k
  /\ a \in {"initial", "hold", "stopall"} => k <= N + 1
  /\ a = "giveup" => k <= N

AskOK(a, k, who) ==
  /\ who \in {"initial", "on"}
  /\ a \in {"scan", "initial"} => who = "initial"
  /\ a \in {"ask", "wait"} => IF who = "initial" THEN k \in 1 .. N ELSE N > 0
  /\ a \in Switching => who = "on" /\ N > 0

Place == PlaceOK(at, i) /\ AskOK(at, i, asking)

QueueType ==
  /\ shown \in [Motors -> Positions \cup {Unknown}]
  /\ tx \in [Channels -> Seq(FrameSet)]
  /\ rx \in [Channels -> Seq(AnswerSet)]
  /\ pos \in [Motors -> Positions]
  /\ drive \in [Motors -> {"reset", "run"}]
  /\ target \in [Motors -> Positions \cup {Unknown}]
  /\ adrift \subseteq Motors

-----------------------------------------------------------------------------
LEMMA Constants ==
  /\ Order \in Seq(Motors) /\ Len(Order) \in Nat
  /\ \A k \in 1 .. Len(Order) : Order[k] \in Motors
  /\ NumChannels \in Nat \ {0} /\ Channels = 0 .. NumChannels - 1
  /\ Chan \in [Motors -> Channels] /\ MitRange \subseteq Positions /\ MitRange # {}
  /\ PollEvery \in Nat \ {0} /\ TxCap \in Nat \ {0} /\ RxCap \in Nat \ {0}
  /\ DrainMax \in Nat \ {0}
  BY PositionAssumption DEF Channels

LEMMA Remainder ==
  ASSUME NEW a \in Nat, NEW b \in Nat \ {0}
  PROVE  a % b \in 0 .. b - 1
  OBVIOUS

\* A set of natural numbers has a least one.
LEMMA LeastExists ==
  ASSUME NEW S, S \subseteq Nat, S # {}
  PROVE  \E x \in S : \A y \in S : x <= y
<1>1. PICK x \in S : \A y \in S : ~(<<y, x>> \in OpToRel(<, Nat))
  BY WFMin, NatLessThanWellFounded
<1>2. \A y \in S : y \in Nat /\ x \in Nat /\ (<<y, x>> \in OpToRel(<, Nat) <=> y < x)
  BY DEF OpToRel
<1>3. \A y \in S : y \in Nat /\ x \in Nat /\ ~(y < x)
  BY <1>1, <1>2, Zenon
<1>. QED
  BY <1>3

LEMMA MinIsLeast ==
  ASSUME NEW S, S \subseteq Nat, S # {}
  PROVE  Min(S) \in S /\ \A y \in S : Min(S) <= y
  BY LeastExists DEF Min

\* A bounded one has a greatest.
LEMMA MaxIsIn ==
  ASSUME NEW n \in Nat, NEW S, S \subseteq 0 .. n, S # {}
  PROVE  Max(S) \in S
<1>. DEFINE T == {n - x : x \in S}
<1>0. \A x \in S : n - x \in Nat
  OBVIOUS
<1>1. T \subseteq Nat /\ T # {}
  BY <1>0, Zenon
<1>2. PICK t \in T : \A y \in T : t <= y
  BY <1>1, LeastExists
<1>3. PICK x \in S : t = n - x
  BY <1>2
<1>4. \A y \in S : x >= y
  BY <1>2, <1>3
<1>. QED
  BY <1>4 DEF Max

LEMMA MinOfTwo ==
  ASSUME NEW a \in Nat, NEW b \in Nat
  PROVE  Min({a, b}) \in Nat /\ Min({a, b}) <= a /\ Min({a, b}) <= b
  BY MinIsLeast

\* The motor that is asked, switched on or off.
LEMMA ChosenType ==
  ASSUME ListType, Place, at \in {"ask", "wait"} \cup Switching
  PROVE  Chosen \in Motors
<1>1. IF asking = "initial" THEN i \in 1 .. N ELSE selected + 1 \in 1 .. N
  BY DEF ListType, Place, AskOK, Switching, Indices, N
<1>2. \A k \in 1 .. N : found[k] \in Motors
  BY DEF ListType, N
<1>. QED
  BY <1>1, <1>2 DEF Chosen

LEMMA FoundType ==
  ASSUME ListType
  PROVE  N \in Nat /\ \A k \in 1 .. N : found[k] \in Motors
  BY DEF ListType, N

LEMMA NextOn ==
  ASSUME ListType, i \in Nat \ {0}, OnFrom(i) # {}
  PROVE  LET j == Min(OnFrom(i))
         IN /\ j \in i .. N /\ j \in 1 .. N /\ j + 1 \in 1 .. N + 1
            /\ found[j] \in Motors /\ enabled[found[j]]
<1>1. N \in Nat /\ \A k \in 1 .. N : found[k] \in Motors
  BY FoundType
<1>2. OnFrom(i) \subseteq Nat
  BY <1>1 DEF OnFrom
<1>3. Min(OnFrom(i)) \in OnFrom(i)
  BY <1>2, MinIsLeast
<1>. QED
  BY <1>1, <1>3 DEF OnFrom

LEMMA NextOff ==
  ASSUME ListType, NEW c \in Channels, OffBehind(c) # {}
  PROVE  LET index == (cursor[c] + Min(OffBehind(c))) % N
         IN /\ N > 0 /\ index \in 0 .. N - 1 /\ (index + 1) % N \in 0 .. N - 1
            /\ found[index + 1] \in Motors
<1>1. N \in Nat /\ \A k \in 1 .. N : found[k] \in Motors
  BY FoundType
<1>2. OffBehind(c) \subseteq Nat /\ N > 0
  BY <1>1 DEF OffBehind
<1>3. Min(OffBehind(c)) \in Nat
  BY <1>2, MinIsLeast
<1>4. cursor[c] \in Nat
  BY <1>1, <1>2 DEF ListType, Indices
<1>. DEFINE index == (cursor[c] + Min(OffBehind(c))) % N
<1>5. index \in 0 .. N - 1
  <2>1. cursor[c] + Min(OffBehind(c)) \in Nat /\ N \in Nat \ {0}
    BY <1>1, <1>2, <1>3, <1>4
  <2>. QED
    BY <2>1, Remainder
<1>. HIDE DEF index
<1>6. index + 1 \in 1 .. N /\ index + 1 \in Nat /\ N \in Nat \ {0}
  BY <1>1, <1>2, <1>5
<1>7. (index + 1) % N \in 0 .. N - 1
  BY <1>6, Remainder
<1>. QED
  BY <1>1, <1>2, <1>5, <1>6, <1>7 DEF index

-----------------------------------------------------------------------------
(***************************************************************************)
(* The places of the program: each step leads to one whose index is right. *)
(***************************************************************************)
LEMMA GoPlace ==
  ASSUME UNCHANGED found, NEW a, NEW k, Go(a, k), PlaceOK(a, k), AskOK(a, k, asking')
  PROVE  Place'
<1>1. at' = a /\ i' = k /\ N' = N
  BY DEF Go, N
<1>. QED
  BY <1>1 DEF Place, PlaceOK, AskOK, Switching

\* The places that need nothing but a list.
LEMMA PlainPlaces ==
  ASSUME ListType, NEW who \in {"initial", "on"}
  PROVE  /\ \A a \in {"key", "hold", "stopall"} : PlaceOK(a, 1) /\ AskOK(a, 1, who)
         /\ \A a \in {"drain", "sleep", "exit"} : PlaceOK(a, 0) /\ AskOK(a, 0, who)
<1>1. N \in Nat /\ Len(Order) \in Nat /\ NumChannels \in Nat \ {0}
  BY FoundType, Constants
<1>2. ASSUME NEW a \in {"key", "hold", "stopall"} PROVE PlaceOK(a, 1) /\ AskOK(a, 1, who)
  BY <1>1, <1>2 DEF PlaceOK, AskOK, Switching
<1>3. ASSUME NEW a \in {"drain", "sleep", "exit"} PROVE PlaceOK(a, 0) /\ AskOK(a, 0, who)
  BY <1>1, <1>3 DEF PlaceOK, AskOK, Switching
<1>. QED
  BY <1>2, <1>3

LEMMA RoundPlace == ListType /\ Place /\ UNCHANGED <<found, asking>> /\ Round => Place'
<1>. SUFFICES ASSUME ListType, Place, UNCHANGED <<found, asking>>, Round PROVE Place'
  OBVIOUS
<1>1. asking \in {"initial", "on"} /\ asking' = asking
  BY DEF Place, AskOK
<1>2. \/ Go("key", 1) /\ PlaceOK("key", 1) /\ AskOK("key", 1, asking)
      \/ Go("stopall", 1) /\ PlaceOK("stopall", 1) /\ AskOK("stopall", 1, asking)
  BY <1>1, PlainPlaces DEF Round
<1>. QED
  BY <1>1, <1>2, GoPlace

LEMMA HoldPlace == ListType /\ Place /\ UNCHANGED <<found, asking>> /\ Go("hold", 1) => Place'
<1>. SUFFICES ASSUME ListType, Place, UNCHANGED <<found, asking>>, Go("hold", 1) PROVE Place'
  OBVIOUS
<1>1. asking \in {"initial", "on"} /\ asking' = asking
  BY DEF Place, AskOK
<1>2. PlaceOK("hold", 1) /\ AskOK("hold", 1, asking)
  BY <1>1, PlainPlaces
<1>. QED
  BY <1>1, <1>2, GoPlace

\* A refresh that got its answer, or not.
LEMMA RefreshPlace ==
  ASSUME ListType, Place, UNCHANGED <<found, asking>>, at \in {"ask", "wait"},
         NEW p, Failed \/ Answered(p) \/ Go("wait", i)
  PROVE  Place'
<1>1. /\ asking \in {"initial", "on"} /\ asking' = asking
      /\ IF asking = "initial" THEN i \in 1 .. N ELSE N > 0
      /\ N \in Nat /\ N <= Len(Order) /\ Len(Order) \in Nat /\ i \in 0 .. Len(Order) + 1
  BY FoundType, Constants DEF Place, AskOK, PlaceOK, ListType
<1>2. CASE asking = "initial" /\ Go("initial", i + 1)
  <2>1. PlaceOK("initial", i + 1) /\ AskOK("initial", i + 1, asking')
    BY <1>1, <1>2 DEF PlaceOK, AskOK, Switching
  <2>. QED
    BY <1>2, <2>1, GoPlace
<1>3. CASE asking = "on" /\ Go("stop", i)
  <2>1. PlaceOK("stop", i) /\ AskOK("stop", i, asking')
    BY <1>1, <1>3 DEF PlaceOK, AskOK, Switching
  <2>. QED
    BY <1>3, <2>1, GoPlace
<1>4. CASE Go("wait", i)
  <2>1. PlaceOK("wait", i) /\ AskOK("wait", i, asking')
    BY <1>1, <1>4 DEF PlaceOK, AskOK, Switching
  <2>. QED
    BY <1>4, <2>1, GoPlace
<1>. QED
  BY <1>1, <1>2, <1>3, <1>4, HoldPlace DEF Failed, Answered

\* The steps of enable_selected_motor() and disable_selected_motor().
LEMMA SwitchPlace ==
  ASSUME ListType, Place, UNCHANGED <<found, asking>>, at \in Switching,
         NEW a \in Switching, Go(a, i)
  PROVE  Place'
<1>1. /\ asking = "on" /\ asking' = asking /\ N > 0 /\ i \in 0 .. Len(Order) + 1
  BY DEF Place, AskOK, PlaceOK, Switching
<1>2. PlaceOK(a, i) /\ AskOK(a, i, asking')
  BY <1>1 DEF PlaceOK, AskOK, Switching
<1>. QED
  BY <1>2, GoPlace

LEMMA ChannelPlace ==
  ASSUME ListType, Place, UNCHANGED <<found, asking>>, at \in {"poll", "drain"},
         \/ at = "poll" /\ NextChannel("poll", "drain")
         \/ at = "drain" /\ NextChannel("drain", "sleep")
  PROVE  Place'
<1>1. /\ asking \in {"initial", "on"} /\ asking' = asking /\ N \in Nat
      /\ i \in 0 .. NumChannels - 1 /\ NumChannels \in Nat \ {0}
  BY FoundType, Constants DEF Place, AskOK, PlaceOK
<1>2. CASE i < NumChannels - 1 /\ Go(at, i + 1)
  <2>1. PlaceOK(at, i + 1) /\ AskOK(at, i + 1, asking')
    BY <1>1, <1>2 DEF PlaceOK, AskOK, Switching
  <2>. QED
    BY <1>2, <2>1, GoPlace
<1>3. ASSUME NEW a \in {"drain", "sleep"}, Go(a, 0) PROVE Place'
  <2>1. PlaceOK(a, 0) /\ AskOK(a, 0, asking')
    BY <1>1, <1>3, PlainPlaces
  <2>. QED
    BY <1>3, <2>1, GoPlace
<1>. QED
  BY <1>2, <1>3 DEF NextChannel

-----------------------------------------------------------------------------
(***************************************************************************)
(* Every step keeps the list and the places.                               *)
(***************************************************************************)
LEMMA KeepList ==
  ASSUME ListType, UNCHANGED <<found, selected, cursor, tick>>,
         running' \in BOOLEAN, enabled' \in [Motors -> BOOLEAN],
         hold' \in [Motors -> MitRange \cup {Unknown}]
  PROVE  ListType'
  BY DEF ListType, Indices, N

LEMMA SameList ==
  ListType /\ UNCHANGED <<listVars, enabled, hold>> /\ running' \in BOOLEAN => ListType'
<1>. SUFFICES ASSUME ListType, UNCHANGED <<listVars, enabled, hold>>, running' \in BOOLEAN
              PROVE  ListType'
  OBVIOUS
<1>1. /\ UNCHANGED <<found, selected, cursor, tick, enabled, hold>>
      /\ enabled \in [Motors -> BOOLEAN] /\ hold \in [Motors -> MitRange \cup {Unknown}]
  BY DEF listVars, ListType
<1>. QED
  BY <1>1, KeepList

LEMMA OutsideList == ListType /\ Place /\ OutsideStep => ListType' /\ Place'
<1>. SUFFICES ASSUME ListType, Place, OutsideStep PROVE ListType' /\ Place'
  OBVIOUS
<1>1. UNCHANGED <<placeVars, listVars, stateVars>> /\ running' \in BOOLEAN
  BY DEF OutsideStep, Signal, Deliver, Turn, ListType
<1>2. ListType'
  BY <1>1, SameList DEF stateVars
<1>3. UNCHANGED <<at, i, asking, found>>
  BY <1>1 DEF placeVars, listVars
<1>. QED
  BY <1>2, <1>3 DEF Place, PlaceOK, AskOK, N

\* The steps before the loop, and the loop but for what follows a key.
LEMMA RoundsList ==
  ASSUME ListType, Place,
         Scan \/ Initial \/ Throws \/ NoKey \/ Quit \/ Down \/ Up \/ Toggle \/ Hold \/ GiveUp
         \/ HoldEnds \/ Poll \/ Drain \/ Sleep \/ StopAll
  PROVE  ListType' /\ Place'
<1>0. /\ N \in Nat /\ N <= Len(Order) /\ Len(Order) \in Nat /\ running \in BOOLEAN
      /\ asking \in {"initial", "on"}
      /\ \A k \in 1 .. Len(Order) : Order[k] \in Motors
      /\ selected \in 0 .. (IF N = 0 THEN 0 ELSE N - 1) /\ PollEvery \in Nat \ {0}
      /\ NumChannels \in Nat \ {0} /\ tick \in 0 .. PollEvery - 1
  BY FoundType, Constants DEF ListType, Place, AskOK, Indices
<1>1. CASE Scan
  <2>1. /\ at = "scan" /\ asking = "initial" /\ asking' = asking
        /\ i \in 1 .. Len(Order) + 1 /\ N < i /\ running' = running
        /\ UNCHANGED <<selected, tick, cursor, enabled, hold>>
    BY <1>0, <1>1 DEF Scan, Place, PlaceOK, AskOK, stateVars
  <2>2. CASE found' = found
    <3>1. ListType'
      BY <1>0, <2>1, <2>2, SameList DEF listVars
    <3>2. CASE i <= Len(Order) /\ Go("scan", i + 1)
      <4>1. PlaceOK("scan", i + 1) /\ AskOK("scan", i + 1, asking')
        BY <1>0, <2>1, <3>2 DEF PlaceOK, AskOK, Switching
      <4>. QED
        BY <2>2, <3>1, <3>2, <4>1, GoPlace
    <3>3. CASE Go("initial", 1)
      <4>1. PlaceOK("initial", 1) /\ AskOK("initial", 1, asking')
        BY <1>0, <2>1 DEF PlaceOK, AskOK, Switching
      <4>. QED
        BY <2>2, <3>1, <3>3, <4>1, GoPlace
    <3>. QED
      BY <1>1, <3>2, <3>3 DEF Scan
  <2>3. CASE i <= Len(Order) /\ found' = Append(found, Order[i]) /\ Go("scan", i + 1)
    <3>1. found' \in Seq(Motors) /\ Len(found') = N + 1
      BY <1>0, <2>1, <2>3 DEF ListType, N
    <3>2. N' = N + 1
      BY <3>1 DEF N
    <3>3. Indices \subseteq Indices' /\ N' <= Len(Order)
      BY <1>0, <2>1, <2>3, <3>2 DEF Indices
    <3>4. ListType'
      BY <2>1, <3>1, <3>3 DEF ListType
    <3>5. Place'
      BY <1>0, <2>1, <2>3, <3>2 DEF Go, Place, PlaceOK, AskOK, Switching
    <3>. QED
      BY <3>4, <3>5
  <2>. QED
    BY <1>1, <2>2, <2>3 DEF Scan
<1>2. CASE Initial
  <2>1. at = "initial" /\ i \in 1 .. N + 1 /\ asking = "initial"
        /\ UNCHANGED <<running, asking, found, listVars, enabled, hold>>
    BY <1>0, <1>2 DEF Initial, Place, PlaceOK, AskOK, listVars, stateVars
  <2>2. CASE i <= N /\ Go("ask", i)
    <3>1. PlaceOK("ask", i) /\ AskOK("ask", i, asking')
      BY <1>0, <2>1, <2>2 DEF PlaceOK, AskOK, Switching
    <3>. QED
      BY <1>0, <2>1, <2>2, <3>1, GoPlace, SameList
  <2>3. CASE Round
    BY <1>0, <2>1, <2>3, RoundPlace, SameList
  <2>. QED
    BY <1>2, <2>2, <2>3 DEF Initial
<1>3. CASE Throws
  <2>1. PlaceOK("stopall", 1) /\ AskOK("stopall", 1, asking)
    BY <1>0, PlainPlaces
  <2>. QED
    BY <1>0, <1>3, <2>1, GoPlace, SameList DEF Throws, listVars, stateVars
<1>4. CASE NoKey \/ Quit
  BY <1>0, <1>4, HoldPlace, SameList DEF NoKey, Quit, listVars, stateVars
<1>5. CASE Down \/ Up
  <2>1. UNCHANGED <<running, asking, found, tick, cursor, enabled, hold>> /\ Go("hold", 1) /\ N > 0
    BY <1>5 DEF Down, Up, stateVars
  <2>2. selected + 1 \in Nat /\ selected + N - 1 \in Nat /\ N \in Nat \ {0}
    BY <1>0, <2>1
  <2>3. selected' = (selected + 1) % N \/ selected' = (selected + N - 1) % N
    BY <1>5 DEF Down, Up
  <2>4. selected' \in 0 .. N - 1
    BY <2>2, <2>3, Remainder
  <2>5. ListType'
    BY <1>0, <2>1, <2>4 DEF ListType, Indices, N
  <2>. QED
    BY <2>1, <2>5, HoldPlace
<1>6. CASE Toggle
  <2>1. UNCHANGED <<running, found, listVars, enabled, hold>> /\ N > 0 /\ asking' = "on"
    BY <1>6 DEF Toggle, listVars, stateVars
  <2>2. ASSUME NEW a \in {"disable", "ask"}, Go(a, 1) PROVE Place'
    <3>1. PlaceOK(a, 1) /\ AskOK(a, 1, asking')
      BY <1>0, <2>1 DEF PlaceOK, AskOK, Switching
    <3>. QED
      BY <2>1, <2>2, <3>1, GoPlace
  <2>. QED
    BY <1>0, <1>6, <2>1, <2>2, SameList DEF Toggle
<1>7. CASE Hold
  <2>1. UNCHANGED <<running, asking, found, listVars, enabled, hold>> /\ OnFrom(i) # {}
        /\ i \in Nat \ {0}
    BY <1>0, <1>7 DEF Hold, Place, PlaceOK, listVars, stateVars
  <2>. DEFINE j == Min(OnFrom(i))
  <2>2. j \in 1 .. N /\ j + 1 \in 1 .. N + 1
    BY <2>1, NextOn
  <2>3. Go("hold", j + 1) \/ Go("giveup", j)
    BY <1>7 DEF Hold
  <2>. HIDE DEF j
  <2>4. /\ PlaceOK("hold", j + 1) /\ AskOK("hold", j + 1, asking')
        /\ PlaceOK("giveup", j) /\ AskOK("giveup", j, asking')
    BY <1>0, <2>1, <2>2 DEF PlaceOK, AskOK, Switching
  <2>. QED
    BY <1>0, <2>1, <2>3, <2>4, GoPlace, SameList
<1>8. CASE GiveUp
  <2>1. /\ UNCHANGED <<running, asking, found, selected, cursor, tick, hold>> /\ i \in 1 .. N
        /\ Go("hold", i + 1) /\ enabled' \in [Motors -> BOOLEAN] /\ running' \in BOOLEAN
        /\ hold' \in [Motors -> MitRange \cup {Unknown}]
    <3>1. enabled' = [enabled EXCEPT ![found[i]] = FALSE] /\ enabled \in [Motors -> BOOLEAN]
      BY <1>8 DEF GiveUp, ListType
    <3>2. hold \in [Motors -> MitRange \cup {Unknown}] /\ UNCHANGED hold
      BY <1>8 DEF GiveUp, ListType
    <3>3. enabled' \in [Motors -> BOOLEAN]
      BY <3>1
    <3>4. at = "giveup" /\ i \in 1 .. N
      BY <1>0, <1>8 DEF GiveUp, Place, PlaceOK
    <3>. QED
      BY <1>0, <1>8, <3>2, <3>3, <3>4 DEF GiveUp, listVars
  <2>2. PlaceOK("hold", i + 1) /\ AskOK("hold", i + 1, asking')
    BY <1>0, <2>1 DEF PlaceOK, AskOK, Switching
  <2>. QED
    BY <2>1, <2>2, GoPlace, KeepList
<1>9. CASE HoldEnds
  <2>1. UNCHANGED <<running, asking, found, listVars, enabled, hold>>
    BY <1>9 DEF HoldEnds, listVars, stateVars
  <2>2. /\ PlaceOK("drain", 0) /\ AskOK("drain", 0, asking')
        /\ PlaceOK("poll", 0) /\ AskOK("poll", 0, asking')
    BY <1>0, <2>1 DEF PlaceOK, AskOK, Switching
  <2>3. Go("poll", 0) \/ Go("drain", 0)
    BY <1>9 DEF HoldEnds
  <2>. QED
    BY <1>0, <2>1, <2>2, <2>3, GoPlace, SameList
<1>10. CASE Poll
  <2>1. /\ UNCHANGED <<running, asking, found, selected, tick, enabled, hold>>
        /\ at = "poll" /\ NextChannel("poll", "drain") /\ i \in Channels
    BY <1>0, <1>10 DEF Poll, Place, PlaceOK, stateVars, Channels
  <2>2. cursor' \in [Channels -> Indices]
    <3>1. cursor \in [Channels -> Indices]
      BY DEF ListType
    <3>2. CASE OffBehind(i) # {}
      <4>. DEFINE index == (cursor[i] + Min(OffBehind(i))) % N
      <4>1. N > 0 /\ (index + 1) % N \in 0 .. N - 1
        BY <2>1, <3>2, NextOff
      <4>2. cursor' = [cursor EXCEPT ![i] = (index + 1) % N]
        BY <1>10, <3>2 DEF Poll
      <4>. HIDE DEF index
      <4>3. (index + 1) % N \in Indices
        BY <1>0, <4>1 DEF Indices
      <4>. QED
        BY <3>1, <4>2, <4>3
    <3>. QED
      BY <1>10, <3>1, <3>2 DEF Poll
  <2>3. ListType'
    BY <2>1, <2>2 DEF ListType, Indices, N
  <2>. QED
    BY <2>1, <2>3, ChannelPlace
<1>11. CASE Drain
  BY <1>0, <1>11, ChannelPlace, SameList DEF Drain, listVars
<1>12. CASE Sleep
  <2>1. UNCHANGED <<running, asking, found, selected, cursor, enabled, hold>> /\ Round
        /\ tick' = (tick + 1) % PollEvery
    BY <1>12 DEF Sleep, stateVars
  <2>2. tick' \in 0 .. PollEvery - 1
    <3>1. tick + 1 \in Nat
      BY <1>0
    <3>. QED
      BY <1>0, <2>1, <3>1, Remainder
  <2>3. ListType'
    BY <2>1, <2>2 DEF ListType, Indices, N
  <2>. QED
    BY <2>1, <2>3, RoundPlace
<1>13. CASE StopAll
  <2>1. UNCHANGED <<running, asking, found, selected, cursor, tick, hold>> /\ i \in Nat \ {0}
    BY <1>0, <1>13 DEF StopAll, listVars, Place, PlaceOK
  <2>2. /\ enabled' \in [Motors -> BOOLEAN] /\ running' \in BOOLEAN
        /\ hold' \in [Motors -> MitRange \cup {Unknown}]
    BY <1>0, <1>13, <2>1 DEF StopAll, ListType
  <2>3. CASE Go("exit", 0)
    <3>1. PlaceOK("exit", 0) /\ AskOK("exit", 0, asking')
      BY <1>0, <2>1, PlainPlaces
    <3>. QED
      BY <2>1, <2>2, <2>3, <3>1, GoPlace, KeepList
  <2>4. CASE OnFrom(i) # {}
    <3>. DEFINE j == Min(OnFrom(i))
    <3>1. j \in 1 .. N /\ j + 1 \in 1 .. N + 1
      BY <2>1, <2>4, NextOn
    <3>2. Go("stopall", j + 1)
      BY <1>13, <2>4 DEF StopAll
    <3>. HIDE DEF j
    <3>3. PlaceOK("stopall", j + 1) /\ AskOK("stopall", j + 1, asking')
      BY <1>0, <2>1, <3>1 DEF PlaceOK, AskOK, Switching
    <3>. QED
      BY <2>1, <2>2, <3>2, <3>3, GoPlace, KeepList
  <2>. QED
    BY <1>13, <2>3, <2>4 DEF StopAll
<1>. QED
  BY <1>1, <1>2, <1>3, <1>4, <1>5, <1>6, <1>7, <1>8, <1>9, <1>10, <1>11, <1>12, <1>13

\* The steps of refresh_position_sync(), and of switching a motor on and off.
LEMMA KeysList ==
  ASSUME ListType, QueueType, Place,
         Refresh \/ EnableStop \/ EnableMode \/ EnablePrime \/ Enable \/ EnableUndo \/ Disable
  PROVE  ListType' /\ Place'
<1>1. UNCHANGED <<running, asking, found, selected, cursor, tick, listVars>>
      /\ running \in BOOLEAN /\ enabled \in [Motors -> BOOLEAN]
      /\ hold \in [Motors -> MitRange \cup {Unknown}]
  BY DEF Refresh, Ask, WaitFrame, WaitEnds, EnableStop, EnableMode, EnablePrime, Enable,
         EnableUndo, Disable, listVars, ListType
<1>2. CASE Refresh
  <2>1. at \in {"ask", "wait"} /\ Chosen \in Motors
    BY <1>2, ChosenType DEF Refresh, Ask, WaitFrame, WaitEnds
  <2>2. \E p : Failed \/ Answered(p) \/ Go("wait", i)
    BY <1>2 DEF Refresh, Ask, WaitFrame, WaitEnds, Go
  <2>3. Place'
    BY <1>1, <2>1, <2>2, RefreshPlace
  <2>4. enabled' = enabled
    BY <1>2 DEF Refresh, Ask, WaitFrame, WaitEnds, stateVars
  <2>5. hold' \in [Motors -> MitRange \cup {Unknown}]
    <3>1. hold' = hold \/ \E p \in MitRange : hold' = [hold EXCEPT ![Chosen] = p]
      BY <1>2 DEF Refresh, Ask, WaitFrame, WaitEnds, Answered, stateVars
    <3>. QED
      BY <1>1, <3>1
  <2>. QED
    BY <1>1, <2>3, <2>4, <2>5, KeepList
<1>3. CASE EnableStop \/ EnableMode \/ EnablePrime \/ Enable \/ EnableUndo \/ Disable
  <2>1. at \in Switching
    BY <1>3 DEF EnableStop, EnableMode, EnablePrime, Enable, EnableUndo, Disable, Switching
  <2>2. Chosen \in Motors
    BY <2>1, ChosenType
  <2>3. Go("hold", 1) \/ \E a \in Switching : Go(a, i)
    BY <1>3 DEF EnableStop, EnableMode, EnablePrime, Enable, EnableUndo, Disable, Switching
  <2>4. Place'
    BY <1>1, <2>1, <2>3, HoldPlace, SwitchPlace
  <2>5. hold' = hold
    BY <1>3 DEF EnableStop, EnableMode, EnablePrime, Enable, EnableUndo, Disable, stateVars
  <2>6. enabled' = enabled \/ \E b \in BOOLEAN : enabled' = [enabled EXCEPT ![Chosen] = b]
    BY <1>3 DEF EnableStop, EnableMode, EnablePrime, Enable, EnableUndo, Disable, stateVars
  <2>7. enabled' \in [Motors -> BOOLEAN]
    BY <1>1, <2>6
  <2>. QED
    BY <1>1, <2>4, <2>5, <2>7, KeepList
<1>. QED
  BY <1>2, <1>3

LEMMA ListStep == ListType /\ QueueType /\ Place /\ [Next]_vars => ListType' /\ Place'
<1>. SUFFICES ASSUME ListType, QueueType, Place, [Next]_vars PROVE ListType' /\ Place'
  OBVIOUS
<1>1. ASSUME UNCHANGED vars PROVE ListType' /\ Place'
  <2>1. UNCHANGED <<running, placeVars, listVars, stateVars>> /\ running \in BOOLEAN
    BY <1>1 DEF vars, ListType
  <2>2. UNCHANGED <<at, i, asking, found, enabled, hold>>
    BY <2>1 DEF placeVars, listVars, stateVars
  <2>3. Place'
    BY <2>2 DEF Place, PlaceOK, AskOK, N
  <2>. QED
    BY <2>1, <2>2, <2>3, SameList
<1>. QED
  BY <1>1, RoundsList, KeysList, OutsideList DEF Next, ProgramStep, Key

-----------------------------------------------------------------------------
(***************************************************************************)
(* What the program does to the transmit queues, and to the three things   *)
(* that say whether a motor may run.                                       *)
(***************************************************************************)
Post(kind, m, p) ==
  tx' = [tx EXCEPT ![Chan[m]] = Append(@, [kind |-> kind, motor |-> m, pos |-> p])]

\* It asks motor m something, and nothing depends on the answer.
Asks == \E kind \in {"READ", "MODE"}, m \in Motors :
          Post(kind, m, Unknown) /\ UNCHANGED <<enabled, adrift>>

Holds == \E m \in Motors :
           /\ at = "hold" /\ enabled[m]
           /\ Post("MIT", m, hold[m])
           /\ UNCHANGED <<enabled, adrift>>

Primes == /\ at = "prime" /\ at' = "enable"
          /\ Post("MIT", Chosen, hold[Chosen])
          /\ UNCHANGED <<enabled, adrift>>

Enables == /\ at = "enable" /\ at' = "hold"
           /\ Post("ENABLE", Chosen, Unknown)
           /\ enabled' = [enabled EXCEPT ![Chosen] = TRUE]
           /\ UNCHANGED adrift

\* A STOP, sent or refused where that is not looked at.
Stops == \E m \in Motors :
           /\ at # "undo" \/ m = Chosen
           /\ \/ Post("STOP", m, Unknown) /\ adrift' = adrift \ {m}
              \/ UNCHANGED tx /\ adrift' = adrift \cup {m}
           /\ enabled' = enabled \/ enabled' = [enabled EXCEPT ![m] = FALSE]

Quiet == UNCHANGED <<tx, enabled, adrift>>

\* From "enable" the program goes on with the same motor, or has sent ENABLE.
Acts ==
  /\ Quiet \/ Asks \/ Holds \/ Primes \/ Enables \/ Stops
  /\ at' \in {"enable", "undo"} => at \in {"prime", "enable"}
  /\ at' = "enable" => Primes
  /\ at \in {"enable", "undo"} => at' = "undo" \/ Enables \/ (at = "undo" /\ Stops)

LEMMA ProgramActs ==
  ASSUME ListType, Place, ProgramStep
  PROVE  Acts /\ UNCHANGED motorVars
<1>. USE DEF Written, Refused, Stopped
<1>1. ASSUME at \in {"ask", "wait"} \cup Switching PROVE Chosen \in Motors
  BY <1>1, ChosenType
<1>2. CASE Scan \/ Initial \/ WaitFrame \/ WaitEnds \/ Throws \/ NoKey \/ Quit \/ Down \/ Up \/ Toggle
           \/ HoldEnds \/ Drain \/ Sleep
  <2>1. Quiet /\ at \notin {"enable", "undo"} /\ UNCHANGED motorVars
    BY <1>2 DEF Quiet, Scan, Initial, WaitFrame, WaitEnds, Throws, NoKey, Quit, Down, Up, Toggle,
                HoldEnds, Drain, Sleep, stateVars
  <2>2. at' \notin {"enable", "undo"}
    BY <1>2 DEF Scan, Initial, WaitFrame, Answered, WaitEnds, Failed, Throws, NoKey, Quit, Down, Up,
                Toggle, HoldEnds, Drain, NextChannel, Sleep, Round, Go
  <2>. QED
    BY <2>1, <2>2 DEF Acts
<1>3. CASE Ask
  <2>1. Quiet \/ Asks
    BY <1>1, <1>3 DEF Ask, Quiet, Asks, Post, stateVars
  <2>. QED
    BY <1>3, <2>1 DEF Acts, Ask, Failed, Go
<1>4. CASE EnableStop
  <2>1. Quiet \/ Stops
    BY <1>1, <1>4 DEF EnableStop, Quiet, Stops, Post, stateVars, Switching
  <2>. QED
    BY <1>4, <2>1 DEF Acts, EnableStop, Go
<1>5. CASE EnableMode
  <2>1. Quiet \/ Asks
    BY <1>1, <1>5 DEF EnableMode, Quiet, Asks, Post, stateVars, Switching
  <2>. QED
    BY <1>5, <2>1 DEF Acts, EnableMode, Go
<1>6. CASE EnablePrime
  <2>1. (Quiet /\ at' = "undo") \/ Primes
    BY <1>6 DEF EnablePrime, Quiet, Primes, Post, stateVars, Go
  <2>. QED
    BY <1>6, <2>1 DEF Acts, EnablePrime, Primes
<1>7. CASE Enable
  <2>1. (Quiet /\ at' = "undo") \/ Enables
    BY <1>7 DEF Enable, Quiet, Enables, Post, Go
  <2>. QED
    BY <1>7, <2>1 DEF Acts, Enable, Enables
<1>8. CASE EnableUndo
  <2>1. at = "undo" /\ Stops /\ at' = "hold"
    BY <1>1, <1>8 DEF EnableUndo, StopUnchecked, Stops, Post, stateVars, Switching, Go
  <2>. QED
    BY <1>8, <2>1 DEF Acts, EnableUndo
<1>9. CASE Disable
  <2>1. Quiet \/ Stops
    BY <1>1, <1>9 DEF Disable, Quiet, Stops, Post, stateVars, Switching
  <2>. QED
    BY <1>9, <2>1 DEF Acts, Disable, Go
<1>10. CASE Hold
  <2>. DEFINE m == found[Min(OnFrom(i))]
  <2>1. m \in Motors /\ enabled[m] /\ at = "hold"
    BY <1>10, NextOn DEF Hold, Place, PlaceOK
  <2>2. (Written("MIT", m, hold[m]) \/ Refused(m)) /\ at' \in {"hold", "giveup"}
        /\ UNCHANGED <<enabled, adrift, motorVars>>
    BY <1>10 DEF Hold, Go, stateVars
  <2>. HIDE DEF m
  <2>3. Quiet \/ Holds
    BY <2>1, <2>2 DEF Quiet, Holds, Post
  <2>. QED
    BY <2>1, <2>2, <2>3 DEF Acts
<1>11. CASE GiveUp
  <2>1. found[i] \in Motors
    BY <1>11, FoundType DEF GiveUp, Place, PlaceOK
  <2>2. Stops /\ at' = "hold" /\ at = "giveup"
    BY <1>11, <2>1 DEF GiveUp, StopUnchecked, Stops, Post, Go
  <2>. QED
    BY <1>11, <2>2 DEF Acts, GiveUp
<1>12. CASE Poll
  <2>1. i \in Channels /\ at = "poll" /\ at' \in {"poll", "drain"}
        /\ UNCHANGED <<enabled, adrift, motorVars>>
    BY <1>12, Constants DEF Poll, Place, PlaceOK, NextChannel, Go, stateVars
  <2>2. Quiet \/ Asks
    <3>1. CASE OffBehind(i) # {}
      <4>. DEFINE m == found[((cursor[i] + Min(OffBehind(i))) % N) + 1]
      <4>1. m \in Motors
        BY <2>1, <3>1, NextOff
      <4>2. Written("READ", m, Unknown) \/ Refused(m)
        BY <1>12, <3>1 DEF Poll
      <4>. HIDE DEF m
      <4>. QED
        BY <2>1, <4>1, <4>2 DEF Quiet, Asks, Post
    <3>. QED
      BY <1>12, <2>1, <3>1 DEF Poll, Quiet
  <2>. QED
    BY <2>1, <2>2 DEF Acts
<1>13. CASE StopAll
  <2>1. at = "stopall" /\ at' \in {"stopall", "exit"} /\ UNCHANGED motorVars
    BY <1>13 DEF StopAll, Go
  <2>2. Quiet \/ Stops
    <3>1. CASE OnFrom(i) # {}
      <4>. DEFINE m == found[Min(OnFrom(i))]
      <4>1. m \in Motors
        BY <1>13, <3>1, NextOn DEF StopAll, Place, PlaceOK
      <4>2. StopUnchecked(m) /\ enabled' = [enabled EXCEPT ![m] = FALSE]
        BY <1>13, <3>1 DEF StopAll
      <4>. HIDE DEF m
      <4>. QED
        BY <2>1, <4>1, <4>2 DEF StopUnchecked, Stops, Post
    <3>. QED
      BY <1>13, <3>1 DEF StopAll, Quiet
  <2>. QED
    BY <2>1, <2>2 DEF Acts
<1>. QED
  BY <1>2, <1>3, <1>4, <1>5, <1>6, <1>7, <1>8, <1>9, <1>10, <1>11, <1>12, <1>13
     DEF ProgramStep, Refresh, Key

-----------------------------------------------------------------------------
(***************************************************************************)
(* The queues, what is shown, and the motors.                              *)
(***************************************************************************)
LEMMA PostType ==
  ASSUME QueueType, NEW kind \in {"READ", "STOP", "MODE", "MIT", "ENABLE"}, NEW m \in Motors,
         NEW p \in Positions \cup {Unknown}, Post(kind, m, p)
  PROVE  tx' \in [Channels -> Seq(FrameSet)]
<1>. DEFINE f == [kind |-> kind, motor |-> m, pos |-> p]
<1>1. f \in FrameSet
  BY DEF FrameSet
<1>2. Chan[m] \in Channels /\ tx' = [tx EXCEPT ![Chan[m]] = Append(@, f)]
  BY Constants DEF Post
<1>. HIDE DEF f
<1>3. Append(tx[Chan[m]], f) \in Seq(FrameSet)
  BY <1>1, <1>2 DEF QueueType
<1>. QED
  BY <1>2, <1>3 DEF QueueType

LEMMA HoldType == ListType => \A m \in Motors : hold[m] \in Positions \cup {Unknown}
  BY Constants DEF ListType

LEMMA ActsType ==
  ASSUME ListType, QueueType, Place, Acts
  PROVE  tx' \in [Channels -> Seq(FrameSet)] /\ adrift' \subseteq Motors
<1>1. tx \in [Channels -> Seq(FrameSet)] /\ adrift \subseteq Motors
  BY DEF QueueType
<1>2. CASE Quiet
  BY <1>1, <1>2 DEF Quiet
<1>3. CASE Asks
  BY <1>1, <1>3, PostType DEF Asks
<1>4. CASE Holds
  BY <1>1, <1>4, PostType, HoldType DEF Holds
<1>5. CASE Primes \/ Enables
  <2>1. Chosen \in Motors
    BY <1>5, ChosenType DEF Primes, Enables, Switching
  <2>. QED
    BY <1>1, <1>5, <2>1, PostType, HoldType DEF Primes, Enables
<1>6. CASE Stops
  BY <1>1, <1>6, PostType DEF Stops
<1>. QED
  BY <1>2, <1>3, <1>4, <1>5, <1>6 DEF Acts

\* What is read from a receive queue.
LEMMA HeadAnswer ==
  ASSUME QueueType, NEW c \in Channels, rx[c] # <<>>
  PROVE  Head(rx[c]) \in AnswerSet /\ Tail(rx[c]) \in Seq(AnswerSet)
  BY DEF QueueType

LEMMA ShownType ==
  ASSUME QueueType, NEW c \in Channels, NEW n \in 0 .. Len(rx[c])
  PROVE  /\ ShownAfter(c, n) \in [Motors -> Positions \cup {Unknown}]
         /\ SubSeq(rx[c], n + 1, Len(rx[c])) \in Seq(AnswerSet)
<1>1. rx[c] \in Seq(AnswerSet) /\ Len(rx[c]) \in Nat
  BY DEF QueueType
<1>2. ASSUME NEW m \in Motors
      PROVE  LET of == {k \in 1 .. n : rx[c][k].motor = m}
             IN (IF of = {} THEN shown[m] ELSE rx[c][Max(of)].pos) \in Positions \cup {Unknown}
  <2>. DEFINE of == {k \in 1 .. n : rx[c][k].motor = m}
  <2>1. CASE of # {}
    <3>1. Max(of) \in of
      <4>1. n \in Nat /\ of \subseteq 0 .. n
        BY <1>1
      <4>. HIDE DEF of
      <4>. QED
        BY <2>1, <4>1, MaxIsIn
    <3>2. Max(of) \in 1 .. Len(rx[c])
      BY <1>1, <3>1
    <3>. HIDE DEF of
    <3>3. rx[c][Max(of)] \in AnswerSet
      BY <1>1, <3>2
    <3>. QED
      BY <2>1, <3>3 DEF AnswerSet, of
  <2>2. shown[m] \in Positions \cup {Unknown}
    BY DEF QueueType
  <2>. QED
    BY <2>1, <2>2
<1>3. ShownAfter(c, n) \in [Motors -> Positions \cup {Unknown}]
  BY <1>2 DEF ShownAfter
<1>. QED
  BY <1>1, <1>3

LEMMA ProgramReads ==
  ASSUME ListType, QueueType, Place, ProgramStep
  PROVE  shown' \in [Motors -> Positions \cup {Unknown}] /\ rx' \in [Channels -> Seq(AnswerSet)]
<1>1. shown \in [Motors -> Positions \cup {Unknown}] /\ rx \in [Channels -> Seq(AnswerSet)]
  BY DEF QueueType
<1>2. CASE WaitFrame
  <2>. DEFINE c == Chan[Chosen]
  <2>1. c \in Channels /\ rx[c] # <<>>
    BY <1>2, ChosenType, Constants DEF WaitFrame
  <2>2. rx' = [rx EXCEPT ![c] = Tail(@)]
        /\ shown' = [shown EXCEPT ![Head(rx[c]).motor] = Head(rx[c]).pos]
    BY <1>2 DEF WaitFrame
  <2>. HIDE DEF c
  <2>3. Head(rx[c]).pos \in Positions /\ Tail(rx[c]) \in Seq(AnswerSet)
    BY <2>1, HeadAnswer DEF AnswerSet
  <2>. QED
    BY <1>1, <2>2, <2>3
<1>3. CASE Drain
  <2>1. i \in Channels
    BY <1>3, Constants DEF Drain, Place, PlaceOK
  <2>2. Len(rx[i]) \in Nat
    BY <1>1, <2>1
  <2>3. PICK n \in Min({1, Min({Len(rx[i]), DrainMax})}) .. Min({Len(rx[i]), DrainMax}) :
          shown' = ShownAfter(i, n) /\ rx' = [rx EXCEPT ![i] = SubSeq(@, n + 1, Len(@))]
    BY <1>3 DEF Drain
  <2>4. n \in 0 .. Len(rx[i])
    <3>. DEFINE most == Min({Len(rx[i]), DrainMax})
    <3>1. most \in Nat /\ most <= Len(rx[i])
      BY <2>2, Constants, MinOfTwo
    <3>2. Min({1, most}) \in Nat
      BY <3>1, MinOfTwo
    <3>3. n \in Min({1, most}) .. most
      BY <2>3
    <3>. HIDE DEF most
    <3>. QED
      BY <2>2, <3>1, <3>2, <3>3
  <2>5. ShownAfter(i, n) \in [Motors -> Positions \cup {Unknown}]
        /\ SubSeq(rx[i], n + 1, Len(rx[i])) \in Seq(AnswerSet)
    BY <2>1, <2>4, ShownType
  <2>. QED
    BY <1>1, <2>3, <2>5
<1>4. CASE ~WaitFrame /\ ~Drain
  <2>1. UNCHANGED <<shown, rx>>
    BY <1>4 DEF ProgramStep, Refresh, Key, Scan, Initial, Ask, WaitEnds, Throws, NoKey, Quit, Down,
                Up, Toggle, EnableStop, EnableMode, EnablePrime, Enable, EnableUndo, Disable, Hold,
                GiveUp, HoldEnds, Poll, Sleep, StopAll, stateVars
  <2>. QED
    BY <1>1, <2>1
<1>. QED
  BY <1>2, <1>3, <1>4

LEMMA HeadFrame ==
  ASSUME QueueType, NEW c \in Channels, tx[c] # <<>>
  PROVE  /\ Head(tx[c]) \in FrameSet /\ Head(tx[c]) = tx[c][1]
         /\ Tail(tx[c]) \in Seq(FrameSet)
         /\ Len(tx[c]) \in Nat \ {0} /\ DOMAIN tx[c] = 1 .. Len(tx[c])
         /\ DOMAIN Tail(tx[c]) = 1 .. Len(tx[c]) - 1
         /\ \A k \in 1 .. Len(tx[c]) - 1 : Tail(tx[c])[k] = tx[c][k + 1]
  BY DEF QueueType

\* A motor that executes a frame: the position it answers is one.
LEMMA ExecuteType ==
  ASSUME QueueType, NEW f \in FrameSet, Execute(f)
  PROVE  /\ drive' \in [Motors -> {"reset", "run"}]
         /\ target' \in [Motors -> Positions \cup {Unknown}]
         /\ pos' \in [Motors -> Positions]
<1>1. f.motor \in Motors /\ f.pos \in Positions \cup {Unknown}
  BY DEF FrameSet
<1>2. drive' \in [Motors -> {"reset", "run"}]
  <2>1. drive' = [drive EXCEPT ![f.motor] = IF f.kind = "ENABLE" THEN "run"
                                            ELSE IF f.kind = "STOP" THEN "reset" ELSE @]
    BY DEF Execute
  <2>. QED
    BY <1>1, <2>1 DEF QueueType
<1>3. target' \in [Motors -> Positions \cup {Unknown}]
  <2>1. target' = [target EXCEPT ![f.motor] = IF f.kind = "MIT" THEN f.pos
                                              ELSE IF f.kind = "STOP" THEN Unknown ELSE @]
    BY DEF Execute
  <2>. QED
    BY <1>1, <2>1 DEF QueueType
<1>4. pos' \in [Motors -> Positions]
  <2>1. pos' = pos \/ \E p \in Positions : pos' = [pos EXCEPT ![f.motor] = p]
    <3>1. target'[f.motor] # Unknown => target'[f.motor] \in Positions
      BY <1>1, <1>3
    <3>2. pos' = [pos EXCEPT ![f.motor] = IF drive'[f.motor] = "run" /\ target'[f.motor] # Unknown
                                          THEN target'[f.motor] ELSE @]
      BY DEF Execute
    <3>3. pos[f.motor] \in Positions
      BY <1>1 DEF QueueType
    <3>. QED
      BY <3>1, <3>2, <3>3
  <2>. QED
    BY <2>1 DEF QueueType
<1>. QED
  BY <1>2, <1>3, <1>4

LEMMA DeliverType ==
  ASSUME QueueType, NEW c \in Channels, Deliver(c)
  PROVE  QueueType'
<1>. DEFINE f == Head(tx[c])
<1>1. tx[c] # <<>> /\ tx' = [tx EXCEPT ![c] = Tail(@)] /\ Execute(f) /\ UNCHANGED <<shown, adrift>>
  BY DEF Deliver, stateVars
<1>2. f \in FrameSet /\ Tail(tx[c]) \in Seq(FrameSet)
  BY <1>1, HeadFrame
<1>3. rx' = rx \/ \E p \in Reported(f, pos'[f.motor]) :
                   rx' = [rx EXCEPT ![c] = Append(@, [motor |-> f.motor, pos |-> p])]
  BY DEF Deliver
<1>. HIDE DEF f
<1>4. /\ drive' \in [Motors -> {"reset", "run"}]
      /\ target' \in [Motors -> Positions \cup {Unknown}]
      /\ pos' \in [Motors -> Positions]
  BY <1>1, <1>2, ExecuteType
<1>5. tx' \in [Channels -> Seq(FrameSet)]
  BY <1>1, <1>2 DEF QueueType
<1>6. ASSUME NEW p \in Reported(f, pos'[f.motor]),
             rx' = [rx EXCEPT ![c] = Append(@, [motor |-> f.motor, pos |-> p])]
      PROVE  rx' \in [Channels -> Seq(AnswerSet)]
  <2>. DEFINE a == [motor |-> f.motor, pos |-> p]
  <2>1. f.motor \in Motors /\ pos'[f.motor] \in Positions
    BY <1>2, <1>4 DEF FrameSet
  <2>2. p \in Positions
    BY <2>1, Constants DEF Reported, Decoded
  <2>3. a \in AnswerSet
    BY <2>1, <2>2 DEF AnswerSet
  <2>4. rx' = [rx EXCEPT ![c] = Append(@, a)]
    BY <1>6
  <2>. HIDE DEF a
  <2>5. Append(rx[c], a) \in Seq(AnswerSet)
    BY <2>3 DEF QueueType
  <2>. QED
    BY <2>4, <2>5 DEF QueueType
<1>7. rx' \in [Channels -> Seq(AnswerSet)]
  BY <1>3, <1>6 DEF QueueType
<1>. QED
  BY <1>1, <1>4, <1>5, <1>7 DEF QueueType

LEMMA QueueStep == ListType /\ QueueType /\ Place /\ [Next]_vars => QueueType'
<1>. SUFFICES ASSUME ListType, QueueType, Place, [Next]_vars PROVE QueueType'
  OBVIOUS
<1>1. CASE ProgramStep
  <2>1. Acts /\ UNCHANGED motorVars
    BY <1>1, ProgramActs
  <2>2. /\ tx' \in [Channels -> Seq(FrameSet)] /\ adrift' \subseteq Motors
        /\ shown' \in [Motors -> Positions \cup {Unknown}] /\ rx' \in [Channels -> Seq(AnswerSet)]
    BY <1>1, <2>1, ActsType, ProgramReads
  <2>. QED
    BY <2>1, <2>2 DEF QueueType, motorVars
<1>2. CASE Signal
  BY <1>2 DEF Signal, QueueType, stateVars, motorVars
<1>3. ASSUME NEW m \in Motors, NEW p \in Positions, Turn(m, p) PROVE QueueType'
  BY <1>3 DEF Turn, QueueType, stateVars
<1>4. CASE UNCHANGED vars
  BY <1>4 DEF vars, QueueType, stateVars, motorVars
<1>. QED
  BY <1>1, <1>2, <1>3, <1>4, DeliverType DEF Next, OutsideStep

\* A frame is queued on the channel of its motor.
Routed == \A c \in Channels : tx[c] \in Seq({f \in FrameSet : Chan[f.motor] = c})

LEMMA RoutedStep == ListType /\ QueueType /\ Place /\ Routed /\ [Next]_vars => Routed'
<1>. SUFFICES ASSUME ListType, QueueType, Place, Routed, [Next]_vars PROVE Routed'
  OBVIOUS
<1>. DEFINE On(c) == {f \in FrameSet : Chan[f.motor] = c}
<1>1. ASSUME NEW kind \in {"READ", "STOP", "MODE", "MIT", "ENABLE"}, NEW m \in Motors,
             NEW p \in Positions \cup {Unknown}, Post(kind, m, p)
      PROVE  Routed'
  <2>. DEFINE f == [kind |-> kind, motor |-> m, pos |-> p]
  <2>1. Chan[m] \in Channels /\ tx' = [tx EXCEPT ![Chan[m]] = Append(@, f)]
    BY <1>1, Constants DEF Post
  <2>2. f \in On(Chan[m])
    BY DEF FrameSet
  <2>. HIDE DEF f, On
  <2>3. tx[Chan[m]] \in Seq(On(Chan[m]))
    BY <2>1 DEF Routed, On
  <2>4. Append(tx[Chan[m]], f) \in Seq(On(Chan[m]))
    BY <2>2, <2>3
  <2>5. \A c \in Channels : tx'[c] \in Seq(On(c))
    BY <2>1, <2>4 DEF QueueType, Routed, On
  <2>. QED
    BY <2>5 DEF Routed, On
<1>2. CASE ProgramStep
  <2>1. Acts
    BY <1>2, ProgramActs
  <2>2. Primes \/ Enables => Chosen \in Motors
    BY ChosenType DEF Primes, Enables, Switching
  <2>3. CASE Primes \/ Enables
    BY <1>1, <2>2, <2>3, HoldType DEF Primes, Enables
  <2>4. CASE Asks \/ Holds \/ Stops
    <3>1. UNCHANGED tx => Routed'
      BY DEF Routed
    <3>. QED
      BY <1>1, <2>4, <3>1, HoldType DEF Asks, Holds, Stops
  <2>. QED
    BY <2>1, <2>3, <2>4 DEF Acts, Quiet, Routed
<1>3. ASSUME NEW c \in Channels, Deliver(c) PROVE Routed'
  <2>1. tx[c] # <<>> /\ tx' = [tx EXCEPT ![c] = Tail(@)]
    BY <1>3 DEF Deliver
  <2>. HIDE DEF On
  <2>2. tx[c] \in Seq(On(c))
    BY DEF Routed, On
  <2>3. Tail(tx[c]) \in Seq(On(c))
    BY <2>1, <2>2
  <2>4. \A d \in Channels : tx'[d] \in Seq(On(d))
    BY <2>1, <2>3 DEF QueueType, Routed, On
  <2>. QED
    BY <2>4 DEF Routed, On
<1>4. UNCHANGED tx => Routed'
  BY DEF Routed
<1>. QED
  BY <1>2, <1>3, <1>4 DEF Next, OutsideStep, Signal, Turn, vars

Typed == ListType /\ QueueType /\ Place /\ Routed

LEMMA TypedInit == Init => Typed
<1>. SUFFICES ASSUME Init PROVE Typed
  OBVIOUS
<1>1. /\ NumChannels \in Nat \ {0} /\ Channels = 0 .. NumChannels - 1 /\ PollEvery \in Nat \ {0}
      /\ Len(Order) \in Nat
  BY Constants
<1>2. found = <<>> /\ N = 0 /\ found \in Seq(Motors)
  BY DEF Init, N
<1>3. ListType
  BY <1>1, <1>2 DEF Init, ListType, Indices
<1>4. tx \in [Channels -> Seq(FrameSet)] /\ rx \in [Channels -> Seq(AnswerSet)]
  BY DEF Init
<1>5. QueueType
  BY <1>4 DEF Init, QueueType
<1>6. Place
  BY <1>1, <1>2 DEF Init, Place, PlaceOK, AskOK, Switching
<1>7. Routed
  BY DEF Init, Routed
<1>. QED
  BY <1>3, <1>5, <1>6, <1>7 DEF Typed

LEMMA TypedStep == Typed /\ [Next]_vars => Typed'
  BY ListStep, QueueStep, RoutedStep DEF Typed

(***************************************************************************)
(* The program stays within its list of motors and the loops that run over *)
(* it, its queues hold frames, and no motor is held outside the MIT range: *)
(* for any number of motors found, in any order of keys and signals.       *)
(***************************************************************************)
THEOREM PositionTypeCorrect == Spec => []PositionTypeOK
<1>1. Typed => PositionTypeOK
  <2>. SUFFICES ASSUME Typed PROVE PositionTypeOK
    OBVIOUS
  <2>1. at \in {"scan", "initial", "ask", "wait", "stop", "mode", "prime", "enable", "undo",
                "disable", "key", "hold", "giveup", "poll", "drain", "sleep", "stopall", "exit"}
        /\ i \in 0 .. (IF at \in {"poll", "drain"} THEN NumChannels - 1 ELSE Len(Order) + 1)
        /\ asking \in {"initial", "on"}
    BY DEF Typed, Place, PlaceOK, AskOK, Switching
  <2>2. ListType /\ QueueType
    BY DEF Typed
  <2>. QED
    BY <2>1, <2>2 DEF PositionTypeOK, ListType, QueueType, Indices, FrameSet, AnswerSet
<1>. QED
  BY <1>1, TypedInit, TypedStep, PTL DEF Spec

-----------------------------------------------------------------------------
(***************************************************************************)
(* The frames queued for one motor, over one step.                         *)
(***************************************************************************)
L(m) == Len(tx[Chan[m]])

LEMMA QueueDomain ==
  ASSUME QueueType, NEW m \in Motors
  PROVE  /\ Chan[m] \in Channels /\ tx[Chan[m]] \in Seq(FrameSet)
         /\ L(m) \in Nat /\ DOMAIN tx[Chan[m]] = 1 .. L(m)
  BY Constants DEF QueueType, L

PosIs(m, k, p) == tx[Chan[m]][k].pos = p

\* A frame that is written comes behind the others.
LEMMA PostQueued ==
  ASSUME QueueType, NEW kind, NEW x \in Motors, NEW p, Post(kind, x, p), NEW m \in Motors
  PROVE  /\ \A K, k : Queued(K, m, k) => Queued(K, m, k)' /\ tx'[Chan[m]][k] = tx[Chan[m]][k]
         /\ \A K, k : Queued(K, m, k)' /\ ~Queued(K, m, k) => K = kind
         /\ \A K, k : Queued(K, m, k)' /\ ~Queued(K, m, k) => m = x
         /\ \A K, k : Queued(K, m, k)' /\ ~Queued(K, m, k) => PosIs(m, k, p)'
         /\ \A K, k : Queued(K, m, k)' /\ ~Queued(K, m, k) => k = L(m) + 1
         /\ \E k : k = L(x) + 1 /\ Queued(kind, x, k)'
<1>. DEFINE f == [kind |-> kind, motor |-> x, pos |-> p]
<1>1. f.kind = kind /\ f.motor = x /\ f.pos = p
  OBVIOUS
<1>2. tx' = [tx EXCEPT ![Chan[x]] = Append(@, f)]
  BY DEF Post
<1>. HIDE DEF f
<1>3. ASSUME NEW n \in Motors
      PROVE  tx'[Chan[n]] = IF Chan[n] = Chan[x] THEN Append(tx[Chan[n]], f) ELSE tx[Chan[n]]
  BY <1>2, QueueDomain DEF QueueType
<1>4. ASSUME NEW n \in Motors, Chan[n] = Chan[x]
      PROVE  /\ DOMAIN tx'[Chan[n]] = 1 .. L(n) + 1
             /\ tx'[Chan[n]][L(n) + 1] = f
             /\ \A k \in 1 .. L(n) : tx'[Chan[n]][k] = tx[Chan[n]][k]
  <2>1. tx'[Chan[n]] = Append(tx[Chan[n]], f) /\ L(n) = Len(tx[Chan[n]])
    BY <1>3, <1>4 DEF L
  <2>2. tx[Chan[n]] \in Seq(FrameSet)
    BY QueueDomain
  <2>. QED
    BY <2>1, <2>2
<1>5. DOMAIN tx[Chan[m]] = 1 .. L(m) /\ L(m) \in Nat /\ L(x) \in Nat
  BY QueueDomain
<1>6. \A k \in DOMAIN tx[Chan[m]] : k \in DOMAIN tx'[Chan[m]] /\ tx'[Chan[m]][k] = tx[Chan[m]][k]
  BY <1>3, <1>4, <1>5
<1>7. \A k \in DOMAIN tx'[Chan[m]] :
        k \in DOMAIN tx[Chan[m]] \/ (k = L(m) + 1 /\ tx'[Chan[m]][k] = f)
  BY <1>3, <1>4, <1>5
<1>8. L(x) + 1 \in DOMAIN tx'[Chan[x]] /\ tx'[Chan[x]][L(x) + 1] = f
  BY <1>4, <1>5
<1>. QED
  BY <1>1, <1>6, <1>7, <1>8 DEF Queued, PosIs

\* A channel that delivers a frame.
LEMMA DeliverQueued ==
  ASSUME QueueType, NEW c \in Channels, Deliver(c), NEW m \in Motors
  PROVE  /\ Chan[m] # c =>
              \A K, k : (Queued(K, m, k)' <=> Queued(K, m, k))
                        /\ tx'[Chan[m]][k] = tx[Chan[m]][k]
         /\ Chan[m] = c =>
              /\ \A K : \A k \in Nat \ {0} :
                   /\ Queued(K, m, k)' <=> Queued(K, m, k + 1)
                   /\ Queued(K, m, k)' => tx'[Chan[m]][k] = tx[Chan[m]][k + 1]
              /\ \A K : Queued(K, m, 1) <=> (Head(tx[c]).kind = K /\ Head(tx[c]).motor = m)
<1>1. tx[c] # <<>> /\ tx' = [tx EXCEPT ![c] = Tail(@)]
  BY DEF Deliver
<1>2. tx'[Chan[m]] = IF Chan[m] = c THEN Tail(tx[c]) ELSE tx[Chan[m]]
  BY <1>1, QueueDomain DEF QueueType
<1>3. CASE Chan[m] = c
  <2>1. /\ Len(tx[c]) \in Nat \ {0} /\ DOMAIN tx[c] = 1 .. Len(tx[c])
        /\ DOMAIN Tail(tx[c]) = 1 .. Len(tx[c]) - 1
        /\ \A k \in 1 .. Len(tx[c]) - 1 : Tail(tx[c])[k] = tx[c][k + 1]
        /\ Head(tx[c]) = tx[c][1]
    BY <1>1, HeadFrame
  <2>2. \A k \in Nat \ {0} : k \in 1 .. Len(tx[c]) - 1 <=> k + 1 \in 1 .. Len(tx[c])
    BY <2>1
  <2>3. 1 \in DOMAIN tx[c]
    BY <2>1
  <2>. QED
    BY <1>2, <1>3, <2>1, <2>2, <2>3 DEF Queued
<1>. QED
  BY <1>2, <1>3 DEF Queued

-----------------------------------------------------------------------------
(***************************************************************************)
(* Motors that are OFF.  What could make motor m run is behind n frames:   *)
(* the program shows it ON, its STOP was refused, or a STOP follows.       *)
(***************************************************************************)
Covered(m, n) == enabled[m] \/ m \in adrift \/ StopBehind(m, n)

OffInv ==
  \A m \in Motors :
    /\ drive[m] = "run" => Covered(m, 0)
    /\ \A k \in Nat : Queued("ENABLE", m, k) => Covered(m, k)

LEMMA QueuedIndex ==
  ASSUME QueueType, NEW m \in Motors, NEW K, NEW k, Queued(K, m, k)
  PROVE  k \in 1 .. L(m) /\ k \in Nat \ {0}
  BY QueueDomain DEF Queued

LEMMA NothingQueued == Init => \A m \in Motors : \A K, k : ~Queued(K, m, k)
<1>. SUFFICES ASSUME Init, NEW m \in Motors PROVE \A K, k : ~Queued(K, m, k)
  OBVIOUS
<1>1. tx[Chan[m]] = <<>>
  BY Constants DEF Init
<1>2. DOMAIN tx[Chan[m]] = {}
  BY <1>1
<1>. QED
  BY <1>2 DEF Queued

\* The same of the frames that a channel leaves queued.
LEMMA QueuedLater ==
  ASSUME QueueType, NEW c \in Channels, Deliver(c), NEW m \in Motors, NEW K, NEW k,
         Queued(K, m, k)'
  PROVE  k \in Nat \ {0}
<1>1. QueueType'
  BY DeliverType
<1>2. tx'[Chan[m]] \in Seq(FrameSet)
  BY <1>1, Constants DEF QueueType
<1>3. DOMAIN tx'[Chan[m]] \subseteq Nat \ {0}
  BY <1>2
<1>. QED
  BY <1>3 DEF Queued

\* The program leaves the frames that are queued as they are.
LEMMA ActsKeep ==
  ASSUME Typed, Acts, NEW m \in Motors
  PROVE  /\ \A K, k : Queued(K, m, k) => Queued(K, m, k)'
         /\ \A K, k : Queued(K, m, k)' /\ ~Queued(K, m, k) => k = L(m) + 1
<1>0. ListType /\ QueueType /\ Place
  BY DEF Typed
<1>1. ASSUME UNCHANGED tx
      PROVE  \A K, k : Queued(K, m, k)' <=> Queued(K, m, k)
  BY <1>1 DEF Queued
<1>2. ASSUME NEW kind, NEW x \in Motors, NEW p, Post(kind, x, p)
      PROVE  /\ \A K, k : Queued(K, m, k) => Queued(K, m, k)'
             /\ \A K, k : Queued(K, m, k)' /\ ~Queued(K, m, k) => k = L(m) + 1
  BY <1>0, <1>2, PostQueued
<1>3. Chosen \in Motors \/ ~(Primes \/ Enables)
  BY <1>0, ChosenType DEF Primes, Enables, Switching
<1>. QED
  BY <1>1, <1>2, <1>3 DEF Acts, Quiet, Asks, Holds, Primes, Enables, Stops

LEMMA CoveredActs ==
  ASSUME Typed, Acts, NEW m \in Motors, NEW n \in 0 .. L(m), Covered(m, n)
  PROVE  Covered(m, n)'
<1>0. /\ ListType /\ QueueType /\ Place
      /\ L(m) \in Nat /\ enabled \in [Motors -> BOOLEAN] /\ adrift \subseteq Motors
  BY QueueDomain DEF Typed, ListType, QueueType
<1>1. \A k : Queued("STOP", m, k) => Queued("STOP", m, k)'
  BY ActsKeep
<1>2. StopBehind(m, n) => StopBehind(m, n)'
  BY <1>1 DEF StopBehind, Queued
<1>3. CASE ~Stops
  <2>1. (enabled[m] => enabled'[m]) /\ adrift' = adrift
    BY <1>0, <1>3 DEF Acts, Quiet, Asks, Holds, Primes, Enables
  <2>. QED
    BY <1>2, <2>1 DEF Covered
<1>4. CASE Stops
  <2>1. PICK x \in Motors :
          /\ \/ Post("STOP", x, Unknown) /\ adrift' = adrift \ {x}
             \/ UNCHANGED tx /\ adrift' = adrift \cup {x}
          /\ enabled' = enabled \/ enabled' = [enabled EXCEPT ![x] = FALSE]
    BY <1>4 DEF Stops
  <2>2. CASE x = m
    <3>1. CASE Post("STOP", m, Unknown)
      <4>1. \E k : k > n /\ Queued("STOP", m, k)'
        <5>1. PICK k : k = L(m) + 1 /\ Queued("STOP", m, k)'
          BY <1>0, <3>1, PostQueued
        <5>2. k > n
          BY <1>0, <5>1
        <5>. QED
          BY <5>1, <5>2
      <4>2. StopBehind(m, n)'
        BY <4>1 DEF StopBehind, Queued
      <4>. QED
        BY <4>2 DEF Covered
    <3>. QED
      BY <2>1, <2>2, <3>1 DEF Covered
  <2>3. CASE x # m
    <3>1. enabled'[m] = enabled[m] /\ (m \in adrift => m \in adrift')
      BY <1>0, <2>1, <2>3
    <3>. QED
      BY <1>2, <3>1 DEF Covered
  <2>. QED
    BY <2>2, <2>3
<1>. QED
  BY <1>3, <1>4

LEMMA CoveredDeliver ==
  ASSUME QueueType, NEW c \in Channels, Deliver(c), NEW m \in Motors, NEW n \in Nat, Covered(m, n)
  PROVE  /\ Chan[m] # c => Covered(m, n)'
         /\ Chan[m] = c /\ n # 0 => Covered(m, n - 1)'
         /\ Chan[m] = c /\ n = 0 => Covered(m, 0)' \/ Queued("STOP", m, 1)
<1>1. UNCHANGED <<enabled, adrift>>
  BY DEF Deliver, stateVars
<1>2. CASE enabled[m] \/ m \in adrift
  BY <1>1, <1>2 DEF Covered
<1>3. ASSUME NEW k, k > n, Queued("STOP", m, k), Chan[m] # c PROVE Covered(m, n)'
  <2>1. Queued("STOP", m, k)'
    BY <1>3, DeliverQueued
  <2>. QED
    BY <1>3, <2>1 DEF Covered, StopBehind, Queued
<1>4. ASSUME NEW k, k > n, Queued("STOP", m, k), Chan[m] = c, k # 1
      PROVE  IF n # 0 THEN Covered(m, n - 1)' ELSE Covered(m, 0)'
  <2>1. k \in Nat \ {0} /\ k - 1 \in Nat \ {0} /\ (k - 1) + 1 = k
    BY <1>4, QueuedIndex
  <2>2. Queued("STOP", m, k - 1)'
    BY <1>4, <2>1, DeliverQueued
  <2>3. IF n # 0 THEN k - 1 > n - 1 ELSE k - 1 > 0
    BY <1>4, <2>1
  <2>. QED
    BY <2>2, <2>3 DEF Covered, StopBehind, Queued
<1>5. \A k : k > n /\ n # 0 /\ Queued("STOP", m, k) => k # 1
  OBVIOUS
<1>. QED
  BY <1>2, <1>3, <1>4, <1>5 DEF Covered, StopBehind

\* The ENABLE and MIT frames that are queued: the old ones, or one new.
LEMMA ActsQueued ==
  ASSUME Typed, Acts, NEW m \in Motors
  PROVE  /\ \A k : Queued("ENABLE", m, k)' => Queued("ENABLE", m, k) \/ (Enables /\ m = Chosen)
         /\ \A k : Queued("MIT", m, k)' =>
              \/ Queued("MIT", m, k) /\ tx'[Chan[m]][k] = tx[Chan[m]][k]
              \/ /\ (Holds /\ enabled[m]) \/ (Primes /\ m = Chosen)
                 /\ tx'[Chan[m]][k].pos = hold[m]
<1>q. ListType /\ QueueType /\ Place
  BY DEF Typed
<1>0. ASSUME NEW kind, NEW x \in Motors, NEW p, Post(kind, x, p)
      PROVE  \A K, k : Queued(K, m, k)' =>
               \/ Queued(K, m, k) /\ tx'[Chan[m]][k] = tx[Chan[m]][k]
               \/ K = kind /\ m = x /\ tx'[Chan[m]][k].pos = p
  <2>1. ASSUME NEW K, NEW k, Queued(K, m, k)'
        PROVE  \/ Queued(K, m, k) /\ tx'[Chan[m]][k] = tx[Chan[m]][k]
               \/ K = kind /\ m = x /\ tx'[Chan[m]][k].pos = p
    <3>1. Queued(K, m, k) \/ (K = kind /\ m = x)
      BY <1>q, <1>0, <2>1, PostQueued
    <3>2. Queued(K, m, k) => tx'[Chan[m]][k] = tx[Chan[m]][k]
      <4>1. \A A, j : Queued(A, m, j) => Queued(A, m, j)' /\ tx'[Chan[m]][j] = tx[Chan[m]][j]
        BY <1>q, <1>0, PostQueued, Zenon
      <4>. QED
        BY <4>1, Zenon
    <3>3. Queued(K, m, k) \/ PosIs(m, k, p)'
      <4>1. \A A, j : Queued(A, m, j)' /\ ~Queued(A, m, j) => PosIs(m, j, p)'
        BY <1>q, <1>0, PostQueued
      <4>. QED
        BY <2>1, <4>1
    <3>. QED
      BY <3>1, <3>2, <3>3 DEF PosIs
  <2>. QED
    BY <2>1
<1>1. CASE UNCHANGED tx
  BY <1>1 DEF Queued
<1>2. CASE Asks
  <2>1. PICK kind \in {"READ", "MODE"}, x \in Motors : Post(kind, x, Unknown)
    BY <1>2 DEF Asks
  <2>. QED
    BY <1>0, <2>1
<1>3. CASE Holds
  <2>1. PICK x \in Motors : enabled[x] /\ Post("MIT", x, hold[x])
    BY <1>3 DEF Holds
  <2>. QED
    BY <1>0, <1>3, <2>1
<1>4. CASE Primes
  <2>1. Chosen \in Motors /\ Post("MIT", Chosen, hold[Chosen])
    BY <1>q, <1>4, ChosenType DEF Primes, Switching
  <2>. QED
    BY <1>0, <1>4, <2>1
<1>5. CASE Enables
  <2>1. Chosen \in Motors /\ Post("ENABLE", Chosen, Unknown)
    BY <1>q, <1>5, ChosenType DEF Enables, Switching
  <2>. QED
    BY <1>0, <1>5, <2>1
<1>6. CASE Stops
  <2>1. PICK x \in Motors : Post("STOP", x, Unknown) \/ UNCHANGED tx
    BY <1>6 DEF Stops
  <2>. QED
    BY <1>0, <1>1, <2>1
<1>. QED
  BY <1>1, <1>2, <1>3, <1>4, <1>5, <1>6 DEF Acts, Quiet

\* Steps that leave queues, motors and what is known of them alone.
Idle == UNCHANGED <<at, enabled, hold, adrift, tx, drive, target>> /\ UNCHANGED Chosen

\* What a step is to the queues.
LEMMA StepKinds ==
  ASSUME Typed, [Next]_vars
  PROVE  \/ ProgramStep /\ Acts /\ UNCHANGED <<drive, target>>
         \/ \E c \in Channels : Deliver(c)
         \/ Idle
<1>1. ProgramStep => Acts /\ UNCHANGED <<drive, target>>
  BY ProgramActs DEF Typed, motorVars
<1>2. Signal => Idle
  BY DEF Signal, Idle, Chosen, placeVars, listVars, stateVars, motorVars
<1>3. ASSUME NEW m \in Motors, NEW p \in Positions, Turn(m, p) PROVE Idle
  BY <1>3 DEF Turn, Idle, Chosen, placeVars, listVars, stateVars
<1>4. UNCHANGED vars => Idle
  BY DEF vars, Idle, Chosen, placeVars, listVars, stateVars, motorVars
<1>. QED
  BY <1>1, <1>2, <1>3, <1>4 DEF Next, OutsideStep

\* What a delivered frame does to motor m.
LEMMA DeliverMotor ==
  ASSUME Typed, NEW c \in Channels, Deliver(c), NEW m \in Motors
  PROVE  LET mine == Head(tx[c]).motor = m
             kind == Head(tx[c]).kind
         IN /\ UNCHANGED <<at, i, asking, found, selected, enabled, hold, adrift>>
            /\ drive'[m] = IF mine /\ kind = "ENABLE" THEN "run"
                           ELSE IF mine /\ kind = "STOP" THEN "reset" ELSE drive[m]
            /\ target'[m] = IF mine /\ kind = "MIT" THEN Head(tx[c]).pos
                            ELSE IF mine /\ kind = "STOP" THEN Unknown ELSE target[m]
            /\ mine => Chan[m] = c
<1>0. QueueType /\ Routed
  BY DEF Typed
<1>. DEFINE f == Head(tx[c])
<1>1. Execute(f) /\ tx[c] # <<>> /\ UNCHANGED <<at, i, asking, found, selected, enabled, hold, adrift>>
  BY DEF Deliver, placeVars, listVars, stateVars
<1>2. f.motor \in Motors
  BY <1>0, <1>1, HeadFrame DEF FrameSet
<1>5. f.motor = m => Chan[m] = c
  <2>. DEFINE S == {g \in FrameSet : Chan[g.motor] = c}
  <2>1. tx[c] \in Seq(S)
    BY <1>0 DEF Routed
  <2>. HIDE DEF S
  <2>2. f \in S
    BY <1>1, <2>1
  <2>. QED
    BY <2>2 DEF S
<1>. HIDE DEF f
<1>3. drive'[m] = IF f.motor = m /\ f.kind = "ENABLE" THEN "run"
                  ELSE IF f.motor = m /\ f.kind = "STOP" THEN "reset" ELSE drive[m]
  BY <1>0, <1>1, <1>2 DEF Execute, QueueType
<1>4. target'[m] = IF f.motor = m /\ f.kind = "MIT" THEN f.pos
                   ELSE IF f.motor = m /\ f.kind = "STOP" THEN Unknown ELSE target[m]
  BY <1>0, <1>1, <1>2 DEF Execute, QueueType
<1>. QED
  BY <1>1, <1>3, <1>4, <1>5 DEF f

LEMMA OffStep == Typed /\ OffInv /\ [Next]_vars => OffInv'
<1>. SUFFICES ASSUME Typed, OffInv, [Next]_vars, NEW m \in Motors
              PROVE  /\ drive'[m] = "run" => Covered(m, 0)'
                     /\ \A k \in Nat : Queued("ENABLE", m, k)' => Covered(m, k)'
  BY DEF OffInv
<1>0. /\ ListType /\ QueueType /\ Place /\ L(m) \in Nat
      /\ enabled \in [Motors -> BOOLEAN]
  BY QueueDomain DEF Typed, ListType
<1>1. CASE Acts /\ UNCHANGED <<drive, target>>
  <2>1. \A n \in 0 .. L(m) : Covered(m, n) => Covered(m, n)'
    BY <1>1, CoveredActs
  <2>2. drive'[m] = "run" => Covered(m, 0)'
    BY <1>0, <1>1, <2>1 DEF OffInv
  <2>3. ASSUME NEW k \in Nat, Queued("ENABLE", m, k)' PROVE Covered(m, k)'
    <3>1. CASE Queued("ENABLE", m, k)
      <4>1. k \in 0 .. L(m)
        BY <1>0, <3>1, QueuedIndex
      <4>. QED
        BY <2>1, <3>1, <4>1 DEF OffInv
    <3>2. CASE Enables /\ m = Chosen
      <4>1. enabled'[m]
        BY <1>0, <3>2 DEF Enables
      <4>. QED
        BY <4>1 DEF Covered
    <3>. QED
      BY <1>1, <2>3, <3>1, <3>2, ActsQueued
  <2>. QED
    BY <2>2, <2>3
<1>2. ASSUME NEW c \in Channels, Deliver(c)
      PROVE  /\ drive'[m] = "run" => Covered(m, 0)'
             /\ \A k \in Nat : Queued("ENABLE", m, k)' => Covered(m, k)'
  <2>0. LET mine == Head(tx[c]).motor = m
            kind == Head(tx[c]).kind
        IN /\ drive'[m] = IF mine /\ kind = "ENABLE" THEN "run"
                          ELSE IF mine /\ kind = "STOP" THEN "reset" ELSE drive[m]
           /\ mine => Chan[m] = c
    BY <1>2, DeliverMotor
  <2>1. CASE Chan[m] = c
    <3>1. \A n \in Nat \ {0} : Covered(m, n) => Covered(m, n - 1)'
      BY <1>0, <1>2, <2>1, CoveredDeliver
    <3>2. Covered(m, 0) => Covered(m, 0)' \/ Queued("STOP", m, 1)
      BY <1>0, <1>2, <2>1, CoveredDeliver
    <3>3. \A K : Queued(K, m, 1) <=> (Head(tx[c]).kind = K /\ Head(tx[c]).motor = m)
      BY <1>0, <1>2, <2>1, DeliverQueued
    <3>4. Queued("ENABLE", m, 1) => Covered(m, 0)'
      BY <3>1 DEF OffInv
    <3>5. drive'[m] = "run" => Covered(m, 0)'
      BY <2>0, <3>2, <3>3, <3>4 DEF OffInv
    <3>6. ASSUME NEW k \in Nat, Queued("ENABLE", m, k)' PROVE Covered(m, k)'
      <4>1. k # 0
        BY <1>0, <1>2, <3>6, QueuedLater
      <4>2. Queued("ENABLE", m, k + 1)
        BY <1>0, <1>2, <2>1, <3>6, <4>1, DeliverQueued
      <4>3. k + 1 \in Nat \ {0} /\ (k + 1) - 1 = k
        OBVIOUS
      <4>4. Covered(m, k + 1)
        BY <4>2, <4>3 DEF OffInv
      <4>. QED
        BY <3>1, <4>3, <4>4
    <3>. QED
      BY <3>5, <3>6
  <2>2. CASE Chan[m] # c
    <3>1. \A n \in Nat : Covered(m, n) => Covered(m, n)'
      BY <1>0, <1>2, <2>2, CoveredDeliver
    <3>2. \A k : Queued("ENABLE", m, k)' => Queued("ENABLE", m, k)
      BY <1>0, <1>2, <2>2, DeliverQueued
    <3>. QED
      BY <2>0, <2>2, <3>1, <3>2 DEF OffInv
  <2>. QED
    BY <2>1, <2>2
<1>3. CASE Idle
  BY <1>3 DEF Idle, OffInv, Covered, StopBehind, Queued
<1>. QED
  BY <1>1, <1>2, <1>3, StepKinds

(***************************************************************************)
(* A motor that is shown OFF does not run, or its STOP is on the way, or   *)
(* its last STOP was refused where the program does not look: for any      *)
(* number of motors and frames, whatever the operator does.                *)
(***************************************************************************)
THEOREM OffMotorsAreOff == Spec => []OffIsOff
<1>1. Init => OffInv
  BY NothingQueued DEF Init, OffInv
<1>2. OffInv => OffIsOff
  BY DEF OffInv, OffIsOff, Covered
<1>. QED
  BY <1>1, <1>2, TypedInit, TypedStep, OffStep, PTL DEF Spec

-----------------------------------------------------------------------------
\* The motor being switched on stays the same until it is.
LEMMA ChosenStays ==
  ASSUME Typed, ProgramStep,
         at' \in {"stop", "mode", "prime", "enable", "undo"}
  PROVE  Chosen' = Chosen
<1>1. UNCHANGED <<asking, found, selected>> /\ at' \notin {"initial", "ask", "wait"}
  BY DEF ProgramStep, Refresh, Key, Scan, Initial, Ask, WaitFrame, Answered, WaitEnds, Failed, Throws,
         NoKey, Quit, Down, Up, Toggle, EnableStop, EnableMode, EnablePrime, Enable, EnableUndo,
         Disable, Hold, GiveUp, HoldEnds, Poll, Drain, NextChannel, Sleep, StopAll, Round, Go, listVars
<1>2. asking' = "on"
  <2>1. Place'
    BY ListStep DEF Typed, Next
  <2>. QED
    BY <2>1 DEF Place, AskOK, Switching
<1>. QED
  BY <1>1, <1>2 DEF Chosen

Switched(m) == at \in {"enable", "undo"} /\ m = Chosen

LEMMA MitStep == Typed /\ NoMitToOff /\ [Next]_vars => NoMitToOff'
<1>. SUFFICES ASSUME Typed, NoMitToOff, [Next]_vars, NEW m \in Motors, NEW k, Queued("MIT", m, k)'
              PROVE  Covered(m, k)' \/ Switched(m)'
  BY DEF NoMitToOff, Covered, Switched
<1>0. /\ ListType /\ QueueType /\ Place /\ L(m) \in Nat
      /\ enabled \in [Motors -> BOOLEAN]
  BY QueueDomain DEF Typed, ListType
<1>m. ASSUME NEW n, Queued("MIT", m, n) PROVE Covered(m, n) \/ Switched(m)
  BY <1>m DEF NoMitToOff, Covered, Switched, Queued
<1>1. CASE ProgramStep /\ Acts
  <2>1. \A n \in 0 .. L(m) : Covered(m, n) => Covered(m, n)'
    BY <1>1, CoveredActs
  <2>2. CASE Queued("MIT", m, k)
    <3>1. k \in 0 .. L(m)
      BY <1>0, <2>2, QueuedIndex
    <3>2. CASE Switched(m)
      <4>1. CASE at' = "undo"
        BY <1>1, <3>2, <4>1, ChosenStays DEF Switched
      <4>2. CASE Enables
        <5>1. enabled'[m]
          BY <1>0, <3>2, <4>2 DEF Enables, Switched
        <5>. QED
          BY <5>1 DEF Covered
      <4>3. CASE at = "undo" /\ Stops
        <5>1. m \in adrift' \/ Post("STOP", m, Unknown)
          BY <3>2, <4>3 DEF Stops, Switched
        <5>2. CASE Post("STOP", m, Unknown)
          <6>1. PICK l : l = L(m) + 1 /\ Queued("STOP", m, l)'
            BY <1>0, <5>2, PostQueued
          <6>2. l > k
            BY <1>0, <3>1, <6>1
          <6>. QED
            BY <6>1, <6>2 DEF Covered, StopBehind, Queued
        <5>. QED
          BY <5>1, <5>2 DEF Covered
      <4>. QED
        BY <1>1, <3>2, <4>1, <4>2, <4>3 DEF Acts, Switched
    <3>. QED
      BY <1>m, <2>1, <2>2, <3>1, <3>2
  <2>3. CASE Holds /\ enabled[m]
    BY <2>3 DEF Holds, Covered
  <2>4. CASE Primes /\ m = Chosen
    BY <1>1, <2>4, ChosenStays DEF Primes, Switched
  <2>. QED
    BY <1>1, <2>2, <2>3, <2>4, ActsQueued
<1>2. ASSUME NEW c \in Channels, Deliver(c) PROVE Covered(m, k)' \/ Switched(m)'
  <2>1. Switched(m) => Switched(m)'
    BY <1>2, DeliverMotor DEF Switched, Chosen
  <2>2. CASE Chan[m] = c
    <3>1. k \in Nat \ {0}
      BY <1>0, <1>2, QueuedLater
    <3>2. Queued("MIT", m, k + 1)
      BY <1>0, <1>2, <2>2, <3>1, DeliverQueued
    <3>3. k + 1 \in Nat /\ k + 1 # 0 /\ (k + 1) - 1 = k
      BY <3>1
    <3>4. Covered(m, k + 1) => Covered(m, k)'
      BY <1>0, <1>2, <2>2, <3>3, CoveredDeliver
    <3>. QED
      BY <1>m, <2>1, <3>2, <3>4
  <2>3. CASE Chan[m] # c
    <3>1. Queued("MIT", m, k)
      BY <1>0, <1>2, <2>3, DeliverQueued
    <3>2. k \in Nat
      BY <1>0, <3>1, QueuedIndex
    <3>3. Covered(m, k) => Covered(m, k)'
      BY <1>0, <1>2, <2>3, <3>2, CoveredDeliver
    <3>. QED
      BY <1>m, <2>1, <3>1, <3>3
  <2>. QED
    BY <2>2, <2>3
<1>3. CASE Idle
  <2>1. Queued("MIT", m, k)
    BY <1>3 DEF Idle, Queued
  <2>2. Covered(m, k) \/ Switched(m)
    BY <1>m, <2>1
  <2>. QED
    BY <1>3, <2>2 DEF Idle, Covered, Switched, StopBehind, Queued
<1>. QED
  BY <1>1, <1>2, <1>3, StepKinds

(***************************************************************************)
(* An MIT command is on its way only to a motor that is ON or is being     *)
(* enabled, or a STOP follows it; or to one whose last STOP was refused    *)
(* where the program does not look, and that alone is the exception.       *)
(***************************************************************************)
THEOREM MitOnlyToOn == Spec => []NoMitToOff
<1>1. Init => NoMitToOff
  BY NothingQueued DEF NoMitToOff
<1>. QED
  BY <1>1, TypedInit, TypedStep, MitStep, PTL DEF Spec

-----------------------------------------------------------------------------
(***************************************************************************)
(* Targets.  Motor m is primed behind its first n frames: when it comes    *)
(* there it has a target inside the MIT range.                             *)
(***************************************************************************)
NoStop(m, a, b) == \A l \in a .. b : ~Queued("STOP", m, l)

Primed(m, n) ==
  \/ target[m] \in MitRange /\ NoStop(m, 1, n)
  \/ \E j \in 1 .. n : Queued("MIT", m, j) /\ NoStop(m, j + 1, n)

InRange(m, k) == tx[Chan[m]][k].pos \in MitRange

HoldInv ==
  \A m \in Motors :
    enabled[m] \/ (at \in {"stop", "mode", "prime", "enable"} /\ m = Chosen) => hold[m] \in MitRange

TargetInv ==
  \A m \in Motors :
    /\ drive[m] = "run" => target[m] \in MitRange
    /\ \A k \in Nat : Queued("MIT", m, k) => InRange(m, k)
    /\ \A k \in Nat : Queued("ENABLE", m, k) => Primed(m, k - 1)
    /\ at = "enable" /\ m = Chosen => Primed(m, L(m))

\* Only a position that enable_selected_motor() has tested is held.
LEMMA HoldActs ==
  ASSUME Typed, HoldInv, ProgramStep
  PROVE  HoldInv'
<1>0. /\ ListType /\ QueueType /\ Place
      /\ enabled \in [Motors -> BOOLEAN] /\ hold \in [Motors -> MitRange \cup {Unknown}]
  BY DEF Typed, ListType
<1>1. CASE WaitFrame
  <2>1. Chosen \in Motors
    BY <1>0, <1>1, ChosenType DEF WaitFrame
  <2>2. enabled' = enabled /\ at = "wait"
    BY <1>1 DEF WaitFrame
  <2>3. CASE hold' = hold /\ at' \in {"wait", "initial", "hold"}
    BY <1>0, <2>2, <2>3 DEF HoldInv
  <2>4. ASSUME NEW p \in MitRange, at' = "stop", hold' = [hold EXCEPT ![Chosen] = p]
        PROVE  HoldInv'
    <3>1. Chosen' = Chosen
      BY <1>1, <2>4, ChosenStays
    <3>. QED
      BY <1>0, <2>1, <2>2, <2>4, <3>1 DEF HoldInv
  <2>5. \/ hold' = hold /\ at' \in {"wait", "initial", "hold"}
        \/ \E p \in MitRange : at' = "stop" /\ hold' = [hold EXCEPT ![Chosen] = p]
    BY <1>1 DEF WaitFrame, Answered, Go
  <2>. QED
    BY <2>3, <2>4, <2>5
<1>2. CASE ~WaitFrame
  <2>1. hold' = hold
    BY <1>2 DEF ProgramStep, Refresh, Key, Scan, Initial, Ask, WaitEnds, Throws, NoKey, Quit, Down,
                Up, Toggle, EnableStop, EnableMode, EnablePrime, Enable, EnableUndo, Disable, Hold,
                GiveUp, HoldEnds, Poll, Drain, Sleep, StopAll, stateVars
  <2>2. at' \in {"stop", "mode", "prime", "enable"} => at \in {"stop", "mode", "prime"}
    BY <1>2 DEF ProgramStep, Refresh, Key, Scan, Initial, Ask, WaitEnds, Failed, Throws, NoKey, Quit,
                Down, Up, Toggle, EnableStop, EnableMode, EnablePrime, Enable, EnableUndo, Disable,
                Hold, GiveUp, HoldEnds, Poll, Drain, NextChannel, Sleep, StopAll, Round, Go
  <2>3. Acts
    BY <1>0, ProgramActs
  <2>4. \A m \in Motors : enabled'[m] => enabled[m] \/ (at = "enable" /\ m = Chosen)
    BY <1>0, <2>3 DEF Acts, Quiet, Asks, Holds, Primes, Enables, Stops
  <2>. QED
    BY <2>1, <2>2, <2>4, ChosenStays DEF HoldInv
<1>. QED
  BY <1>1, <1>2

LEMMA PrimedActs ==
  ASSUME Typed, Acts, UNCHANGED target, NEW m \in Motors, NEW n \in 0 .. L(m), Primed(m, n)
  PROVE  Primed(m, n)'
<1>1. L(m) \in Nat
  BY QueueDomain DEF Typed
<1>2. ASSUME NEW l \in Int, l <= n PROVE Queued("STOP", m, l)' => Queued("STOP", m, l)
  <2>1. l # L(m) + 1
    BY <1>1, <1>2
  <2>. QED
    BY <2>1, ActsKeep
<1>3. ASSUME NEW a \in Int, NoStop(m, a, n) PROVE NoStop(m, a, n)'
  BY <1>1, <1>2, <1>3 DEF NoStop
<1>4. \A k : Queued("MIT", m, k) => Queued("MIT", m, k)'
  BY ActsKeep
<1>5. CASE target[m] \in MitRange /\ NoStop(m, 1, n)
  BY <1>3, <1>5 DEF Primed
<1>6. ASSUME NEW j \in 1 .. n, Queued("MIT", m, j), NoStop(m, j + 1, n) PROVE Primed(m, n)'
  <2>1. Queued("MIT", m, j)' /\ NoStop(m, j + 1, n)'
    BY <1>1, <1>3, <1>4, <1>6
  <2>. QED
    BY <1>6, <2>1 DEF Primed
<1>. QED
  BY <1>5, <1>6 DEF Primed

\* The head of a queue, and what it does to the target of motor m.
LEMMA HeadTarget ==
  ASSUME Typed, TargetInv, NEW c \in Channels, Deliver(c), NEW m \in Motors
  PROVE  LET ofKind(K) == Chan[m] = c /\ Queued(K, m, 1)
         IN /\ ofKind("MIT") => target'[m] \in MitRange
            /\ ~ofKind("STOP") /\ target[m] \in MitRange => target'[m] \in MitRange
            /\ drive'[m] = "run" => \/ ofKind("ENABLE") /\ target'[m] = target[m]
                                    \/ drive[m] = "run" /\ ~ofKind("STOP")
<1>0. QueueType
  BY DEF Typed
<1>. DEFINE f == Head(tx[c])
<1>1. /\ drive'[m] = IF f.motor = m /\ f.kind = "ENABLE" THEN "run"
                     ELSE IF f.motor = m /\ f.kind = "STOP" THEN "reset" ELSE drive[m]
      /\ target'[m] = IF f.motor = m /\ f.kind = "MIT" THEN f.pos
                      ELSE IF f.motor = m /\ f.kind = "STOP" THEN Unknown ELSE target[m]
      /\ f.motor = m => Chan[m] = c
  BY DeliverMotor
<1>2. Chan[m] = c => \A K : Queued(K, m, 1) <=> (f.kind = K /\ f.motor = m)
  BY <1>0, DeliverQueued
<1>3. Chan[m] = c => f = tx[Chan[m]][1]
  BY <1>0, HeadFrame DEF Deliver
<1>4. Queued("MIT", m, 1) => InRange(m, 1)
  BY DEF TargetInv
<1>. HIDE DEF f
<1>5. f.motor = m /\ f.kind = "MIT" => f.pos \in MitRange
  BY <1>1, <1>2, <1>3, <1>4 DEF InRange
<1>. QED
  BY <1>1, <1>2, <1>5

LEMMA PrimedDeliver ==
  ASSUME Typed, TargetInv, NEW c \in Channels, Deliver(c), NEW m \in Motors, NEW n \in Nat,
         Primed(m, n)
  PROVE  /\ Chan[m] # c => Primed(m, n)'
         /\ Chan[m] = c /\ n # 0 => Primed(m, n - 1)'
<1>0. QueueType
  BY DEF Typed
<1>1. CASE Chan[m] # c
  <2>1. \A K, k : Queued(K, m, k)' <=> Queued(K, m, k)
    BY <1>0, <1>1, DeliverQueued
  <2>2. target[m] \in MitRange => target'[m] \in MitRange
    BY <1>1, HeadTarget
  <2>. QED
    BY <1>1, <2>1, <2>2 DEF Primed, NoStop
<1>2. CASE Chan[m] = c /\ n # 0
  <2>1. ASSUME NEW a \in Nat \ {0}, NoStop(m, a + 1, n) PROVE NoStop(m, a, n - 1)'
    <3>1. ASSUME NEW l \in a .. n - 1 PROVE ~Queued("STOP", m, l)'
      <4>1. l + 1 \in a + 1 .. n /\ l \in Nat \ {0}
        BY <2>1
      <4>. QED
        BY <1>0, <1>2, <2>1, <4>1, DeliverQueued DEF NoStop
    <3>. QED
      BY <3>1 DEF NoStop
  <2>2. ASSUME target'[m] \in MitRange, NoStop(m, 2, n) PROVE Primed(m, n - 1)'
    <3>1. NoStop(m, 1, n - 1)'
      BY <2>1, <2>2
    <3>. QED
      BY <2>2, <3>1 DEF Primed
  <2>3. CASE target[m] \in MitRange /\ NoStop(m, 1, n)
    <3>1. ~Queued("STOP", m, 1) /\ NoStop(m, 2, n)
      BY <1>2, <2>3 DEF NoStop
    <3>. QED
      BY <1>2, <2>2, <2>3, <3>1, HeadTarget
  <2>4. ASSUME NEW j \in 1 .. n, Queued("MIT", m, j), NoStop(m, j + 1, n)
        PROVE  Primed(m, n - 1)'
    <3>1. CASE j = 1
      BY <1>2, <2>2, <2>4, <3>1, HeadTarget
    <3>2. CASE j # 1
      <4>1. j - 1 \in Nat \ {0} /\ (j - 1) + 1 = j /\ j - 1 \in 1 .. n - 1
        BY <3>2
      <4>2. Queued("MIT", m, j - 1)'
        BY <1>0, <1>2, <2>4, <4>1, DeliverQueued
      <4>3. NoStop(m, j, n - 1)'
        BY <2>1, <2>4
      <4>. QED
        BY <4>1, <4>2, <4>3 DEF Primed
    <3>. QED
      BY <3>1, <3>2
  <2>5. \/ target[m] \in MitRange /\ NoStop(m, 1, n)
        \/ \E j \in 1 .. n : Queued("MIT", m, j) /\ NoStop(m, j + 1, n)
    BY DEF Primed
  <2>. QED
    BY <1>2, <2>3, <2>4, <2>5
<1>. QED
  BY <1>1, <1>2

LEMMA TargetActs ==
  ASSUME Typed, HoldInv, TargetInv, ProgramStep, Acts, UNCHANGED <<drive, target>>
  PROVE  TargetInv'
<1>. SUFFICES ASSUME NEW m \in Motors
              PROVE  /\ drive'[m] = "run" => target'[m] \in MitRange
                     /\ \A k \in Nat : Queued("MIT", m, k)' => InRange(m, k)'
                     /\ \A k \in Nat : Queued("ENABLE", m, k)' => Primed(m, k - 1)'
                     /\ at' = "enable" /\ m = Chosen' => Primed(m, L(m))'
  BY DEF TargetInv
<1>0. ListType /\ QueueType /\ Place /\ QueueType' /\ L(m) \in Nat
  BY QueueDomain, TypedStep DEF Typed, Next
<1>1. ASSUME NEW k \in Nat, Queued("MIT", m, k)' PROVE InRange(m, k)'
  <2>1. (Holds /\ enabled[m]) \/ (Primes /\ m = Chosen) => hold[m] \in MitRange
    BY DEF HoldInv, Primes
  <2>. QED
    BY <1>1, <2>1, ActsQueued DEF TargetInv, InRange
<1>2. ASSUME NEW k \in Nat, Queued("ENABLE", m, k)' PROVE Primed(m, k - 1)'
  <2>1. CASE Queued("ENABLE", m, k)
    <3>1. k - 1 \in 0 .. L(m)
      BY <1>0, <2>1, QueuedIndex
    <3>. QED
      BY <2>1, <3>1, PrimedActs DEF TargetInv
  <2>2. CASE ~Queued("ENABLE", m, k)
    <3>1. k = L(m) + 1 /\ Enables /\ m = Chosen
      BY <1>2, <2>2, ActsKeep, ActsQueued
    <3>2. Primed(m, L(m))
      BY <3>1 DEF TargetInv, Enables
    <3>3. Primed(m, L(m)) /\ L(m) = k - 1 /\ k - 1 \in 0 .. L(m)
      BY <1>0, <3>1, <3>2
    <3>. QED
      BY <3>3, PrimedActs
  <2>. QED
    BY <2>1, <2>2
<1>3. ASSUME at' = "enable", m = Chosen' PROVE Primed(m, L(m))'
  <2>1. Primes /\ m = Chosen
    BY <1>3, ChosenStays DEF Acts
  <2>2. Post("MIT", m, hold[m])
    BY <2>1 DEF Primes
  <2>3. PICK k : k = L(m) + 1 /\ Queued("MIT", m, k)'
    BY <1>0, <2>2, PostQueued
  <2>4. \A l : l # k => ~(Queued("STOP", m, l)' /\ ~Queued("STOP", m, l))
    BY <1>0, <2>2, <2>3, PostQueued
  <2>5. ASSUME NEW l, l > k PROVE ~Queued("STOP", m, l)'
    <3>1. ~Queued("STOP", m, l)
      BY <1>0, <2>3, <2>5, QueuedIndex
    <3>. QED
      BY <1>0, <2>3, <2>4, <2>5, <3>1
  <2>6. k \in Nat \ {0} /\ k \in 1 .. L(m)' /\ L(m)' \in Nat
    <3>1. Chan[m] \in Channels
      BY Constants
    <3>2. tx'[Chan[m]] \in Seq(FrameSet) /\ k \in DOMAIN tx'[Chan[m]]
      BY <1>0, <2>3, <3>1 DEF Queued, QueueType
    <3>. QED
      BY <3>2 DEF L
  <2>7. NoStop(m, k + 1, L(m))'
    BY <2>5, <2>6 DEF NoStop
  <2>. QED
    BY <2>3, <2>6, <2>7 DEF Primed
<1>. QED
  BY <1>1, <1>2, <1>3 DEF TargetInv

LEMMA TargetDeliver ==
  ASSUME Typed, TargetInv, NEW c \in Channels, Deliver(c)
  PROVE  TargetInv'
<1>. SUFFICES ASSUME NEW m \in Motors
              PROVE  /\ drive'[m] = "run" => target'[m] \in MitRange
                     /\ \A k \in Nat : Queued("MIT", m, k)' => InRange(m, k)'
                     /\ \A k \in Nat : Queued("ENABLE", m, k)' => Primed(m, k - 1)'
                     /\ at' = "enable" /\ m = Chosen' => Primed(m, L(m))'
  BY DEF TargetInv
<1>0. QueueType /\ L(m) \in Nat
  BY QueueDomain DEF Typed
<1>1. UNCHANGED at /\ Chosen' = Chosen
  BY DeliverMotor DEF Chosen
<1>2. drive'[m] = "run" => target'[m] \in MitRange
  <2>1. Queued("ENABLE", m, 1) => target[m] \in MitRange
    <3>1. 1 \in Nat /\ 1 - 1 = 0 /\ 1 .. 0 = {}
      OBVIOUS
    <3>. QED
      BY <3>1 DEF TargetInv, Primed
  <2>2. drive[m] = "run" => target[m] \in MitRange
    BY DEF TargetInv
  <2>. QED
    BY <2>1, <2>2, HeadTarget
<1>3. CASE Chan[m] = c
  <2>1. ASSUME NEW K, NEW k, Queued(K, m, k)'
        PROVE  k \in Nat \ {0} /\ k + 1 \in Nat /\ Queued(K, m, k + 1)
               /\ tx'[Chan[m]][k] = tx[Chan[m]][k + 1]
    <3>1. k \in Nat \ {0}
      BY <1>0, <2>1, QueuedLater
    <3>. QED
      BY <1>0, <1>3, <2>1, <3>1, DeliverQueued
  <2>2. \A k \in Nat : Queued("MIT", m, k)' => InRange(m, k)'
    BY <2>1 DEF TargetInv, InRange
  <2>3. ASSUME NEW k \in Nat, Queued("ENABLE", m, k)' PROVE Primed(m, k - 1)'
    <3>1. k # 0 /\ k + 1 \in Nat /\ (k + 1) - 1 = k /\ Queued("ENABLE", m, k + 1)
      BY <2>1, <2>3
    <3>2. Primed(m, k)
      BY <3>1 DEF TargetInv
    <3>. QED
      BY <1>3, <3>1, <3>2, PrimedDeliver
  <2>4. L(m) # 0 /\ L(m)' = L(m) - 1
    BY <1>0, <1>3 DEF Deliver, L, QueueType
  <2>5. ASSUME at' = "enable", m = Chosen' PROVE Primed(m, L(m))'
    <3>1. Primed(m, L(m))
      BY <1>1, <2>5 DEF TargetInv
    <3>2. ASSUME NEW n, n = L(m) - 1 PROVE Primed(m, n)'
      BY <1>0, <1>3, <2>4, <3>1, <3>2, PrimedDeliver
    <3>3. \A n : n = L(m)' => Primed(m, n)'
      BY <2>4, <3>2
    <3>. QED
      BY <3>3 DEF Primed, NoStop
  <2>. QED
    BY <1>2, <2>2, <2>3, <2>5
<1>4. CASE Chan[m] # c
  <2>1. \A K, k : (Queued(K, m, k)' <=> Queued(K, m, k)) /\ tx'[Chan[m]][k] = tx[Chan[m]][k]
    BY <1>0, <1>4, DeliverQueued
  <2>2. \A k \in Nat : Queued("MIT", m, k)' => InRange(m, k)'
    BY <2>1 DEF TargetInv, InRange
  <2>3. ASSUME NEW k \in Nat, Queued("ENABLE", m, k)' PROVE Primed(m, k - 1)'
    <3>1. k - 1 \in Nat /\ Queued("ENABLE", m, k)
      BY <1>0, <2>1, <2>3, QueuedIndex
    <3>2. Primed(m, k - 1)
      BY <3>1 DEF TargetInv
    <3>. QED
      BY <1>4, <3>1, <3>2, PrimedDeliver
  <2>4. L(m)' = L(m)
    BY <1>0, <1>4, Constants DEF Deliver, L, QueueType
  <2>5. ASSUME at' = "enable", m = Chosen' PROVE Primed(m, L(m))'
    <3>1. Primed(m, L(m))
      BY <1>1, <2>5 DEF TargetInv
    <3>2. \A n : n = L(m) => Primed(m, n)'
      BY <1>0, <1>4, <3>1, PrimedDeliver
    <3>3. \A n : n = L(m)' => Primed(m, n)'
      BY <2>4, <3>2
    <3>. QED
      BY <3>3 DEF Primed, NoStop
  <2>. QED
    BY <1>2, <2>2, <2>3, <2>5
<1>. QED
  BY <1>3, <1>4

LEMMA TargetStep == Typed /\ HoldInv /\ TargetInv /\ [Next]_vars => HoldInv' /\ TargetInv'
<1>. SUFFICES ASSUME Typed, HoldInv, TargetInv, [Next]_vars PROVE HoldInv' /\ TargetInv'
  OBVIOUS
<1>1. CASE ProgramStep /\ Acts /\ UNCHANGED <<drive, target>>
  BY <1>1, HoldActs, TargetActs
<1>2. ASSUME NEW c \in Channels, Deliver(c) PROVE HoldInv' /\ TargetInv'
  <2>1. UNCHANGED <<at, enabled, hold>> /\ Chosen' = Chosen
    BY <1>2 DEF Deliver, Chosen, placeVars, listVars, stateVars
  <2>. QED
    BY <1>2, <2>1, TargetDeliver DEF HoldInv
<1>3. CASE Idle
  BY <1>3 DEF Idle, HoldInv, TargetInv, Primed, NoStop, InRange, Queued, L
<1>. QED
  BY <1>1, <1>2, <1>3, StepKinds

(***************************************************************************)
(* A motor that runs has a target inside the MIT range: it was commanded   *)
(* one before its ENABLE, and no STOP has come between the two.  That the  *)
(* target is where the motor is takes more: see HeldWhereRead.             *)
(***************************************************************************)
THEOREM RunningOnTarget == Spec => []RunsOnTarget
<1>1. Init => HoldInv /\ TargetInv
  BY NothingQueued DEF Init, HoldInv, TargetInv
<1>2. TargetInv => RunsOnTarget
  BY DEF TargetInv, RunsOnTarget
<1>. QED
  BY <1>1, <1>2, TypedInit, TypedStep, TargetStep, PTL DEF Spec

-----------------------------------------------------------------------------
(***************************************************************************)
(* What an ON motor is commanded.  Motor m is live from the STOP that its  *)
(* switching on begins with until it is switched off: behind that STOP it  *)
(* is sent only the position that was read before it.                      *)
(***************************************************************************)
Live(m) == enabled[m] \/ (at \in {"mode", "prime", "enable"} /\ m = Chosen)

(***************************************************************************)
(* "The measured position becomes the hold target before ENABLE is sent"   *)
(* (position_read.md line 20), and no other: an ON motor was commanded the *)
(* position that was read for this switching on, or nothing yet, or a STOP *)
(* to it, such as the one the switching on began with, is still on its     *)
(* way.  Where the motor was when it was read is HoldsRead.                *)
(***************************************************************************)
HoldsMeasured ==
  \A m \in Motors :
    enabled[m] => StopBehind(m, 0) \/ target[m] \in {Unknown, hold[m]}

\* Only a motor that is OFF is asked in order to be switched on.
AskInv == at \in {"ask", "wait"} /\ asking = "on" => ~enabled[Chosen]

\* The same of the commands on their way.
MeasuredInv ==
  \A m \in Motors : Live(m) =>
    /\ \A k \in Nat : Queued("MIT", m, k) => StopBehind(m, k) \/ PosIs(m, k, hold[m])
    /\ StopBehind(m, 0) \/ target[m] \in {Unknown, hold[m]}

LEMMA AskStep == Typed /\ AskInv /\ [Next]_vars => AskInv'
<1>. SUFFICES ASSUME Typed, AskInv, [Next]_vars, at' \in {"ask", "wait"}, asking' = "on"
              PROVE  ~enabled'[Chosen']
  BY DEF AskInv
<1>1. CASE ProgramStep
  <2>1. CASE Toggle
    <3>1. /\ UNCHANGED <<found, selected, enabled>> /\ asking' = "on"
          /\ ~enabled[found[selected + 1]]
      BY <2>1 DEF Toggle, Go, listVars, stateVars
    <3>. QED
      BY <3>1 DEF Chosen
  <2>2. CASE ~Toggle
    <3>1. at \in {"ask", "wait", "initial"} /\ UNCHANGED <<asking, found, selected, enabled>>
      BY <1>1, <2>2
         DEF ProgramStep, Refresh, Key, Scan, Initial, Ask, WaitFrame, Answered, WaitEnds, Failed,
             Throws, NoKey, Quit, Down, Up, EnableStop, EnableMode, EnablePrime, Enable, EnableUndo,
             Disable, Hold, GiveUp, HoldEnds, Poll, Drain, NextChannel, Sleep, StopAll, Round, Go,
             listVars, stateVars
    <3>2. at # "initial"
      BY <3>1 DEF Typed, Place, AskOK
    <3>. QED
      BY <3>1, <3>2 DEF AskInv, Chosen
  <2>. QED
    BY <2>1, <2>2
<1>2. CASE ~ProgramStep
  <2>1. UNCHANGED <<at, i, asking, found, selected, enabled>>
    BY <1>2 DEF Next, OutsideStep, Signal, Deliver, Turn, vars, placeVars, listVars, stateVars
  <2>. QED
    BY <2>1 DEF AskInv, Chosen
<1>. QED
  BY <1>1, <1>2

\* Where a motor becomes live, and that what a live motor holds stays.
LEMMA LiveActs ==
  ASSUME Typed, AskInv, ProgramStep, Acts, NEW m \in Motors, Live(m)'
  PROVE  /\ hold'[m] = hold[m]
         /\ Live(m) \/ Post("STOP", m, Unknown)
<1>0. /\ ListType /\ QueueType /\ Place
      /\ enabled \in [Motors -> BOOLEAN] /\ hold \in [Motors -> MitRange \cup {Unknown}]
  BY DEF Typed, ListType
<1>1. hold'[m] = hold[m]
  <2>1. CASE WaitFrame
    <3>1. /\ at = "wait" /\ at' \in {"wait", "initial", "hold", "stop"} /\ enabled' = enabled
          /\ \/ hold' = hold
             \/ asking = "on" /\ \E p \in MitRange : hold' = [hold EXCEPT ![Chosen] = p]
      <4>1. asking \in {"initial", "on"}
        BY <1>0 DEF Place, AskOK
      <4>. QED
        BY <2>1, <4>1 DEF WaitFrame, Answered, Go
    <3>2. enabled[m]
      BY <3>1 DEF Live
    <3>3. asking = "on" => m # Chosen
      BY <3>1, <3>2 DEF AskInv
    <3>. QED
      BY <1>0, <3>1, <3>3
  <2>2. CASE ~WaitFrame
    BY <2>2 DEF ProgramStep, Refresh, Key, Scan, Initial, Ask, WaitEnds, Throws, NoKey, Quit, Down,
                Up, Toggle, EnableStop, EnableMode, EnablePrime, Enable, EnableUndo, Disable, Hold,
                GiveUp, HoldEnds, Poll, Drain, Sleep, StopAll, stateVars
  <2>. QED
    BY <2>1, <2>2
<1>2. CASE enabled'[m]
  <2>1. enabled[m] \/ (at = "enable" /\ m = Chosen)
    BY <1>0, <1>2 DEF Acts, Quiet, Asks, Holds, Primes, Enables, Stops
  <2>. QED
    BY <1>1, <2>1 DEF Live
<1>3. CASE at' \in {"mode", "prime", "enable"} /\ m = Chosen'
  <2>1. m = Chosen
    BY <1>3, ChosenStays
  <2>2. at \in {"mode", "prime"} \/ EnableStop
    BY <1>3 DEF ProgramStep, Refresh, Key, Scan, Initial, Ask, WaitFrame, Answered, WaitEnds, Failed,
                Throws, NoKey, Quit, Down, Up, Toggle, EnableMode, EnablePrime, Enable, EnableUndo,
                Disable, Hold, GiveUp, HoldEnds, Poll, Drain, NextChannel, Sleep, StopAll, Round, Go
  <2>3. EnableStop => Post("STOP", m, Unknown)
    BY <1>3, <2>1 DEF EnableStop, Stopped, Written, Refused, Post, Go
  <2>. QED
    BY <1>1, <2>1, <2>2, <2>3 DEF Live
<1>. QED
  BY <1>1, <1>2, <1>3 DEF Live

LEMMA MeasuredActs ==
  ASSUME Typed, AskInv, MeasuredInv, ProgramStep, Acts, UNCHANGED target
  PROVE  MeasuredInv'
<1>. SUFFICES ASSUME NEW m \in Motors, Live(m)'
              PROVE  /\ \A k \in Nat : Queued("MIT", m, k)' =>
                          StopBehind(m, k)' \/ PosIs(m, k, hold[m])'
                     /\ StopBehind(m, 0)' \/ target'[m] \in {Unknown, hold'[m]}
  BY DEF MeasuredInv
<1>0. QueueType /\ hold'[m] = hold[m] /\ L(m) \in Nat
  BY LiveActs, QueueDomain DEF Typed
<1>1. \A n \in Nat : StopBehind(m, n) => StopBehind(m, n)'
  BY ActsKeep DEF StopBehind, Queued
<1>2. CASE Live(m)
  <2>1. ASSUME NEW k \in Nat, Queued("MIT", m, k)'
        PROVE  StopBehind(m, k)' \/ PosIs(m, k, hold[m])'
    <3>1. CASE Queued("MIT", m, k) /\ tx'[Chan[m]][k] = tx[Chan[m]][k]
      BY <1>0, <1>1, <1>2, <3>1 DEF MeasuredInv, PosIs
    <3>2. CASE tx'[Chan[m]][k].pos = hold[m]
      BY <1>0, <3>2 DEF PosIs
    <3>. QED
      BY <2>1, <3>1, <3>2, ActsQueued
  <2>2. StopBehind(m, 0)' \/ target'[m] \in {Unknown, hold'[m]}
    BY <1>0, <1>1, <1>2 DEF MeasuredInv
  <2>. QED
    BY <2>1, <2>2
<1>3. CASE Post("STOP", m, Unknown)
  <2>1. PICK n : n = L(m) + 1 /\ Queued("STOP", m, n)'
    BY <1>0, <1>3, PostQueued
  <2>2. ASSUME NEW k \in Nat, k < n PROVE StopBehind(m, k)'
    BY <2>1, <2>2 DEF StopBehind, Queued
  <2>3. ASSUME NEW k \in Nat, Queued("MIT", m, k)' PROVE StopBehind(m, k)'
    <3>0. \A K, j : Queued(K, m, j)' /\ ~Queued(K, m, j) => K = "STOP"
      BY <1>0, <1>3, PostQueued
    <3>1. Queued("MIT", m, k)
      BY <2>3, <3>0
    <3>2. k \in 1 .. L(m)
      BY <1>0, <3>1, QueuedIndex
    <3>. QED
      BY <1>0, <2>1, <2>2, <3>2
  <2>4. StopBehind(m, 0)'
    BY <1>0, <2>1, <2>2
  <2>. QED
    BY <2>3, <2>4
<1>. QED
  BY <1>2, <1>3, LiveActs

\* A STOP that is further behind comes nearer.
LEMMA StopNearer ==
  ASSUME QueueType, NEW c \in Channels, Deliver(c), NEW m \in Motors, NEW n \in Nat,
         StopBehind(m, n)
  PROVE  /\ Chan[m] # c => StopBehind(m, n)'
         /\ Chan[m] = c /\ n # 0 => StopBehind(m, n - 1)'
         /\ Chan[m] = c /\ n = 0 => StopBehind(m, 0)' \/ Queued("STOP", m, 1)
<1>1. PICK k : k > n /\ Queued("STOP", m, k)
  BY DEF StopBehind
<1>2. k \in Nat \ {0}
  BY <1>1, QueuedIndex
<1>3. CASE Chan[m] # c
  <2>1. Queued("STOP", m, k)'
    BY <1>1, <1>3, DeliverQueued
  <2>. QED
    BY <1>1, <1>3, <2>1 DEF StopBehind, Queued
<1>4. CASE Chan[m] = c /\ k # 1
  <2>1. k - 1 \in Nat \ {0} /\ (k - 1) + 1 = k
    BY <1>2, <1>4
  <2>2. Queued("STOP", m, k - 1)'
    BY <1>1, <1>4, <2>1, DeliverQueued
  <2>3. k - 1 > 0 /\ (n # 0 => k - 1 > n - 1)
    BY <1>1, <2>1
  <2>. QED
    BY <1>4, <2>2, <2>3 DEF StopBehind, Queued
<1>5. CASE Chan[m] = c /\ k = 1
  <2>1. n = 0
    BY <1>1, <1>5
  <2>. QED
    BY <1>1, <1>5, <2>1
<1>. QED
  BY <1>3, <1>4, <1>5

LEMMA MeasuredDeliver ==
  ASSUME Typed, MeasuredInv, NEW c \in Channels, Deliver(c)
  PROVE  MeasuredInv'
<1>. SUFFICES ASSUME NEW m \in Motors, Live(m)'
              PROVE  /\ \A k \in Nat : Queued("MIT", m, k)' =>
                          StopBehind(m, k)' \/ PosIs(m, k, hold[m])'
                     /\ StopBehind(m, 0)' \/ target'[m] \in {Unknown, hold'[m]}
  BY DEF MeasuredInv
<1>0. QueueType
  BY DEF Typed
<1>. DEFINE mine == Head(tx[c]).motor = m
            kind == Head(tx[c]).kind
<1>1. /\ UNCHANGED <<at, i, asking, found, selected, enabled, hold, adrift>>
      /\ target'[m] = IF mine /\ kind = "MIT" THEN Head(tx[c]).pos
                      ELSE IF mine /\ kind = "STOP" THEN Unknown ELSE target[m]
      /\ mine => Chan[m] = c
  BY DeliverMotor
<1>2. Live(m)
  BY <1>1 DEF Live, Chosen
<1>3. /\ \A k \in Nat : Queued("MIT", m, k) => StopBehind(m, k) \/ PosIs(m, k, hold[m])
      /\ StopBehind(m, 0) \/ target[m] \in {Unknown, hold[m]}
  BY <1>2 DEF MeasuredInv
<1>4. CASE Chan[m] = c
  <2>1. \A K : Queued(K, m, 1) <=> (kind = K /\ mine)
    BY <1>0, <1>4, DeliverQueued
  <2>2. Head(tx[c]) = tx[Chan[m]][1]
    BY <1>0, <1>4, HeadFrame DEF Deliver
  <2>. HIDE DEF mine, kind
  <2>3. ASSUME NEW k \in Nat, Queued("MIT", m, k)'
        PROVE  StopBehind(m, k)' \/ PosIs(m, k, hold[m])'
    <3>1. k \in Nat \ {0}
      BY <1>0, <2>3, QueuedLater
    <3>2. Queued("MIT", m, k + 1) /\ tx'[Chan[m]][k] = tx[Chan[m]][k + 1]
      BY <1>0, <1>4, <2>3, <3>1, DeliverQueued
    <3>3. k + 1 \in Nat \ {0} /\ (k + 1) - 1 = k
      BY <3>1
    <3>4. CASE StopBehind(m, k + 1)
      <4>1. \A n \in Nat : n # 0 /\ StopBehind(m, n) => StopBehind(m, n - 1)'
        BY <1>0, <1>4, StopNearer
      <4>2. \A n \in Nat \ {0} : n - 1 = k /\ StopBehind(m, n) => StopBehind(m, k)'
        BY <4>1
      <4>. QED
        BY <3>3, <3>4, <4>2
    <3>5. CASE PosIs(m, k + 1, hold[m])
      BY <1>1, <3>2, <3>5 DEF PosIs
    <3>. QED
      BY <1>3, <3>2, <3>3, <3>4, <3>5
  <2>4. StopBehind(m, 0)' \/ target'[m] \in {Unknown, hold'[m]}
    <3>1. CASE mine /\ kind = "MIT"
      <4>1. StopBehind(m, 1) \/ PosIs(m, 1, hold[m])
        BY <1>3, <2>1, <3>1
      <4>2. StopBehind(m, 1) => StopBehind(m, 0)'
        <5>1. \A n \in Nat : n = 1 /\ StopBehind(m, n) => StopBehind(m, 0)'
          BY <1>0, <1>4, StopNearer
        <5>. QED
          BY <5>1
      <4>3. PosIs(m, 1, hold[m]) => target'[m] = hold'[m]
        BY <1>1, <2>2, <3>1 DEF PosIs
      <4>. QED
        BY <4>1, <4>2, <4>3
    <3>2. CASE mine /\ kind = "STOP"
      BY <1>1, <3>2
    <3>3. CASE ~(mine /\ kind = "MIT") /\ ~(mine /\ kind = "STOP")
      <4>1. target'[m] = target[m] /\ hold'[m] = hold[m] /\ ~Queued("STOP", m, 1)
        BY <1>1, <2>1, <3>3
      <4>2. StopBehind(m, 0) => StopBehind(m, 0)'
        BY <1>0, <1>4, <4>1, StopNearer
      <4>. QED
        BY <1>3, <4>1, <4>2
    <3>. QED
      BY <3>1, <3>2, <3>3
  <2>. QED
    BY <2>3, <2>4
<1>5. CASE Chan[m] # c
  <2>1. \A K, k : (Queued(K, m, k)' <=> Queued(K, m, k)) /\ tx'[Chan[m]][k] = tx[Chan[m]][k]
    BY <1>0, <1>5, DeliverQueued
  <2>2. \A n \in Nat : StopBehind(m, n) => StopBehind(m, n)'
    BY <1>0, <1>5, StopNearer
  <2>3. target'[m] = target[m] /\ hold'[m] = hold[m]
    BY <1>1, <1>5
  <2>. QED
    BY <1>3, <2>1, <2>2, <2>3 DEF PosIs
<1>. QED
  BY <1>4, <1>5

LEMMA MeasuredStep == Typed /\ AskInv /\ MeasuredInv /\ [Next]_vars => MeasuredInv'
<1>. SUFFICES ASSUME Typed, AskInv, MeasuredInv, [Next]_vars PROVE MeasuredInv'
  OBVIOUS
<1>1. CASE ProgramStep /\ Acts /\ UNCHANGED <<drive, target>>
  BY <1>1, MeasuredActs
<1>2. ASSUME NEW c \in Channels, Deliver(c) PROVE MeasuredInv'
  BY <1>2, MeasuredDeliver
<1>3. CASE Idle
  BY <1>3 DEF Idle, MeasuredInv, Live, StopBehind, Queued, PosIs
<1>. QED
  BY <1>1, <1>2, <1>3, StepKinds

(***************************************************************************)
(* An ON motor was commanded the position read for this switching on,      *)
(* whatever of the ones before was still queued when it began: its STOP    *)
(* (line 410) is between.                                                  *)
(***************************************************************************)
THEOREM OnMotorsHoldMeasured == Spec => []HoldsMeasured
<1>1. Init => AskInv /\ MeasuredInv
  <2>. SUFFICES ASSUME Init PROVE AskInv /\ MeasuredInv
    OBVIOUS
  <2>1. at = "scan" /\ \A m \in Motors : ~enabled[m]
    BY DEF Init
  <2>. QED
    BY <2>1 DEF AskInv, MeasuredInv, Live
<1>2. MeasuredInv => HoldsMeasured
  BY DEF MeasuredInv, HoldsMeasured, Live
<1>. QED
  BY <1>1, <1>2, TypedInit, TypedStep, AskStep, MeasuredStep, PTL DEF Spec
-----------------------------------------------------------------------------
(***************************************************************************)
(* What is read after Space.  While the program asks the motor it is to    *)
(* switch on, and nothing else of that motor was on its way, it is sent    *)
(* nothing but the request, and its answers say where it has been.         *)
(***************************************************************************)
Reading == asking = "on" /\ at \in {"ask", "wait"}

Clean(m) ==
  /\ pos[m] \in been
  /\ \A k \in DOMAIN tx[Chan[m]] : tx[Chan[m]][k].motor = m => tx[Chan[m]][k].kind = "READ"
  /\ \A k \in DOMAIN rx[Chan[m]] : rx[Chan[m]][k].motor = m => rx[Chan[m]][k].pos \in been

BeenInv == Reading => been = Positions \/ Clean(Chosen)

LEMMA AppendEach ==
  ASSUME NEW S, NEW s \in Seq(S), NEW e, NEW k \in DOMAIN Append(s, e)
  PROVE  (k \in DOMAIN s /\ Append(s, e)[k] = s[k]) \/ Append(s, e)[k] = e
  OBVIOUS

LEMMA TailEach ==
  ASSUME NEW S, NEW s \in Seq(S), s # <<>>, NEW k \in DOMAIN Tail(s)
  PROVE  k + 1 \in DOMAIN s /\ Tail(s)[k] = s[k + 1]
  OBVIOUS

LEMMA HistoryStep == [HNext]_hvars => [Next]_vars
  BY DEF HNext, hvars

LEMMA ReadingType ==
  ASSUME Typed, Reading
  PROVE  /\ QueueType /\ Chosen \in Motors /\ Chan[Chosen] \in Channels
         /\ tx[Chan[Chosen]] \in Seq(FrameSet) /\ rx[Chan[Chosen]] \in Seq(AnswerSet)
<1>1. Chosen \in Motors /\ QueueType
  BY ChosenType DEF Typed, Reading
<1>. QED
  BY <1>1, Constants DEF QueueType

\* The program: it asks, or takes the answer of another motor.
LEMMA BeenProgram ==
  ASSUME Typed, BeenInv, ProgramStep, Remember, Reading'
  PROVE  BeenInv'
<1>1. CASE Toggle
  <2>1. at = "key" /\ UNCHANGED <<tx, rx, pos>>
    BY <1>1 DEF Toggle, motorVars
  <2>2. been' = IF OnItsWay(Chosen') THEN Positions ELSE {pos[Chosen']}
    BY <2>1 DEF Remember, Reading
  <2>3. CASE been' = Positions
    BY <2>3 DEF BeenInv
  <2>4. CASE ~OnItsWay(Chosen') /\ been' = {pos[Chosen']}
    <3>. DEFINE m == Chosen'
    <3>1. /\ pos'[m] \in been'
          /\ \A k \in DOMAIN tx'[Chan[m]] : tx'[Chan[m]][k].motor # m
          /\ \A k \in DOMAIN rx'[Chan[m]] : rx'[Chan[m]][k].motor # m
      BY <2>1, <2>4 DEF OnItsWay
    <3>. QED
      BY <3>1 DEF BeenInv, Clean
  <2>. QED
    BY <2>2, <2>3, <2>4
<1>2. CASE ~Toggle
  <2>1. /\ at \in {"ask", "wait"} /\ UNCHANGED <<asking, found, selected, pos>>
        /\ Ask \/ WaitFrame
    <3>1. /\ at \in {"ask", "wait", "initial"} /\ UNCHANGED <<asking, found, selected, pos>>
          /\ Ask \/ WaitFrame \/ Initial
      BY <1>2 DEF Reading, ProgramStep, Refresh, Key, Scan, Initial, Ask, WaitFrame, Answered, WaitEnds,
                Failed, Throws, NoKey, Quit, Down, Up, EnableStop, EnableMode, EnablePrime, Enable,
                EnableUndo, Disable, Hold, GiveUp, HoldEnds, Poll, Drain, NextChannel, Sleep,
                StopAll, Round, Go, listVars, stateVars, motorVars
    <3>2. at # "initial"
      BY <3>1 DEF Typed, Place, AskOK, Reading
    <3>. QED
      BY <3>1, <3>2 DEF Initial
  <2>. DEFINE m == Chosen
              c == Chan[Chosen]
  <2>2. Reading /\ Chosen' = m
    BY <2>1 DEF Reading, Chosen
  <2>3. /\ QueueType /\ m \in Motors /\ c \in Channels
        /\ tx[c] \in Seq(FrameSet) /\ rx[c] \in Seq(AnswerSet)
    BY <2>2, ReadingType
  <2>4. been' = been \cup {pos'[m]} /\ pos' = pos /\ pos[m] \in Positions
    BY <2>1, <2>3 DEF Remember, Reading, QueueType
  <2>5. CASE been = Positions
    BY <2>4, <2>5 DEF BeenInv
  <2>6. CASE Clean(m)
    <3>1. been' = been /\ pos'[m] \in been'
      BY <2>4, <2>6 DEF Clean
    <3>2. \A k \in DOMAIN tx'[c] : tx'[c][k].motor = m => tx'[c][k].kind = "READ"
      <4>1. CASE UNCHANGED tx
        BY <2>6, <4>1 DEF Clean
      <4>2. CASE tx' # tx
        <5>. DEFINE f == [kind |-> "READ", motor |-> m, pos |-> Unknown]
        <5>1. tx' = [tx EXCEPT ![c] = Append(@, f)]
          BY <2>1, <4>2 DEF Ask, WaitFrame, Written, Refused
        <5>2. f.kind = "READ"
          OBVIOUS
        <5>. HIDE DEF f
        <5>3. tx'[c] = Append(tx[c], f)
          BY <2>3, <5>1 DEF QueueType
        <5>4. ASSUME NEW k \in DOMAIN tx'[c], tx'[c][k].motor = m PROVE tx'[c][k].kind = "READ"
          <6>1. (k \in DOMAIN tx[c] /\ tx'[c][k] = tx[c][k]) \/ tx'[c][k] = f
            BY <2>3, <5>3, <5>4, AppendEach
          <6>. QED
            BY <2>6, <5>2, <5>4, <6>1 DEF Clean
        <5>. QED
          BY <5>4
      <4>. QED
        BY <4>1, <4>2
    <3>3. \A k \in DOMAIN rx'[c] : rx'[c][k].motor = m => rx'[c][k].pos \in been'
      <4>1. CASE UNCHANGED rx
        BY <2>6, <3>1, <4>1 DEF Clean
      <4>2. CASE rx' # rx
        <5>1. rx' = [rx EXCEPT ![c] = Tail(@)] /\ rx[c] # <<>>
          BY <2>1, <4>2 DEF Ask, WaitFrame
        <5>2. rx'[c] = Tail(rx[c])
          BY <2>3, <5>1 DEF QueueType
        <5>3. ASSUME NEW k \in DOMAIN rx'[c], rx'[c][k].motor = m PROVE rx'[c][k].pos \in been'
          <6>1. k + 1 \in DOMAIN rx[c] /\ rx'[c][k] = rx[c][k + 1]
            BY <2>3, <5>1, <5>2, <5>3, TailEach
          <6>. QED
            BY <2>6, <3>1, <5>3, <6>1 DEF Clean
        <5>. QED
          BY <5>3
      <4>. QED
        BY <4>1, <4>2
    <3>. QED
      BY <2>2, <3>1, <3>2, <3>3 DEF BeenInv, Clean
  <2>. QED
    BY <2>2, <2>5, <2>6 DEF BeenInv
<1>. QED
  BY <1>1, <1>2

\* A frame of the bus: a request, if it is for that motor.
LEMMA BeenDeliver ==
  ASSUME Typed, BeenInv, NEW c \in Channels, Deliver(c), Remember, Reading'
  PROVE  BeenInv'
<1>. DEFINE m == Chosen
            d == Chan[Chosen]
            f == Head(tx[c])
<1>1. /\ UNCHANGED <<at, i, asking, found, selected>> /\ Reading /\ Chosen' = m
      /\ tx[c] # <<>> /\ tx' = [tx EXCEPT ![c] = Tail(@)] /\ Execute(f)
  BY DEF Deliver, Reading, Chosen, placeVars, listVars
<1>2. /\ QueueType /\ m \in Motors /\ d \in Channels
      /\ tx[d] \in Seq(FrameSet) /\ rx[d] \in Seq(AnswerSet)
  BY <1>1, ReadingType
<1>3. QueueType' /\ pos' \in [Motors -> Positions]
  BY <1>2, DeliverType DEF QueueType
<1>4. been' = been \cup {pos'[m]} /\ pos'[m] \in Positions
  BY <1>1, <1>2, <1>3 DEF Remember, Reading
<1>5. CASE been = Positions
  BY <1>4, <1>5 DEF BeenInv
<1>6. CASE Clean(m)
  <2>1. f \in FrameSet /\ f = tx[c][1] /\ 1 \in DOMAIN tx[c]
    BY <1>1, <1>2, HeadFrame
  <2>2. rx' = rx \/ \E p \in Reported(f, pos'[f.motor]) :
                     rx' = [rx EXCEPT ![c] = Append(@, [motor |-> f.motor, pos |-> p])]
    BY DEF Deliver
  <2>. HIDE DEF f
  <2>3. \A k \in DOMAIN tx'[d] : tx'[d][k].motor = m => tx'[d][k].kind = "READ"
    <3>1. CASE c # d
      BY <1>1, <1>2, <1>6, <3>1 DEF Clean, QueueType
    <3>2. CASE c = d
      <4>1. tx'[d] = Tail(tx[d]) /\ tx[d] # <<>>
        BY <1>1, <1>2, <3>2 DEF QueueType
      <4>2. ASSUME NEW k \in DOMAIN tx'[d], tx'[d][k].motor = m PROVE tx'[d][k].kind = "READ"
        <5>1. k + 1 \in DOMAIN tx[d] /\ tx'[d][k] = tx[d][k + 1]
          BY <1>2, <4>1, <4>2, TailEach
        <5>. QED
          BY <1>6, <4>2, <5>1 DEF Clean
      <4>. QED
        BY <4>2
    <3>. QED
      BY <3>1, <3>2
  <2>4. \A k \in DOMAIN rx'[d] : rx'[d][k].motor = m => rx'[d][k].pos \in been'
    <3>1. CASE UNCHANGED rx \/ c # d
      <4>1. rx'[d] = rx[d]
        BY <1>2, <2>2, <3>1 DEF QueueType
      <4>. QED
        BY <1>4, <1>6, <4>1 DEF Clean
    <3>2. ASSUME c = d, NEW p \in Reported(f, pos'[f.motor]),
                 rx' = [rx EXCEPT ![c] = Append(@, [motor |-> f.motor, pos |-> p])]
          PROVE  \A k \in DOMAIN rx'[d] : rx'[d][k].motor = m => rx'[d][k].pos \in been'
      <4>. DEFINE a == [motor |-> f.motor, pos |-> p]
      <4>1. f.motor = m => p \in been'
        <5>1. f.motor = m => f.kind = "READ"
          BY <1>6, <2>1, <3>2 DEF Clean
        <5>2. f.kind = "READ" => p = pos'[f.motor]
          BY <3>2 DEF Reported
        <5>. QED
          BY <1>4, <5>1, <5>2
      <4>2. a.motor = f.motor /\ a.pos = p /\ rx' = [rx EXCEPT ![c] = Append(@, a)]
        BY <3>2
      <4>. HIDE DEF a
      <4>3. rx'[d] = Append(rx[d], a)
        BY <1>2, <3>2, <4>2 DEF QueueType
      <4>4. ASSUME NEW k \in DOMAIN rx'[d], rx'[d][k].motor = m PROVE rx'[d][k].pos \in been'
        <5>1. (k \in DOMAIN rx[d] /\ rx'[d][k] = rx[d][k]) \/ rx'[d][k] = a
          BY <1>2, <4>3, <4>4, AppendEach
        <5>. QED
          BY <1>4, <1>6, <4>1, <4>2, <4>4, <5>1 DEF Clean
      <4>. QED
        BY <4>4
    <3>. QED
      BY <2>2, <3>1, <3>2
  <2>. QED
    BY <1>1, <1>4, <2>3, <2>4 DEF BeenInv, Clean
<1>. QED
  BY <1>1, <1>5, <1>6 DEF BeenInv

LEMMA BeenStep == Typed /\ BeenInv /\ [HNext]_hvars => BeenInv'
<1>. SUFFICES ASSUME Typed, BeenInv, [HNext]_hvars, Reading' PROVE BeenInv'
  BY DEF BeenInv
<1>1. CASE ProgramStep /\ Remember
  BY <1>1, BeenProgram
<1>2. ASSUME NEW c \in Channels, Deliver(c), Remember PROVE BeenInv'
  BY <1>2, BeenDeliver
<1>3. CASE UNCHANGED hvars
  BY <1>3 DEF hvars, vars, placeVars, listVars, motorVars, BeenInv, Reading, Clean, Chosen
<1>4. ASSUME Remember, Signal \/ \E m \in Motors, p \in Positions : Turn(m, p)
      PROVE  BeenInv'
  <2>1. UNCHANGED <<at, i, asking, found, selected, tx, rx>> /\ Reading /\ Chosen' = Chosen
    BY <1>4 DEF Signal, Turn, Reading, Chosen, placeVars, listVars
  <2>2. QueueType /\ QueueType' /\ Chosen \in Motors
    BY <1>4, <2>1, ReadingType, QueueStep DEF Typed, Next, OutsideStep
  <2>3. been' = been \cup {pos'[Chosen]} /\ pos'[Chosen] \in Positions
    BY <1>4, <2>1, <2>2 DEF Remember, Reading, QueueType
  <2>4. CASE been = Positions
    BY <2>3, <2>4 DEF BeenInv
  <2>5. CASE Clean(Chosen)
    BY <2>1, <2>3, <2>5 DEF BeenInv, Clean
  <2>. QED
    BY <2>1, <2>4, <2>5 DEF BeenInv
<1>. QED
  BY <1>1, <1>2, <1>3, <1>4 DEF HNext, Next, OutsideStep

LEMMA HoldsReadStep ==
  ASSUME Typed, BeenInv, [HNext]_hvars, at = "wait", at' = "stop"
  PROVE  hold'[Chosen] \in been \cap MitRange
<1>1. /\ WaitFrame /\ asking = "on"
      /\ Head(rx[Chan[Chosen]]).motor = Chosen
      /\ Head(rx[Chan[Chosen]]).pos \in MitRange
      /\ hold' = [hold EXCEPT ![Chosen] = Head(rx[Chan[Chosen]]).pos]
  <2>1. WaitFrame
    BY DEF HNext, hvars, vars, placeVars, Next, OutsideStep, Signal, Deliver, Turn, ProgramStep, Refresh,
           Key, Scan, Initial, Ask, WaitEnds, Failed, Throws, NoKey, Quit, Down, Up, Toggle,
           EnableStop, EnableMode, EnablePrime, Enable, EnableUndo, Disable, Hold, GiveUp,
           HoldEnds, Poll, Drain, NextChannel, Sleep, StopAll, Round, Go
  <2>2. asking \in {"initial", "on"}
    BY DEF Typed, Place, AskOK
  <2>. QED
    BY <2>1, <2>2 DEF WaitFrame, Answered, Go
<1>. DEFINE m == Chosen
            d == Chan[Chosen]
<1>2. /\ QueueType /\ m \in Motors /\ d \in Channels /\ rx[d] \in Seq(AnswerSet)
      /\ rx[d] # <<>> /\ Reading /\ hold \in [Motors -> MitRange \cup {Unknown}]
  BY <1>1, ReadingType DEF Reading, WaitFrame, Typed, ListType
<1>3. 1 \in DOMAIN rx[d] /\ Head(rx[d]) = rx[d][1] /\ Head(rx[d]).pos \in Positions
  <2>1. Head(rx[d]) \in AnswerSet
    BY <1>2, HeadAnswer
  <2>. QED
    BY <1>2, <2>1 DEF AnswerSet
<1>4. Head(rx[d]).pos \in been
  BY <1>1, <1>2, <1>3 DEF BeenInv, Clean
<1>. QED
  BY <1>1, <1>2, <1>4

(***************************************************************************)
(* A motor is held where it has been since Space, within the MIT range, if *)
(* nothing of it was on its way then: for any motors and queues, however   *)
(* it is turned, and whatever answers of others come in between.           *)
(***************************************************************************)
THEOREM HeldWhereRead == HSpec => HoldsRead
<1>1. HInit => Init /\ BeenInv
  BY DEF HInit, Init, BeenInv, Reading
<1>2. Typed /\ BeenInv /\ [HNext]_hvars
        => [(at = "wait" /\ at' = "stop") => hold'[Chosen] \in been \cap MitRange]_hvars
  BY HoldsReadStep
<1>. QED
  BY <1>1, <1>2, TypedInit, TypedStep, HistoryStep, BeenStep, PTL DEF HSpec, HoldsRead
=============================================================================
