-------------------------- MODULE TimingWheelProofs --------------------------
(***************************************************************************)
(* Proofs about the wheel, for a wheel of any size, any set of sessions    *)
(* and a loop that is late by any amount: first about its structure, then  *)
(* about the time at which it stops a session.                             *)
(***************************************************************************)
EXTENDS TimingWheel, TLAPS

IInv == TypeOK /\ OneSlot

\* Whatever is added to an index, the result is a slot of the wheel.
LEMMA WrapIsSlot == \A n \in Int : Wrap(n) \in Slots
BY SizeAssumption DEF Wrap, Slots

LEMMA SlotIsNat == Slots \subseteq Nat /\ -1 \notin Slots /\ 0 \in Slots
BY SizeAssumption DEF Slots

\* A session put again by ResetTimingWheel is put in a slot.
LEMMA SlotAgainIsSlot ==
  ASSUME TypeOK, NEW s \in Sessions, NEW at \in Slots
  PROVE  SlotAgain(s, at) \in Slots
<1>1. at + (Size - (now_sec - last_read_time[s])) \in Int
  BY SizeAssumption, SlotIsNat DEF TypeOK
<1> QED
  BY <1>1, WrapIsSlot DEF SlotAgain

LEMMA InitInvariant == Init => IInv
BY ClockAssumption, SlotIsNat DEF Init, IInv, TypeOK, OneSlot

\* The actions that leave the wheel and its sessions alone.
LEMMA TimeStep ==
  ASSUME IInv,
         \/ Tick \/ Expire \/ NewRound \/ TimerRead
         \/ \E s \in Sessions : HandleRead(s) \/ PartialRead(s)
         \/ UNCHANGED vars
  PROVE  IInv'
<1>1. TypeOK'
  <2> USE DEF IInv, TypeOK, time, loop, session, history
  <2>1. CASE Tick
    <3>1. clock' \in Nat /\ expired' = FALSE
      BY <2>1 DEF Tick
    <3> QED
      BY <2>1, <3>1 DEF Tick
  <2>2. CASE Expire
    BY <2>2 DEF Expire
  <2>3. CASE NewRound \/ TimerRead
    BY <2>3 DEF NewRound, TimerRead
  <2>4. ASSUME NEW s \in Sessions, HandleRead(s) \/ PartialRead(s) PROVE TypeOK'
    BY <2>4 DEF HandleRead, PartialRead
  <2>5. CASE UNCHANGED vars
    BY <2>5 DEF vars
  <2> QED
    BY <2>1, <2>2, <2>3, <2>4, <2>5
<1>2. UNCHANGED <<datas, timing_wheel_index, handlers, destroyed>>
  BY DEF Tick, Expire, NewRound, TimerRead, HandleRead, PartialRead,
         vars, time, loop, session, history
<1> QED
  BY <1>1, <1>2 DEF IInv, OneSlot

LEMMA RegisterStep ==
  ASSUME IInv, NEW s \in Sessions, Register(s)
  PROVE  IInv'
<1> DEFINE slot == Wrap(idx + Size)
<1>1. slot \in Slots
  <2>1. idx + Size \in Int
    BY SizeAssumption, SlotIsNat DEF IInv, TypeOK
  <2> QED
    BY <2>1, WrapIsSlot
<1>2. /\ handlers' = handlers \cup {s}
      /\ timing_wheel_index' = [timing_wheel_index EXCEPT ![s] = slot]
      /\ datas' = [datas EXCEPT ![slot] = @ \cup {s}]
      /\ destroyed' = destroyed /\ s \notin handlers /\ s \notin destroyed
  BY DEF Register
<1>3. TypeOK'
  BY <1>1 DEF IInv, TypeOK, Register, time, loop
<1>4. timing_wheel_index[s] = -1 /\ \A i \in Slots : s \notin datas[i]
  BY <1>2, SlotIsNat DEF IInv, OneSlot
<1> HIDE DEF slot
<1>5. OneSlot'
  <2>1. ASSUME NEW t \in Sessions \ destroyed, NEW i \in Slots
        PROVE  t \in datas'[i] <=> timing_wheel_index'[t] = i
    BY <1>1, <1>2, <1>4 DEF IInv, TypeOK, OneSlot
  <2>2. ASSUME NEW t \in Sessions \ destroyed
        PROVE  t \in handlers' <=> timing_wheel_index'[t] # -1
    BY <1>1, <1>2, SlotIsNat DEF IInv, TypeOK, OneSlot
  <2> QED
    BY <1>2, <2>1, <2>2 DEF OneSlot
<1> QED
  BY <1>3, <1>5 DEF IInv

\* RemoveTimingWheel looks in the one slot that the session can be in.
LEMMA RemoveStep ==
  ASSUME IInv, NEW s \in Sessions, Remove(s)
  PROVE  IInv'
<1> DEFINE slot == timing_wheel_index[s]
<1>1. slot \in Slots /\ s \notin destroyed
  BY DEF Remove, Alive, IInv, TypeOK, OneSlot
<1>2. /\ handlers' = handlers \ {s}
      /\ timing_wheel_index' = [timing_wheel_index EXCEPT ![s] = -1]
      /\ datas' = [datas EXCEPT ![slot] = @ \ {s}]
      /\ destroyed' = destroyed
  BY DEF Remove
<1>3. TypeOK'
  BY <1>1 DEF IInv, TypeOK, Remove, time, loop, history
<1>4. OneSlot'
  <2>1. ASSUME NEW t \in Sessions \ destroyed, NEW i \in Slots
        PROVE  t \in datas'[i] <=> timing_wheel_index'[t] = i
    BY <1>1, <1>2, SlotIsNat DEF IInv, TypeOK, OneSlot
  <2>2. ASSUME NEW t \in Sessions \ destroyed
        PROVE  t \in handlers' <=> timing_wheel_index'[t] # -1
    BY <1>2 DEF IInv, TypeOK, OneSlot
  <2> QED
    BY <1>2, <2>1, <2>2 DEF OneSlot
<1> QED
  BY <1>3, <1>4 DEF IInv

LEMMA DestroyStep ==
  ASSUME IInv, NEW s \in Sessions, Destroy(s)
  PROVE  IInv'
<1>1. TypeOK'
  BY DEF IInv, TypeOK, Destroy, time, loop
<1>2. OneSlot'
  BY DEF IInv, OneSlot, Destroy
<1> QED
  BY <1>1, <1>2 DEF IInv

(***************************************************************************)
(* A turn of the wheel: the slot it comes to is emptied, and the sessions  *)
(* that stay are in the slot their index is set to and in no other.        *)
(***************************************************************************)
LEMMA CheckSlotStep == IInv /\ CheckSlot => IInv'
<1> SUFFICES ASSUME IInv, CheckSlot PROVE IInv'
  OBVIOUS
<1> DEFINE next  == IF idx + 1 = Size THEN 0 ELSE idx + 1
           stale == {s \in datas[next] : ~Alive(s)}
           late  == {s \in datas[next] \ stale : TimedOut(s)}
           fresh == datas[next] \ (stale \cup late)
<1>1. next \in Slots
  BY SizeAssumption DEF IInv, TypeOK, Slots
<1>2. fresh \subseteq Sessions /\ late \subseteq Sessions
  BY <1>1 DEF IInv, TypeOK
<1>3. \A s \in fresh : SlotAgain(s, next) \in Slots
  BY <1>1, <1>2, SlotAgainIsSlot DEF IInv
<1>4. /\ due' = due - 1 /\ due > 0 /\ idx' = next
      /\ datas' = [i \in Slots |-> {s \in datas[i] : i # next} \cup
                                   {s \in fresh : SlotAgain(s, next) = i}]
      /\ timing_wheel_index' = [s \in Sessions |->
           IF s \in fresh THEN SlotAgain(s, next)
           ELSE IF s \in late THEN -1 ELSE timing_wheel_index[s]]
      /\ handlers' = handlers \ late
      /\ UNCHANGED <<time, count, now_sec, last_read_time, destroyed, history>>
  BY DEF CheckSlot
<1>5. /\ \A s \in datas[next] \ destroyed : s \in fresh \/ s \in late
      /\ \A s \in fresh \cup late : s \in datas[next] /\ s \notin destroyed /\ s \in handlers
      /\ fresh \cap late = {}
  <2>1. \A s \in datas[next] \ destroyed : s \in handlers
    BY <1>1, SlotIsNat DEF IInv, TypeOK, OneSlot
  <2> QED
    BY <2>1 DEF Alive
<1> HIDE DEF next, stale, late, fresh
<1>6. TypeOK'
  <2>1. datas' \in [Slots -> SUBSET Sessions]
    BY <1>2, <1>4 DEF IInv, TypeOK
  <2>2. timing_wheel_index' \in [Sessions -> Slots \cup {-1}]
    BY <1>3, <1>4 DEF IInv, TypeOK
  <2>3. due' \in Nat
    BY <1>4 DEF IInv, TypeOK
  <2> QED
    BY <1>1, <1>4, <2>1, <2>2, <2>3 DEF IInv, TypeOK, time, history
<1>7. OneSlot'
  <2>1. ASSUME NEW t \in Sessions \ destroyed, NEW i \in Slots
        PROVE  t \in datas'[i] <=> timing_wheel_index'[t] = i
    <3>1. t \in datas'[i] <=>
            \/ t \in datas[i] /\ i # next
            \/ t \in fresh /\ SlotAgain(t, next) = i
      BY <1>4
    <3>2. t \in datas[i] <=> timing_wheel_index[t] = i
      BY DEF IInv, OneSlot
    <3>3. t \in datas[next] <=> timing_wheel_index[t] = next
      BY <1>1 DEF IInv, OneSlot
    <3>4. CASE t \in fresh
      BY <1>4, <1>5, <3>1, <3>2, <3>3, <3>4
    <3>5. CASE t \in late
      BY <1>4, <1>5, <3>1, <3>2, <3>3, <3>5, SlotIsNat
    <3>6. CASE t \notin fresh /\ t \notin late
      BY <1>4, <1>5, <3>1, <3>2, <3>3, <3>6
    <3> QED
      BY <3>4, <3>5, <3>6
  <2>2. ASSUME NEW t \in Sessions \ destroyed
        PROVE  t \in handlers' <=> timing_wheel_index'[t] # -1
    <3>1. t \in handlers <=> timing_wheel_index[t] # -1
      BY DEF IInv, OneSlot
    <3>2. CASE t \in fresh
      BY <1>3, <1>4, <1>5, <3>2, SlotIsNat
    <3>3. CASE t \notin fresh
      BY <1>4, <3>1, <3>3
    <3> QED
      BY <3>2, <3>3
  <2> QED
    BY <1>4, <2>1, <2>2 DEF OneSlot
<1> QED
  BY <1>6, <1>7 DEF IInv

\* The inductive invariant holds throughout.
THEOREM Invariant == Spec => []IInv
<1>1. IInv /\ [Next]_vars => IInv'
  BY TimeStep, RegisterStep, RemoveStep, DestroyStep, CheckSlotStep DEF Next
<1> QED
  BY <1>1, InitInvariant, PTL DEF Spec

\* Types; among them, that every index is a slot of the wheel.
THEOREM TypeCorrect == Spec => []TypeOK
<1>1. IInv => TypeOK
  BY DEF IInv
<1> QED
  BY <1>1, Invariant, PTL

\* A registered session is in one slot, the one its index names (Register,
\* RemoveTimingWheel, CheckOvertime).
THEOREM SessionsHaveOneSlot == Spec => []OneSlot
<1>1. IInv => OneSlot
  BY DEF IInv
<1> QED
  BY <1>1, Invariant, PTL

-----------------------------------------------------------------------------

(***************************************************************************)
(* The turns the wheel has made since it was built: the timerfd expires    *)
(* once in every second, and what it counted is read and turned later.     *)
(***************************************************************************)
Turns == clock - Start + (IF expired THEN 1 ELSE 0) - count - due

\* How many turns it takes from the slot at to the slot i.
Ahead(i, at) == IF i > at THEN i - at ELSE i - at + Size

\* How far the loop is behind the clock and behind the timer.
Lags ==
  /\ now_sec <= clock /\ clock - now_sec <= MaxLag
  /\ count + due <= MaxLag

\* What a session remembers of its last read is not newer than the read.
ReadTimes ==
  \A s \in Sessions : last_read_time[s] <= now_sec /\ last_read_time[s] <= active[s]

\* An id does not wait too long for the turn that comes to its slot.
LateBound ==
  \A i \in Slots : \A s \in datas[i] :
    Turns + Ahead(i, idx) <= active[s] - Start + Size + MaxLag + 1

\* A session has read since it registered, or that turn does not come too soon.
EarlyBound ==
  \A s \in handlers \ destroyed :
    \/ active[s] <= last_read_time[s] + MaxLag
    \/ Turns + Ahead(timing_wheel_index[s], idx) >= active[s] - Start + Size - MaxLag

Timing == Lags /\ ReadTimes /\ LateBound /\ EarlyBound

LEMMA Remainder ==
  ASSUME NEW n \in Nat, NEW m \in Nat \ {0}, n < m + m
  PROVE  n % m = IF n < m THEN n ELSE n - m
<1>1. /\ n = (m * (n \div m)) + (n % m)
      /\ n \div m \in Int /\ n % m \in 0..(m - 1)
  OBVIOUS
<1> DEFINE q == n \div m
<1>2. q >= 0 /\ q < 2
  <2> HIDE DEF q
  <2>1. n = (m * q) + (n % m) /\ q \in Int /\ n % m \in 0..(m - 1)
    BY <1>1 DEF q
  <2>2. ASSUME q >= 2 PROVE FALSE
    <3>1. PICK d \in Nat : q = d + 2
      BY <2>1, <2>2
    <3>2. m * d \in Nat /\ m * q = (m * d) + m + m
      BY <3>1
    <3> QED
      BY <2>1, <3>2
  <2>3. ASSUME q < 0 PROVE FALSE
    <3>1. PICK d \in Nat : q = -1 - d
      BY <2>1, <2>3
    <3>2. m * d \in Nat /\ m * q = -(m * d) - m
      BY <3>1
    <3> QED
      BY <2>1, <3>2
  <2> QED
    BY <2>1, <2>2, <2>3
<1>3. q = 0 \/ q = 1
  BY <1>1, <1>2
<1> QED
  BY <1>1, <1>3

\* A slot other than the one the wheel is at is less than a round ahead.
LEMMA AheadRange ==
  ASSUME NEW i \in Slots, NEW at \in Slots
  PROVE  Ahead(i, at) \in 1..Size
BY SizeAssumption DEF Ahead, Slots

\* A turn brings every slot nearer, but for the one it comes to.
LEMMA AheadTurns ==
  ASSUME NEW i \in Slots, NEW at \in Slots, NEW next,
         next = IF at + 1 = Size THEN 0 ELSE at + 1
  PROVE  /\ next \in Slots
         /\ Ahead(next, at) = 1
         /\ i # next => Ahead(i, next) = Ahead(i, at) - 1
BY SizeAssumption DEF Ahead, Slots

\* `(at + k) & (size_ - 1)` is k turns ahead of the slot at.
LEMMA WrapIsAhead ==
  ASSUME NEW at \in Slots, NEW k \in 1..Size
  PROVE  Wrap(at + k) \in Slots /\ Ahead(Wrap(at + k), at) = k
<1>1. /\ at + k \in Nat /\ Size \in Nat \ {0} /\ at \in 0..(Size - 1)
      /\ at + k < Size + Size
  BY SizeAssumption DEF Slots
<1>2. Wrap(at + k) = IF at + k < Size THEN at + k ELSE at + k - Size
  <2>1. PICK n \in Nat : n = at + k
    BY <1>1
  <2>2. n % Size = IF n < Size THEN n ELSE n - Size
    BY <1>1, <2>1, Remainder
  <2>3. Wrap(n) = IF n < Size THEN n ELSE n - Size
    BY <2>2 DEF Wrap
  <2>4. Wrap(at + k) = Wrap(n)
    BY <2>1, Zenon
  <2> QED
    BY <1>1, <2>1, <2>3, <2>4
<1> QED
  BY <1>1, <1>2 DEF Ahead, Slots

\* The wheel is behind the clock by what was not read and turned yet.
LEMMA TurnsFollowClock ==
  ASSUME TypeOK
  PROVE  /\ Turns \in Int
         /\ Turns >= clock - Start - count - due
         /\ Turns <= clock - Start + 1 - count - due
BY ClockAssumption DEF Turns, TypeOK

LEMMA InitTiming == Init => Timing
BY ClockAssumption DEF Init, Timing, Lags, ReadTimes, LateBound, EarlyBound

\* Time passes, expirations are counted and read: the wheel has still to make
\* the turns it had to make.
LEMMA ClockTiming ==
  ASSUME IInv, Timing, Tick \/ Expire \/ NewRound \/ TimerRead \/ UNCHANGED vars
  PROVE  Timing'
<1> USE DEF IInv, TypeOK, time, loop, session, history
<1>1. UNCHANGED <<idx, session, history>>
  BY DEF Tick, Expire, NewRound, TimerRead, vars
<1>2. Turns' = Turns /\ Lags' /\ now_sec' >= now_sec /\ now_sec' \in Nat
  <2> USE DEF Turns, Timing, Lags
  <2>1. CASE Tick
    BY <2>1, ClockAssumption DEF Tick
  <2>2. CASE Expire
    BY <2>2, ClockAssumption DEF Expire
  <2>3. CASE NewRound
    BY <2>3, ClockAssumption DEF NewRound
  <2>4. CASE TimerRead
    BY <2>4, ClockAssumption DEF TimerRead
  <2>5. CASE UNCHANGED vars
    BY <2>5 DEF vars
  <2> QED
    BY <2>1, <2>2, <2>3, <2>4, <2>5
<1>3. ReadTimes'
  BY <1>1, <1>2 DEF Timing, ReadTimes
<1>4. LateBound' /\ EarlyBound'
  BY <1>1, <1>2 DEF Timing, LateBound, EarlyBound, Ahead
<1> QED
  BY <1>2, <1>3, <1>4 DEF Timing

\* A session that registers is put a whole round ahead.
LEMMA RegisterTiming ==
  ASSUME IInv, Timing, NEW s \in Sessions, Register(s)
  PROVE  Timing'
<1> DEFINE slot == Wrap(idx + Size)
<1>1. /\ idx \in Slots /\ slot \in Slots /\ Ahead(slot, idx) = Size
      /\ clock \in Nat /\ Start \in Nat /\ MaxLag \in Nat /\ Size \in Nat \ {0}
  BY WrapIsAhead, SizeAssumption, ClockAssumption DEF IInv, TypeOK
<1>2. /\ handlers' = handlers \cup {s} /\ s \notin handlers /\ s \notin destroyed
      /\ timing_wheel_index' = [timing_wheel_index EXCEPT ![s] = slot]
      /\ datas' = [datas EXCEPT ![slot] = @ \cup {s}]
      /\ active' = [active EXCEPT ![s] = clock]
      /\ UNCHANGED <<time, count, loop, last_read_time, destroyed>>
      /\ due = 0
  BY DEF Register
<1> HIDE DEF slot
<1>3. /\ Turns' = Turns /\ idx' = idx /\ Lags'
      /\ clock - Start - MaxLag <= Turns /\ Turns <= clock - Start + 1 /\ Turns \in Int
  <2>1. Turns' = Turns /\ idx' = idx /\ Lags'
    BY <1>2 DEF Turns, Timing, Lags, time, loop
  <2>2. count \in Nat /\ due \in Nat /\ count + due <= MaxLag
    BY DEF IInv, TypeOK, Timing, Lags
  <2> QED
    BY <1>1, <2>1, <2>2, TurnsFollowClock DEF IInv
<1>4. /\ active'[s] = clock
      /\ \A t \in Sessions : t # s =>
           active'[t] = active[t] /\ timing_wheel_index'[t] = timing_wheel_index[t]
      /\ timing_wheel_index'[s] = slot
  BY <1>2 DEF IInv, TypeOK
<1>5. ReadTimes'
  <2>1. ASSUME NEW t \in Sessions
        PROVE  last_read_time'[t] <= now_sec' /\ last_read_time'[t] <= active'[t]
    <3>1. /\ last_read_time'[t] = last_read_time[t] /\ now_sec' = now_sec
          /\ last_read_time[t] \in Nat /\ now_sec \in Nat /\ now_sec <= clock
      BY <1>2 DEF IInv, TypeOK, loop, Timing, Lags
    <3>2. last_read_time[t] <= now_sec /\ last_read_time[t] <= active[t]
      BY DEF Timing, ReadTimes
    <3> QED
      BY <1>1, <1>4, <3>1, <3>2
  <2> QED
    BY <2>1 DEF ReadTimes
<1>6. LateBound'
  <2>1. ASSUME NEW i \in Slots, NEW t \in datas'[i]
        PROVE  Turns' + Ahead(i, idx') <= active'[t] - Start + Size + MaxLag + 1
    <3>1. CASE t = s
      <4>1. Ahead(i, idx) \in 1..Size
        BY <1>1, AheadRange
      <4> QED
        BY <1>1, <1>3, <1>4, <3>1, <4>1
    <3>2. CASE t # s
      <4>1. t \in datas[i] /\ t \in Sessions
        BY <1>2, <3>2 DEF IInv, TypeOK
      <4> QED
        BY <1>3, <1>4, <3>2, <4>1 DEF Timing, LateBound
    <3> QED
      BY <3>1, <3>2
  <2> QED
    BY <2>1 DEF LateBound
<1>7. EarlyBound'
  <2>1. ASSUME NEW t \in handlers' \ destroyed'
        PROVE  \/ active'[t] <= last_read_time'[t] + MaxLag
               \/ Turns' + Ahead(timing_wheel_index'[t], idx')
                    >= active'[t] - Start + Size - MaxLag
    <3>1. CASE t = s
      BY <1>1, <1>3, <1>4, <3>1
    <3>2. CASE t # s
      <4>1. t \in handlers \ destroyed /\ t \in Sessions
        BY <1>2, <3>2 DEF IInv, TypeOK
      <4> QED
        BY <1>2, <1>3, <1>4, <3>2, <4>1 DEF Timing, EarlyBound
    <3> QED
      BY <3>1, <3>2
  <2> QED
    BY <2>1 DEF EarlyBound
<1> QED
  BY <1>3, <1>5, <1>6, <1>7 DEF Timing

\* A session that is removed or dropped, or that reads: what the wheel does is
\* left alone, and activity only puts off the time at which it is late.
LEMMA SessionTiming ==
  ASSUME IInv, Timing, NEW s \in Sessions,
         Remove(s) \/ Destroy(s) \/ HandleRead(s) \/ PartialRead(s)
  PROVE  Timing'
<1>1. /\ UNCHANGED <<time, count, loop>>
      /\ \A i \in Slots : datas'[i] \subseteq datas[i]
      /\ handlers' \subseteq handlers /\ destroyed \subseteq destroyed'
      /\ \A t \in Sessions : t # s => UNCHANGED <<active[t], last_read_time[t],
                                                timing_wheel_index[t]>>
      /\ active'[s] \in {active[s], clock}
  BY DEF Remove, Destroy, HandleRead, PartialRead, IInv, TypeOK, session, history
<1>2. /\ clock \in Nat /\ Start \in Nat /\ MaxLag \in Nat /\ Size \in Nat \ {0}
      /\ now_sec \in Nat /\ now_sec <= clock /\ clock <= now_sec + MaxLag
      /\ active \in [Sessions -> Nat] /\ last_read_time \in [Sessions -> Nat]
      /\ idx \in Slots
  BY SizeAssumption, ClockAssumption DEF IInv, TypeOK, Timing, Lags
<1>3. /\ Turns' = Turns /\ idx' = idx /\ now_sec' = now_sec /\ Lags'
      /\ Turns \in Int /\ Turns <= clock - Start + 1
  <2>1. Turns' = Turns /\ idx' = idx /\ now_sec' = now_sec /\ Lags'
    BY <1>1 DEF Turns, Timing, Lags, time, loop
  <2>2. count \in Nat /\ due \in Nat
    BY DEF IInv, TypeOK
  <2> QED
    BY <1>2, <2>1, <2>2, TurnsFollowClock DEF IInv
<1>4. LateBound'
  <2>1. ASSUME NEW i \in Slots, NEW t \in datas'[i]
        PROVE  Turns' + Ahead(i, idx') <= active'[t] - Start + Size + MaxLag + 1
    <3>1. t \in datas[i] /\ t \in Sessions
      BY <1>1 DEF IInv, TypeOK
    <3>2. CASE active'[t] = active[t]
      BY <1>3, <3>1, <3>2 DEF Timing, LateBound
    <3>3. CASE active'[t] = clock
      <4>1. Ahead(i, idx) \in 1..Size
        BY <1>2, AheadRange
      <4> QED
        BY <1>2, <1>3, <3>3, <4>1
    <3> QED
      BY <1>1, <3>1, <3>2, <3>3
  <2> QED
    BY <2>1 DEF LateBound
<1>5. CASE HandleRead(s)
  <2>1. /\ active'[s] = clock /\ last_read_time'[s] = now_sec
        /\ UNCHANGED <<handlers, destroyed, timing_wheel_index>>
    BY <1>2, <1>5 DEF HandleRead
  <2>2. ReadTimes'
    BY <1>1, <1>2, <1>3, <2>1 DEF Timing, ReadTimes
  <2>3. EarlyBound'
    <3>1. ASSUME NEW t \in handlers \ destroyed
          PROVE  \/ active'[t] <= last_read_time'[t] + MaxLag
                 \/ Turns' + Ahead(timing_wheel_index'[t], idx')
                      >= active'[t] - Start + Size - MaxLag
      <4>1. t \in Sessions
        BY DEF IInv, TypeOK
      <4>2. CASE t = s
        BY <1>2, <2>1, <4>2
      <4>3. CASE t # s
        BY <1>1, <1>3, <4>1, <4>3 DEF Timing, EarlyBound
      <4> QED
        BY <4>2, <4>3
    <3> QED
      BY <2>1, <3>1 DEF EarlyBound
  <2> QED
    BY <1>3, <1>4, <2>2, <2>3 DEF Timing
<1>6. CASE Remove(s) \/ Destroy(s) \/ PartialRead(s)
  <2>1. last_read_time' = last_read_time
    BY <1>6 DEF Remove, Destroy, PartialRead, session
  <2>2. ReadTimes'
    <3>1. ASSUME NEW t \in Sessions
          PROVE  last_read_time'[t] <= now_sec' /\ last_read_time'[t] <= active'[t]
      <4>1. /\ last_read_time[t] <= now_sec /\ last_read_time[t] <= active[t]
            /\ last_read_time[t] \in Nat
        BY <1>2 DEF Timing, ReadTimes
      <4>2. active'[t] = active[t] \/ active'[t] = clock
        BY <1>1
      <4> QED
        BY <1>2, <1>3, <2>1, <4>1, <4>2
    <3> QED
      BY <3>1 DEF ReadTimes
  <2>3. EarlyBound'
    <3>1. ASSUME NEW t \in handlers' \ destroyed'
          PROVE  \/ active'[t] <= last_read_time'[t] + MaxLag
                 \/ Turns' + Ahead(timing_wheel_index'[t], idx')
                      >= active'[t] - Start + Size - MaxLag
      <4>1. t \in handlers \ destroyed /\ t \in Sessions
        BY <1>1 DEF IInv, TypeOK
      <4>2. UNCHANGED <<active[t], timing_wheel_index[t]>>
        <5>1. CASE t # s
          BY <1>1, <4>1, <5>1
        <5>2. CASE t = s
          <6>1. PartialRead(s)
            BY <1>6, <3>1, <5>2 DEF Remove, Destroy
          <6> QED
            BY <5>2, <6>1 DEF PartialRead, session
        <5> QED
          BY <5>1, <5>2
      <4> QED
        BY <1>3, <2>1, <4>1, <4>2 DEF Timing, EarlyBound
    <3> QED
      BY <3>1 DEF EarlyBound
  <2> QED
    BY <1>3, <1>4, <2>2, <2>3 DEF Timing
<1> QED
  BY <1>5, <1>6

(***************************************************************************)
(* A turn of the wheel.  Every slot comes nearer by the turn that is made; *)
(* a session that ResetTimingWheel puts again is as many turns ahead as it *)
(* has seconds left, on a clock that may be late; and one that it stops    *)
(* has been silent.                                                        *)
(***************************************************************************)
LEMMA TurnTiming ==
  ASSUME IInv, Timing, CheckSlot
  PROVE  /\ Timing'
         /\ \A s \in handlers : s \notin handlers' =>
              clock - active[s] >= Size - MaxLag - 1
<1> DEFINE next  == IF idx + 1 = Size THEN 0 ELSE idx + 1
           stale == {s \in datas[next] : ~Alive(s)}
           late  == {s \in datas[next] \ stale : TimedOut(s)}
           fresh == datas[next] \ (stale \cup late)
<1>1. /\ due > 0 /\ due' = due - 1 /\ idx' = next
      /\ datas' = [i \in Slots |-> {s \in datas[i] : i # next} \cup
                                   {s \in fresh : SlotAgain(s, next) = i}]
      /\ timing_wheel_index' = [s \in Sessions |->
           IF s \in fresh THEN SlotAgain(s, next)
           ELSE IF s \in late THEN -1 ELSE timing_wheel_index[s]]
      /\ handlers' = handlers \ late
      /\ UNCHANGED <<time, count, now_sec, last_read_time, destroyed, history>>
  BY DEF CheckSlot
<1>2. /\ idx \in Slots /\ next \in Slots /\ Ahead(next, idx) = 1
      /\ \A i \in Slots : i # next => Ahead(i, next) = Ahead(i, idx) - 1
  <2>1. idx \in Slots
    BY DEF IInv, TypeOK
  <2> HIDE DEF next
  <2>2. next = IF idx + 1 = Size THEN 0 ELSE idx + 1
    BY DEF next
  <2> QED
    BY <2>1, <2>2, AheadTurns
<1>3. /\ clock \in Nat /\ Start \in Nat /\ MaxLag \in Nat /\ Size \in Nat \ {0}
      /\ now_sec \in Nat /\ now_sec <= clock /\ clock <= now_sec + MaxLag
      /\ count \in Nat /\ due \in Nat
      /\ active \in [Sessions -> Nat] /\ last_read_time \in [Sessions -> Nat]
      /\ \A s \in Sessions : last_read_time[s] <= now_sec /\ last_read_time[s] <= active[s]
  BY SizeAssumption, ClockAssumption DEF IInv, TypeOK, Timing, Lags, ReadTimes
<1>4. /\ Turns' = Turns + 1 /\ Turns \in Int /\ Turns <= clock - Start
  <2>1. Turns' = Turns + 1
    BY <1>1, <1>3 DEF Turns, time, IInv, TypeOK
  <2>2. Turns \in Int /\ Turns <= clock - Start + 1 - count - due
    BY TurnsFollowClock DEF IInv
  <2> QED
    BY <1>1, <1>3, <2>1, <2>2
<1>5. /\ late \cup fresh \subseteq datas[next] /\ datas[next] \subseteq Sessions
      /\ \A s \in late : last_read_time[s] + Size <= now_sec
      /\ \A s \in fresh : ~ (last_read_time[s] + Size <= now_sec)
      /\ \A s \in late \cup fresh : s \in handlers \ destroyed
      /\ \A s \in datas[next] \cap (handlers \ destroyed) : s \in late \cup fresh
  BY <1>2 DEF Alive, TimedOut, IInv, TypeOK
<1> HIDE DEF next, stale, late, fresh
<1>6. ASSUME NEW s \in fresh
      PROVE  \E k \in 1..Size :
               /\ k = Size - (now_sec - last_read_time[s])
               /\ SlotAgain(s, next) \in Slots /\ Ahead(SlotAgain(s, next), next) = k
  <2>1. PICK k \in Int : k = Size - (now_sec - last_read_time[s])
    BY <1>3, <1>5
  <2>2. k \in 1..Size
    BY <1>3, <1>5, <2>1
  <2>3. SlotAgain(s, next) = Wrap(next + k)
    BY <2>1 DEF SlotAgain
  <2> QED
    BY <1>2, <2>1, <2>2, <2>3, WrapIsAhead
<1>7. Lags' /\ ReadTimes'
  BY <1>1, <1>3 DEF Timing, Lags, ReadTimes, time, history
<1>8. LateBound'
  <2>1. ASSUME NEW i \in Slots, NEW s \in datas'[i]
        PROVE  Turns' + Ahead(i, idx') <= active'[s] - Start + Size + MaxLag + 1
    <3>1. active' = active /\ datas[i] \subseteq Sessions
      BY <1>1 DEF history, IInv, TypeOK
    <3>2. CASE s \in datas[i] /\ i # next
      <4>1. Turns + Ahead(i, idx) <= active[s] - Start + Size + MaxLag + 1
        BY <3>2 DEF Timing, LateBound
      <4>2. Ahead(i, idx) \in 1..Size /\ Ahead(i, next) = Ahead(i, idx) - 1
        BY <1>2, <3>2, AheadRange
      <4> QED
        BY <1>1, <1>4, <3>1, <4>1, <4>2
    <3>3. CASE s \in fresh /\ SlotAgain(s, next) = i
      <4>1. /\ Ahead(i, next) = Size - (now_sec - last_read_time[s])
            /\ s \in Sessions
        BY <1>5, <1>6, <3>3
      <4> QED
        BY <1>1, <1>3, <1>4, <3>1, <4>1
    <3> QED
      BY <1>1, <3>2, <3>3
  <2> QED
    BY <2>1 DEF LateBound
<1>9. ASSUME NEW s \in handlers \ destroyed
      PROVE  /\ s \in Sessions /\ timing_wheel_index[s] \in Slots
             /\ s \in datas[next] <=> timing_wheel_index[s] = next
  <2>1. s \in Sessions \ destroyed
    BY DEF IInv, TypeOK
  <2>2. timing_wheel_index[s] # -1 /\ timing_wheel_index[s] \in Slots \cup {-1}
    BY <2>1 DEF IInv, TypeOK, OneSlot
  <2> QED
    BY <1>2, <2>1, <2>2 DEF IInv, OneSlot
<1>10. EarlyBound'
  <2>1. ASSUME NEW s \in handlers' \ destroyed'
        PROVE  \/ active'[s] <= last_read_time'[s] + MaxLag
               \/ Turns' + Ahead(timing_wheel_index'[s], idx')
                    >= active'[s] - Start + Size - MaxLag
    <3>1. /\ s \in handlers \ destroyed /\ s \notin late
          /\ active' = active /\ last_read_time' = last_read_time
      BY <1>1 DEF history
    <3>2. CASE active[s] <= last_read_time[s] + MaxLag
      BY <3>1, <3>2
    <3>3. CASE Turns + Ahead(timing_wheel_index[s], idx) >= active[s] - Start + Size - MaxLag
      <4>1. s \in Sessions /\ active[s] \in Nat
        BY <1>3, <1>9, <3>1
      <4>2. CASE s \in fresh
        <5>1. /\ timing_wheel_index'[s] = SlotAgain(s, next)
              /\ timing_wheel_index[s] = next
          BY <1>1, <1>5, <1>9, <3>1, <4>1, <4>2
        <5>2. Ahead(timing_wheel_index'[s], next) \in 1..Size
          BY <1>6, <4>2, <5>1
        <5> QED
          BY <1>1, <1>2, <1>3, <1>4, <3>1, <3>3, <4>1, <5>1, <5>2
      <4>3. CASE s \notin fresh
        <5>1. /\ timing_wheel_index'[s] = timing_wheel_index[s]
              /\ timing_wheel_index[s] \in Slots /\ timing_wheel_index[s] # next
          BY <1>1, <1>5, <1>9, <3>1, <4>1, <4>3
        <5>2. /\ Ahead(timing_wheel_index[s], idx) \in 1..Size
              /\ Ahead(timing_wheel_index[s], next)
                   = Ahead(timing_wheel_index[s], idx) - 1
          BY <1>2, <5>1, AheadRange
        <5> QED
          BY <1>1, <1>4, <3>1, <3>3, <5>1, <5>2
      <4> QED
        BY <4>2, <4>3
    <3> QED
      BY <3>1, <3>2, <3>3 DEF Timing, EarlyBound
  <2> QED
    BY <2>1 DEF EarlyBound
<1>11. ASSUME NEW s \in handlers, s \notin handlers'
       PROVE  clock - active[s] >= Size - MaxLag - 1
  <2>1. s \in late /\ s \in handlers \ destroyed /\ s \in Sessions
    BY <1>1, <1>5, <1>11
  <2>2. CASE active[s] <= last_read_time[s] + MaxLag
    BY <1>3, <1>5, <2>1, <2>2
  <2>3. CASE Turns + Ahead(timing_wheel_index[s], idx) >= active[s] - Start + Size - MaxLag
    <3>1. timing_wheel_index[s] = next
      BY <1>5, <1>9, <2>1
    <3> QED
      BY <1>2, <1>3, <1>4, <2>1, <2>3, <3>1
  <2> QED
    BY <2>1, <2>2, <2>3 DEF Timing, EarlyBound
<1> QED
  BY <1>7, <1>8, <1>10, <1>11 DEF Timing

LEMMA TimingStep == IInv /\ Timing /\ [Next]_vars => Timing'
BY ClockTiming, RegisterTiming, SessionTiming, TurnTiming DEF Next

LEMMA TimingInvariant == Spec => [](IInv /\ Timing)
BY InitTiming, TimingStep, Invariant, PTL DEF Spec

(***************************************************************************)
(* No id, of a session that is silent or of one that is gone, stays in the *)
(* wheel longer than Size seconds and twice the lag (Register,             *)
(* ResetTimingWheel, CheckOvertime).                                       *)
(***************************************************************************)
THEOREM SilenceEnds == Spec => []NeverLate
<1>1. ASSUME IInv, Timing PROVE NeverLate
  <2> SUFFICES ASSUME NEW i \in Slots, NEW s \in datas[i]
               PROVE  clock - active[s] <= Size + 2 * MaxLag
    BY DEF NeverLate
  <2>1. Turns + Ahead(i, idx) <= active[s] - Start + Size + MaxLag + 1
    BY <1>1 DEF Timing, LateBound
  <2>2. /\ idx \in Slots /\ s \in Sessions
        /\ clock \in Nat /\ active[s] \in Nat /\ count \in Nat /\ due \in Nat
        /\ Start \in Nat /\ MaxLag \in Nat /\ Size \in Nat
        /\ count + due <= MaxLag
    BY <1>1, SizeAssumption, ClockAssumption DEF IInv, TypeOK, Timing, Lags
  <2>3. Ahead(i, idx) \in 1..Size
    BY <2>2, AheadRange
  <2>4. Turns \in Int /\ Turns >= clock - Start - count - due
    BY <1>1, TurnsFollowClock DEF IInv
  <2> QED
    BY <2>1, <2>2, <2>3, <2>4
<1> QED
  BY <1>1, TimingInvariant, PTL

(***************************************************************************)
(* CheckOvertime stops no session that registered or read whole packets    *)
(* within the last Size seconds, less the lag and the offset of the timer, *)
(* whatever last_read_time_ was left over from before.                     *)
(***************************************************************************)
THEOREM ActiveIsKept == Spec => NeverEarly
<1>1. IInv /\ Timing /\ [Next]_vars =>
        [\A s \in handlers : CheckSlot /\ s \notin handlers' =>
           clock - active[s] >= Size - MaxLag - 1]_vars
  BY TurnTiming
<1> QED
  BY <1>1, TimingInvariant, PTL DEF Spec, NeverEarly

=============================================================================
