----------------------------- MODULE TimingWheel -----------------------------
(***************************************************************************)
(* The timing wheel of an EventLoop (timing_wheel.cpp), the timerfd that   *)
(* turns it (timer_handler.cpp) and the part of TcpSession that uses it:   *)
(* when a session that reads nothing is stopped.                           *)
(*                                                                         *)
(* Three clocks are apart here.  clock is the real time in seconds; now_sec*)
(* is the loop's copy of it, taken before each epoll_wait and so older     *)
(* than what the handlers of that round do; and idx advances once per      *)
(* expiration of the timerfd, which the loop may read late and several at  *)
(* a time.  The real clock is monotone here.                               *)
(***************************************************************************)
EXTENDS Integers, FiniteSets

CONSTANTS
  Sessions,  \* the sessions, which stand for their ids
  Size,      \* TimingWheel::size_, EventLoop::InitTimeout
  Start,     \* the time at which the loop is created
  MaxClock,  \* bound of the model: the last second
  MaxLag     \* bound of the model: seconds the loop may be late

\* The constructor aborts unless size is a power of 2.
ASSUME SizeAssumption ==
  /\ Size \in Nat \ {0}
  /\ \E k \in 0..31 : Size = 2^k

\* Seconds since 1970, so far more than Size.
ASSUME ClockAssumption ==
  /\ Start \in Nat /\ Start >= Size
  /\ MaxClock \in Nat /\ MaxLag \in Nat

VARIABLES
  clock,               \* the real time
  expired,             \* whether the timer has expired in this second
  count,               \* expirations of the timerfd not read yet
  now_sec,             \* EventLoop::now_sec_
  due,                 \* turns that CheckOvertime has still to make
  idx,                 \* TimingWheel::idx_
  datas,               \* TimingWheel::datas_, the slots
  timing_wheel_index,  \* TcpSession::timing_wheel_index_
  last_read_time,      \* TcpSession::last_read_time_
  handlers,            \* the keys of EventLoop::handlers_
  destroyed,           \* sessions whose last shared_ptr is gone
  active,              \* history: when a session last registered or read
                       \* whole packets, or when it was destroyed
  heard                \* history: when a session last received anything

time    == <<clock, expired>>
loop    == <<now_sec, due, idx>>
session == <<datas, timing_wheel_index, last_read_time, handlers, destroyed>>
history == <<active, heard>>

vars == <<time, count, loop, session, history>>

Slots == 0..(Size - 1)

\* `& (size_ - 1)`, for a size_ that is a power of 2.
Wrap(n) == n % Size

Alive(s) == s \in handlers /\ s \notin destroyed

-----------------------------------------------------------------------------

Init ==
  /\ clock = Start /\ expired = FALSE
  /\ count = 0
  /\ now_sec = Start /\ due = 0 /\ idx = 0
  /\ datas = [i \in Slots |-> {}]
  /\ timing_wheel_index = [s \in Sessions |-> -1]
  /\ last_read_time = [s \in Sessions |-> 0]
  /\ handlers = {} /\ destroyed = {}
  /\ active = [s \in Sessions |-> 0]
  /\ heard = [s \in Sessions |-> 0]

\* A second begins.  The loop comes round at least every MaxLag seconds.
Tick ==
  /\ clock < MaxClock
  /\ expired
  /\ clock - now_sec < MaxLag
  /\ clock' = clock + 1
  /\ expired' = FALSE
  /\ UNCHANGED <<count, loop, session, history>>

\* The timerfd expires once a second, at a fixed offset into it.
Expire ==
  /\ ~expired
  /\ count + due < MaxLag
  /\ expired' = TRUE
  /\ count' = count + 1
  /\ UNCHANGED <<clock, loop, session, history>>

\* DispatchAndProcess: gettimeofday, then epoll_wait.
NewRound ==
  /\ due = 0
  /\ now_sec' = clock
  /\ UNCHANGED <<time, count, due, idx, session, history>>

\* RegisterHandler of a session with no event set: RegisterTimingWheel.
Register(s) ==
  /\ due = 0
  /\ s \notin handlers
  /\ s \notin destroyed
  /\ handlers' = handlers \cup {s}
  /\ timing_wheel_index' = [timing_wheel_index EXCEPT ![s] = Wrap(idx + Size)]
  /\ datas' = [datas EXCEPT ![Wrap(idx + Size)] = @ \cup {s}]
  /\ active' = [active EXCEPT ![s] = clock]
  /\ UNCHANGED <<time, count, loop, last_read_time, destroyed, heard>>

\* A faulty Remove: timing_wheel_index_ is not reset.
RemoveKeepsIndex(s) ==
  /\ due = 0
  /\ Alive(s)
  /\ handlers' = handlers \ {s}
  /\ datas' = [datas EXCEPT ![timing_wheel_index[s]] = @ \ {s}]
  /\ UNCHANGED <<time, count, loop, timing_wheel_index, last_read_time,
                 destroyed, history>>

\* RemoveHandler of the last event: RemoveTimingWheel.
Remove(s) ==
  /\ due = 0
  /\ Alive(s)
  /\ handlers' = handlers \ {s}
  /\ datas' = [datas EXCEPT ![timing_wheel_index[s]] = @ \ {s}]
  /\ timing_wheel_index' = [timing_wheel_index EXCEPT ![s] = -1]
  /\ UNCHANGED <<time, count, loop, last_read_time, destroyed, history>>

\* The user drops a session that is still registered.
Destroy(s) ==
  /\ Alive(s)
  /\ destroyed' = destroyed \cup {s}
  /\ active' = [active EXCEPT ![s] = clock]
  /\ UNCHANGED <<time, count, loop, datas, timing_wheel_index, last_read_time,
                 handlers, heard>>

\* A faulty HandleRead: last_read_time_ is never set.
HandleReadForgets(s) ==
  /\ due = 0
  /\ Alive(s)
  /\ active' = [active EXCEPT ![s] = clock]
  /\ heard' = [heard EXCEPT ![s] = clock]
  /\ UNCHANGED <<time, count, loop, session>>

\* TcpSession::HandleRead: whole packets, none left in part.
HandleRead(s) ==
  /\ due = 0
  /\ Alive(s)
  /\ last_read_time' = [last_read_time EXCEPT ![s] = now_sec]
  /\ active' = [active EXCEPT ![s] = clock]
  /\ heard' = [heard EXCEPT ![s] = clock]
  /\ UNCHANGED <<time, count, loop, datas, timing_wheel_index, handlers, destroyed>>

\* TcpSession::HandleRead: a packet whose length is known and whose data is
\* not all there yet.  The early return skips last_read_time_.
PartialRead(s) ==
  /\ due = 0
  /\ Alive(s)
  /\ heard' = [heard EXCEPT ![s] = clock]
  /\ UNCHANGED <<time, count, loop, session, active>>

\* TimerHandler::HandleRead: the count is read and the wheel turns as often.
TimerRead ==
  /\ due = 0
  /\ count > 0
  /\ due' = count
  /\ count' = 0
  /\ UNCHANGED <<time, now_sec, idx, session, history>>

\* A faulty TimedOut: a session that is due this very second is put off.
TimedOutLater(s) == last_read_time[s] + Size < now_sec

TimedOut(s) == last_read_time[s] + Size <= now_sec

\* A faulty SlotAgain: the sum is not wrapped.
SlotAgainUnwrapped(s, at) == at + (Size - (now_sec - last_read_time[s]))

\* The slot in which ResetTimingWheel puts a session again.
SlotAgain(s, at) == Wrap(at + (Size - (now_sec - last_read_time[s])))

\* One turn of CheckOvertime: the ids in the next slot are forgotten if they
\* have no live handler, stopped if they timed out, or put in a later slot.
CheckSlot ==
  LET next  == IF idx + 1 = Size THEN 0 ELSE idx + 1
      stale == {s \in datas[next] : ~Alive(s)}
      late  == {s \in datas[next] \ stale : TimedOut(s)}
      fresh == datas[next] \ (stale \cup late)
  IN /\ due > 0
     /\ due' = due - 1
     /\ idx' = next
     /\ datas' = [i \in Slots |->
                    {s \in datas[i] : i # next} \cup
                    {s \in fresh : SlotAgain(s, next) = i}]
     /\ timing_wheel_index' = [s \in Sessions |->
          IF s \in fresh THEN SlotAgain(s, next)
          ELSE IF s \in late THEN -1 ELSE timing_wheel_index[s]]
     /\ handlers' = handlers \ late
     /\ UNCHANGED <<time, count, now_sec, last_read_time, destroyed, history>>

Next ==
  \/ Tick \/ Expire \/ NewRound \/ TimerRead \/ CheckSlot
  \/ \E s \in Sessions : Register(s) \/ Remove(s) \/ Destroy(s)
                         \/ HandleRead(s) \/ PartialRead(s)

Spec == Init /\ [][Next]_vars

-----------------------------------------------------------------------------

TypeOK ==
  /\ clock \in Nat /\ expired \in BOOLEAN
  /\ count \in Nat /\ due \in Nat
  /\ now_sec \in Nat
  /\ idx \in Slots
  /\ datas \in [Slots -> SUBSET Sessions]
  /\ timing_wheel_index \in [Sessions -> Slots \cup {-1}]
  /\ last_read_time \in [Sessions -> Nat]
  /\ handlers \subseteq Sessions /\ destroyed \subseteq Sessions
  /\ active \in [Sessions -> Nat] /\ heard \in [Sessions -> Nat]

(***************************************************************************)
(* A registered session is in the slot its timing_wheel_index_ names and   *)
(* in no other; one that is not registered is in none, and its index says  *)
(* so.  Otherwise RemoveTimingWheel would leave an id behind, and a        *)
(* session would be stopped by a slot it has left.                         *)
(***************************************************************************)
OneSlot ==
  /\ \A s \in Sessions \ destroyed :
       \A i \in Slots : s \in datas[i] <=> timing_wheel_index[s] = i
  /\ \A s \in Sessions \ destroyed :
       s \in handlers <=> timing_wheel_index[s] # -1

(***************************************************************************)
(* A session is not stopped for its silence before it has been registered  *)
(* and without a complete packet for Size seconds, less the seconds by     *)
(* which the loop is late and the one by which the timer's offset differs. *)
(* This holds of a session that has read nothing since it registered, too, *)
(* whose last_read_time_ is 0 or left over from an earlier registration.   *)
(***************************************************************************)
NeverEarly ==
  [][\A s \in handlers : CheckSlot /\ s \notin handlers' =>
       clock - active[s] >= Size - MaxLag - 1]_vars

(***************************************************************************)
(* No session stays registered in silence for longer than Size seconds and *)
(* twice those by which the loop is late, once for a stale now_sec_ at a   *)
(* visit and once for expirations not read yet; and the id of a destroyed  *)
(* session leaves the wheel within that time, so the wheel does not fill.  *)
(***************************************************************************)
NeverLate ==
  \A i \in Slots : \A s \in datas[i] : clock - active[s] <= Size + 2 * MaxLag

(***************************************************************************)
(* What ResetTimingWheel calls a read timeout and timing_wheel.h a number  *)
(* of seconds: a session that is stopped for it has received nothing for   *)
(* Size seconds, less those by which the loop is late.                     *)
(***************************************************************************)
TimeoutMeansSilence ==
  [][\A s \in handlers : CheckSlot /\ s \notin handlers' =>
       clock - heard[s] >= Size - MaxLag - 1]_vars

=============================================================================
