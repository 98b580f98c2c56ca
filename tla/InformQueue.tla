----------------------------- MODULE InformQueue -----------------------------
(***************************************************************************)
(* The way a call of EventLoop::ProcessEvent crosses from another thread   *)
(* to the loop's thread (event_loop.cpp, inform_handler.cpp).  A producer  *)
(* pushes an Event on the lock-free event_queue_, sets the atomic flag     *)
(* informed_ and, when it was the one to set it, writes to an eventfd.     *)
(* The loop's thread wakes up from epoll_wait, reads the eventfd, pops     *)
(* until the queue is empty and only then clears the flag.                 *)
(*                                                                         *)
(* One step of the model is one access to shared memory or one system      *)
(* call, so that every interleaving of the threads is there.  Handling     *)
(* one Event (ProcessEventInLoop) touches nothing of this module and is    *)
(* part of the step that pops it; module EventLoop models it.              *)
(***************************************************************************)
EXTENDS Integers, Sequences

CONSTANTS
  Producers,  \* the threads that call ProcessEvent, except the loop's own
  MaxPush     \* bound of the model: calls one producer makes

ASSUME MaxPushAssumption == MaxPush \in Nat

VARIABLES
  not_close,    \* TcpServer::not_close_
  event_queue,  \* EventLoop::event_queue_
  informed,     \* InformHandler::informed_
  efd,          \* the counter of the eventfd InformHandler::fd_
  pushed,       \* [Producers -> Nat]: Events each producer has pushed
  ppc,          \* where each producer is in ProcessEvent and Inform
  lpc,          \* where the loop's thread is in Loop and HandleRead
  handled,      \* history: the Events popped by the loop's thread
  freed         \* history: the Events popped by ~EventLoop

vars == <<not_close, event_queue, informed, efd, pushed, ppc, lpc, handled, freed>>

Events == [from : Producers, num : Nat]

ProducerStates ==
  {"idle",      \* outside ProcessEvent
   "inform",    \* pushed its Event, about to test_and_set informed_
   "write"}     \* was the one to set informed_, about to write to the eventfd

LoopStates ==
  {"poll",      \* in epoll_wait
   "read",      \* in InformHandler::HandleRead, about to read the eventfd
   "pop",       \* in ProcessEventInQueueInLoop
   "clear",     \* found the queue empty, about to clear informed_
   "check",     \* back in Loop, about to read not_close_
   "exited",    \* Run has returned
   "destroyed"} \* ~EventLoop has run

-----------------------------------------------------------------------------

Init ==
  /\ not_close = TRUE
  /\ event_queue = <<>>
  /\ informed = FALSE
  /\ efd = 0
  /\ pushed = [p \in Producers |-> 0]
  /\ ppc = [p \in Producers |-> "idle"]
  /\ lpc = "poll"
  /\ handled = <<>>
  /\ freed = <<>>

\* ProcessEvent on another thread: the Event is built and pushed.  A caller
\* holds a reference to the loop, so none calls once the loop is destroyed.
Push(p) ==
  /\ ppc[p] = "idle"
  /\ lpc # "destroyed"
  /\ pushed[p] < MaxPush
  /\ pushed' = [pushed EXCEPT ![p] = @ + 1]
  /\ event_queue' = Append(event_queue, [from |-> p, num |-> pushed[p] + 1])
  /\ ppc' = [ppc EXCEPT ![p] = "inform"]
  /\ UNCHANGED <<not_close, informed, efd, lpc, handled, freed>>

\* A faulty TestAndSet: the old value of the flag is not looked at.
TestAndSetAlwaysWrites(p) ==
  /\ ppc[p] = "inform"
  /\ informed' = TRUE
  /\ ppc' = [ppc EXCEPT ![p] = "write"]
  /\ UNCHANGED <<not_close, event_queue, efd, pushed, lpc, handled, freed>>

\* Inform: informed_.test_and_set(), whose old value decides on the write.
TestAndSet(p) ==
  /\ ppc[p] = "inform"
  /\ informed' = TRUE
  /\ ppc' = [ppc EXCEPT ![p] = IF informed THEN "idle" ELSE "write"]
  /\ UNCHANGED <<not_close, event_queue, efd, pushed, lpc, handled, freed>>

\* A faulty WriteFd: the write fails and the flag is cleared, as the line that
\* is commented out after it would.
WriteFdGivesUp(p) ==
  /\ ppc[p] = "write"
  /\ informed' = FALSE
  /\ ppc' = [ppc EXCEPT ![p] = "idle"]
  /\ UNCHANGED <<not_close, event_queue, efd, pushed, lpc, handled, freed>>

\* Inform: ::write(fd_, 1).
WriteFd(p) ==
  /\ ppc[p] = "write"
  /\ efd' = efd + 1
  /\ ppc' = [ppc EXCEPT ![p] = "idle"]
  /\ UNCHANGED <<not_close, event_queue, informed, pushed, lpc, handled, freed>>

\* epoll_wait reports the eventfd, which is registered level-triggered.
Poll ==
  /\ lpc = "poll"
  /\ efd > 0
  /\ lpc' = "read"
  /\ UNCHANGED <<not_close, event_queue, informed, efd, pushed, ppc, handled, freed>>

\* A faulty PollOther: epoll_wait without a timeout, which the comment beside
\* the call considers.
PollOtherBlocks ==
  /\ lpc = "poll"
  /\ efd > 0
  /\ lpc' = "check"
  /\ UNCHANGED <<not_close, event_queue, informed, efd, pushed, ppc, handled, freed>>

\* epoll_wait times out after 500 ms, or reports other handlers only: its
\* array has InitEventSize entries and the eventfd may not be among them.
PollOther ==
  /\ lpc = "poll"
  /\ lpc' = "check"
  /\ UNCHANGED <<not_close, event_queue, informed, efd, pushed, ppc, handled, freed>>

\* HandleRead: ::read(fd_) returns the counter and resets it.
ReadFd ==
  /\ lpc = "read"
  /\ efd' = 0
  /\ lpc' = "pop"
  /\ UNCHANGED <<not_close, event_queue, informed, pushed, ppc, handled, freed>>

\* A faulty PopEvent: one Event per wake-up, `if` for `while`.
PopEventOnce ==
  /\ lpc = "pop"
  /\ event_queue # <<>>
  /\ event_queue' = Tail(event_queue)
  /\ handled' = Append(handled, Head(event_queue))
  /\ lpc' = "clear"
  /\ UNCHANGED <<not_close, informed, efd, pushed, ppc, freed>>

\* A faulty PopEvent: the newest Event first.
PopEventNewest ==
  /\ lpc = "pop"
  /\ event_queue # <<>>
  /\ event_queue' = SubSeq(event_queue, 1, Len(event_queue) - 1)
  /\ handled' = Append(handled, event_queue[Len(event_queue)])
  /\ UNCHANGED <<not_close, informed, efd, pushed, ppc, lpc, freed>>

\* ProcessEventInQueueInLoop: pop succeeds, the Event is handled and freed.
PopEvent ==
  /\ lpc = "pop"
  /\ event_queue # <<>>
  /\ event_queue' = Tail(event_queue)
  /\ handled' = Append(handled, Head(event_queue))
  /\ UNCHANGED <<not_close, informed, efd, pushed, ppc, lpc, freed>>

\* ProcessEventInQueueInLoop: pop fails and the function returns.
PopEmpty ==
  /\ lpc = "pop"
  /\ event_queue = <<>>
  /\ lpc' = "clear"
  /\ UNCHANGED <<not_close, event_queue, informed, efd, pushed, ppc, handled, freed>>

\* HandleRead: informed_.clear().
Clear ==
  /\ lpc = "clear"
  /\ informed' = FALSE
  /\ lpc' = "check"
  /\ UNCHANGED <<not_close, event_queue, efd, pushed, ppc, handled, freed>>

\* Run: while (event_loop_->Loop()), whose value is not_close_.
Check ==
  /\ lpc = "check"
  /\ lpc' = IF not_close THEN "poll" ELSE "exited"
  /\ UNCHANGED <<not_close, event_queue, informed, efd, pushed, ppc, handled, freed>>

\* ~TcpServer tells the loops to stop.
Close ==
  /\ not_close
  /\ not_close' = FALSE
  /\ UNCHANGED <<event_queue, informed, efd, pushed, ppc, lpc, handled, freed>>

\* A faulty Destroy: the Events still in the queue are not freed.
DestroyLeaks ==
  /\ lpc = "exited"
  /\ \A p \in Producers : ppc[p] = "idle"
  /\ lpc' = "destroyed"
  /\ event_queue' = <<>>
  /\ UNCHANGED <<not_close, informed, efd, pushed, ppc, handled, freed>>

\* ~EventLoop, after the thread was joined and the last reference dropped:
\* whatever is still in the queue is popped and freed.
Destroy ==
  /\ lpc = "exited"
  /\ \A p \in Producers : ppc[p] = "idle"
  /\ lpc' = "destroyed"
  /\ freed' = event_queue
  /\ event_queue' = <<>>
  /\ UNCHANGED <<not_close, informed, efd, pushed, ppc, handled>>

Producer(p) == Push(p) \/ TestAndSet(p) \/ WriteFd(p)

Loop == Poll \/ PollOther \/ ReadFd \/ PopEvent \/ PopEmpty \/ Clear \/ Check

Next == Loop \/ Close \/ Destroy \/ \E p \in Producers : Producer(p)

(***************************************************************************)
(* A thread that is inside a call or a loop runs on.  A producer need not  *)
(* call, and the server need not be closed.  epoll_wait rotates its ready  *)
(* list, so an eventfd that stays readable is reported sooner or later     *)
(* however many other handlers are ready: Poll is strongly fair.  Nothing  *)
(* is assumed of Destroy: a session that outlives the server keeps its     *)
(* loop alive.                                                             *)
(***************************************************************************)
Fairness ==
  /\ WF_vars(Loop)
  /\ SF_vars(Poll)
  /\ \A p \in Producers : WF_vars(TestAndSet(p) \/ WriteFd(p))

Spec == Init /\ [][Next]_vars /\ Fairness

-----------------------------------------------------------------------------

TypeOK ==
  /\ not_close \in BOOLEAN
  /\ event_queue \in Seq(Events)
  /\ informed \in BOOLEAN
  /\ efd \in {0, 1}
  /\ pushed \in [Producers -> Nat]
  /\ ppc \in [Producers -> ProducerStates]
  /\ lpc \in LoopStates
  /\ handled \in Seq(Events)
  /\ freed \in Seq(Events)

\* The three places the wake-up can be while informed_ is set: with the
\* producer that set the flag, in the eventfd, or with the loop's thread.
Writing == {p \in Producers : ppc[p] = "write"}
Draining == lpc \in {"pop", "clear"}

(***************************************************************************)
(* informed_ stands for one wake-up that is on its way: while it is set    *)
(* the wake-up is in exactly one place, while it is clear there is none.   *)
(* Hence a burst of ProcessEvent calls costs one write, which is why the   *)
(* eventfd never holds more than 1, and HandleRead never reads it empty.   *)
(***************************************************************************)
OneWakeup ==
  /\ informed <=> Writing # {} \/ efd > 0 \/ Draining
  /\ \A p, q \in Writing : p = q
  /\ Writing # {} => efd = 0 /\ ~Draining
  /\ efd > 0 => ~Draining
  /\ lpc = "read" => efd > 0

\* An Event waits and no wake-up is on its way: the loop will not look at the
\* queue until somebody calls ProcessEvent again.
Stranded ==
  /\ event_queue # <<>>
  /\ ~informed
  /\ efd = 0
  /\ \A p \in Producers : ppc[p] = "idle"
  /\ lpc \notin {"read", "pop"}

(***************************************************************************)
(* The window between the last pop and informed_.clear() in HandleRead is  *)
(* the only way an Event can be stranded: no other step of any thread      *)
(* leaves an Event in the queue without a wake-up on its way.              *)
(***************************************************************************)
OnlyClearStrands == [][Stranded' => Stranded \/ Clear]_vars

Channel == INSTANCE EventChannel WITH
  posted    <- pushed,
  pending   <- event_queue,
  delivered <- handled,
  discarded <- freed,
  open      <- lpc # "destroyed"

(***************************************************************************)
(* The queue, flag and eventfd together are a channel that hands over each *)
(* Event at most once, in the order it was pushed, and frees the rest.     *)
(***************************************************************************)
ImplementsChannel == Channel!Spec

\* No Event is lost, handled twice or overtaken by one of the same thread.
OnceInOrder == Channel!OnceInOrder

InQueue(e) == \E i \in 1..Len(event_queue) : event_queue[i] = e

BoundedEvents == [from : Producers, num : 1..MaxPush]

(***************************************************************************)
(* An Event that is in the queue while a wake-up is on its way, and the    *)
(* loop is not past its last pop, leaves the queue unless the server is    *)
(* closed first: whoever calls ProcessEvent outside the window of Clear    *)
(* also rescues what was stranded before.                                  *)
(***************************************************************************)
WakeupDrains ==
  \A e \in BoundedEvents :
    InQueue(e) /\ informed /\ lpc # "clear" ~> ~InQueue(e) \/ lpc = "exited"

(***************************************************************************)
(* Closing the server ends the loop's thread wherever it was, with or      *)
(* without a wake-up: the join in ~EventLoopThread does not wait for ever. *)
(***************************************************************************)
CloseEnds == ~not_close ~> lpc \in {"exited", "destroyed"}

(***************************************************************************)
(* What event_loop.h says of the queue: a request of another thread is put *)
(* in the queue and is processed once inform_handler_ is notified.  Every  *)
(* Event pushed thus leaves the queue, unless the server is closed first.  *)
(***************************************************************************)
PushedIsProcessed ==
  \A e \in BoundedEvents : InQueue(e) ~> ~InQueue(e) \/ ~not_close

=============================================================================
