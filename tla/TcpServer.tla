------------------------------ MODULE TcpServer ------------------------------
(***************************************************************************)
(* A TcpServer from Start to its destructor: the main thread, which makes  *)
(* the loops and accepts connections, and one thread per loop              *)
(* (tcp_server.cpp, event_loop_thread.cpp, acceptor.cpp).                  *)
(*                                                                         *)
(* Each loop decides whether a caller is on its own thread by comparing    *)
(* with thread_id_, which the constructor sets to the main thread and      *)
(* every Loop() sets to the loop's thread.  Reading it and acting on what  *)
(* was read are two steps here.  How an Event of the queue is noticed, and *)
(* that it may be noticed late, is module InformQueue: here a round of a   *)
(* loop may take any number of the Events in front of its queue.           *)
(*                                                                         *)
(* A loop holds its sessions by weak_ptr, in its queue and in its table:   *)
(* which live is up to the user's code and to AddNewSession, while it has  *)
(* them.  Of the Events, the REGISTERs are in the queue; what a loop does  *)
(* for the other ones, and for what epoll_wait reports, is that it may     *)
(* register or remove any session of its own that lives, in any round.     *)
(***************************************************************************)
EXTENDS Integers, Sequences, FiniteSets

CONSTANTS
  ThreadNum,  \* TcpServer::thread_num_
  MaxConn     \* bound of the model: connections accepted

ASSUME ThreadNumAssumption == ThreadNum \in Nat \ {0}
ASSUME MaxConnAssumption == MaxConn \in Nat

VARIABLES
  not_close,    \* TcpServer::not_close_
  next_loop,    \* TcpServer::next_loop_
  started,      \* how many loops and threads Start has made
  accepted,     \* how many connections Acceptor has accepted
  mpc,          \* where the main thread is
  target,       \* the loop that AddNewSession has got from NextLoop
  thread_id,    \* EventLoop::thread_id_ of each loop
  event_queue,  \* EventLoop::event_queue_ of each loop: new sessions
  handlers,     \* the sessions in EventLoop::handlers_ of each loop
  wpc,          \* where the thread of each loop is
  joined,       \* how many threads ~TcpServer has joined
  eh,           \* AddNewSession's shared_ptr to the new session, 0 if null
  owned,        \* the sessions that the user's code holds a shared_ptr to
  given,        \* history: the loop that each accepted session was given
  removed       \* history: left a table, and were not registered since

turn == <<next_loop, accepted, target, given>>
closing == <<not_close, joined>>
loops == <<thread_id, event_queue, handlers, wpc>>
held == <<eh, owned>>
vars == <<turn, closing, loops, held, removed, started, mpc>>

Loops == 0..(ThreadNum - 1)
Conns == 1..MaxConn

MainStates ==
  {"start",   \* in Start
   "accept",  \* outside, or in DoAcceptLoopOnce before a connection
   "post",    \* in AddNewSession, about to compare thread_id_
   "inline",  \* in RegisterHandler of the target loop, on the main thread
   "push",    \* in ProcessEvent, about to push on the target's queue
   "return",  \* at the end of AddNewSession
   "join",    \* in ~TcpServer
   "gone"}    \* the server is destroyed

WorkerStates ==
  {"none",      \* the thread does not exist
   "run",       \* in Run, about to call Loop
   "dispatch",  \* in DispatchAndProcess
   "exited"}    \* Run has returned

\* weak_ptr::lock succeeds.  Session 0 is the null one.
Alive(c) == c \in owned \/ c = eh

-----------------------------------------------------------------------------

Init ==
  /\ not_close = TRUE
  /\ next_loop = 0
  /\ started = 0 /\ accepted = 0
  /\ mpc = "start" /\ target = 0
  /\ thread_id = [l \in Loops |-> "none"]
  /\ event_queue = [l \in Loops |-> <<>>]
  /\ handlers = [l \in Loops |-> {}]
  /\ wpc = [l \in Loops |-> "none"]
  /\ joined = 0
  /\ eh = 0 /\ owned = {}
  /\ given = [c \in {} |-> 0]
  /\ removed = {}

\* One turn of Start: the loop is built, on the main thread, and its thread.
StartLoop ==
  /\ mpc = "start"
  /\ started < ThreadNum
  /\ thread_id' = [thread_id EXCEPT ![started] = "main"]
  /\ wpc' = [wpc EXCEPT ![started] = "run"]
  /\ started' = started + 1
  /\ UNCHANGED <<turn, closing, event_queue, handlers, held, removed, mpc>>

StartReturns ==
  /\ mpc = "start"
  /\ started = ThreadNum
  /\ mpc' = "accept"
  /\ UNCHANGED <<turn, closing, loops, held, removed, started>>

\* A faulty NextLoop: next_loop_ is compared before it is advanced.
NextLoopTooFar == IF next_loop = ThreadNum THEN 0 ELSE next_loop + 1

\* A faulty NextLoop: the last loop keeps its turn.
NextLoopStays == IF next_loop + 1 = ThreadNum THEN next_loop ELSE next_loop + 1

\* NextLoop: the loops take turns.
NextLoop == IF next_loop + 1 = ThreadNum THEN 0 ELSE next_loop + 1

\* Acceptor::HandleRead: accept, then AddNewSession as far as NewSession,
\* which may return null, and may keep a shared_ptr to the session or not.
Accept ==
  /\ mpc = "accept"
  /\ accepted < MaxConn
  /\ accepted' = accepted + 1
  /\ target' = next_loop
  /\ next_loop' = NextLoop
  /\ given' = [c \in 1..(accepted + 1) |->
                 IF c \in DOMAIN given THEN given[c] ELSE next_loop]
  /\ eh' \in {0, accepted'}
  /\ owned' \in {owned, owned \cup ({eh'} \ {0})}
  /\ mpc' = "post"
  /\ UNCHANGED <<closing, loops, removed, started>>

\* ProcessEvent: thread_id_ is read and compared with the caller's.
Compare ==
  /\ mpc = "post"
  /\ mpc' = IF thread_id[target] = "main" THEN "inline" ELSE "push"
  /\ UNCHANGED <<turn, closing, loops, held, removed, started>>

\* RegisterHandler of a session given to loop l.
Register(l, c) ==
  /\ handlers' = [handlers EXCEPT ![l] = @ \cup {c}]
  /\ removed' = removed \ {c}

\* ProcessEvent: the ids were equal, ProcessEventInLoop on the main thread,
\* which returns at once if NewSession gave no session.
RegisterInline ==
  /\ mpc = "inline"
  /\ IF eh # 0 THEN Register(target, eh) ELSE UNCHANGED <<handlers, removed>>
  /\ mpc' = "return"
  /\ UNCHANGED <<turn, closing, thread_id, event_queue, wpc, held, started>>

\* A faulty Push: the Event goes to the loop whose turn is next.
PushToNext ==
  /\ mpc = "push"
  /\ event_queue' = [event_queue EXCEPT ![next_loop] = Append(@, accepted)]
  /\ mpc' = "return"
  /\ UNCHANGED <<turn, closing, thread_id, handlers, wpc, held, removed, started>>

\* A faulty Push: a queue of one place, and the result of push not looked at.
PushIfRoom ==
  /\ mpc = "push"
  /\ event_queue' = [event_queue EXCEPT ![target] = IF @ = <<>> THEN <<accepted>> ELSE @]
  /\ mpc' = "return"
  /\ UNCHANGED <<turn, closing, thread_id, handlers, wpc, held, removed, started>>

\* ProcessEvent: the ids differ, the Event is pushed.
Push ==
  /\ mpc = "push"
  /\ event_queue' = [event_queue EXCEPT ![target] = Append(@, accepted)]
  /\ mpc' = "return"
  /\ UNCHANGED <<turn, closing, thread_id, handlers, wpc, held, removed, started>>

\* AddNewSession returns and lets go of the session.
Return ==
  /\ mpc = "return"
  /\ eh' = 0
  /\ mpc' = "accept"
  /\ UNCHANGED <<turn, closing, loops, owned, removed, started>>

\* The user lets go of a session, on any thread.
UserDrop(c) ==
  /\ c \in owned
  /\ owned' = owned \ {c}
  /\ UNCHANGED <<turn, closing, loops, eh, removed, started, mpc>>

\* ~TcpServer: the loops are told to stop.
Close ==
  /\ mpc = "accept"
  /\ not_close' = FALSE
  /\ mpc' = "join"
  /\ UNCHANGED <<turn, loops, held, removed, joined, started>>

\* ~EventLoopThread, for one thread after the other.
Join ==
  /\ mpc = "join"
  /\ joined < ThreadNum
  /\ wpc[joined] = "exited"
  /\ joined' = joined + 1
  /\ UNCHANGED <<turn, loops, held, removed, not_close, started, mpc>>

\* A faulty ~TcpServer: the last thread is not waited for.
VanishEarly ==
  /\ mpc = "join"
  /\ joined + 1 = ThreadNum
  /\ mpc' = "gone"
  /\ UNCHANGED <<turn, closing, loops, held, removed, started>>

\* The rest of ~TcpServer.
Vanish ==
  /\ mpc = "join"
  /\ joined = ThreadNum
  /\ mpc' = "gone"
  /\ UNCHANGED <<turn, closing, loops, held, removed, started>>

\* Loop, up to DispatchAndProcess.
BeginRound(l) ==
  /\ wpc[l] = "run"
  /\ thread_id' = [thread_id EXCEPT ![l] = "worker"]
  /\ wpc' = [wpc EXCEPT ![l] = "dispatch"]
  /\ UNCHANGED <<turn, closing, event_queue, handlers, held, removed, started, mpc>>

\* ProcessEventInQueueInLoop: an EVENT_ACTION_REGISTER is taken, and handled
\* unless its session is gone.
RegisterQueued(l) ==
  /\ wpc[l] = "dispatch"
  /\ event_queue[l] # <<>>
  /\ event_queue' = [event_queue EXCEPT ![l] = Tail(@)]
  /\ IF Alive(Head(event_queue[l])) THEN Register(l, Head(event_queue[l]))
                                    ELSE UNCHANGED <<handlers, removed>>
  /\ UNCHANGED <<turn, closing, thread_id, wpc, held, started, mpc>>

\* A Send is handled, before the session's REGISTER or after a removal or in
\* between: the session is registered with its loop, if it was not.
RegisterForWrite(l, c) ==
  /\ wpc[l] = "dispatch"
  /\ given[c] = l
  /\ Alive(c)
  /\ Register(l, c)
  /\ UNCHANGED <<turn, closing, thread_id, event_queue, wpc, held, started, mpc>>

\* RemoveHandler of the last event type: the connection ends, is stopped or
\* has timed out.  The user's Clear may let go of the session.
RemoveHandler(l, c) ==
  /\ wpc[l] = "dispatch"
  /\ c \in handlers[l]
  /\ Alive(c)
  /\ handlers' = [handlers EXCEPT ![l] = @ \ {c}]
  /\ removed' = removed \cup {c}
  /\ owned' \in {owned, owned \ {c}}
  /\ UNCHANGED <<turn, closing, thread_id, event_queue, wpc, eh, started, mpc>>

\* A faulty EndRound: the value Loop returns is not looked at.
EndRoundForever(l) ==
  /\ wpc[l] = "dispatch"
  /\ wpc' = [wpc EXCEPT ![l] = "run"]
  /\ UNCHANGED <<turn, closing, thread_id, event_queue, handlers, held, removed,
                 started, mpc>>

\* The end of Loop, and the condition of the while in Run.
EndRound(l) ==
  /\ wpc[l] = "dispatch"
  /\ wpc' = [wpc EXCEPT ![l] = IF not_close THEN "run" ELSE "exited"]
  /\ UNCHANGED <<turn, closing, thread_id, event_queue, handlers, held, removed,
                 started, mpc>>

Main ==
  \/ StartLoop \/ StartReturns \/ Accept \/ Compare \/ RegisterInline \/ Push
  \/ Return \/ Close \/ Join \/ Vanish

Run(l) ==
  \/ BeginRound(l) \/ RegisterQueued(l) \/ EndRound(l)
  \/ \E c \in DOMAIN given : RegisterForWrite(l, c) \/ RemoveHandler(l, c)

Next ==
  \/ Main
  \/ \E c \in owned : UserDrop(c)
  \/ \E l \in Loops : Run(l)

(***************************************************************************)
(* The threads run.  The user calls Start and goes on from there, but need *)
(* not ever destroy the server.  A round ends, however many Events arrive: *)
(* it is given finitely many.                                              *)
(***************************************************************************)
Fairness ==
  /\ WF_vars(StartLoop \/ StartReturns \/ Compare \/ RegisterInline \/ Push \/ Return)
  /\ WF_vars(Join \/ Vanish)
  /\ \A l \in Loops : WF_vars(Run(l)) /\ SF_vars(EndRound(l))

Spec == Init /\ [][Next]_vars /\ Fairness

-----------------------------------------------------------------------------

TypeOK ==
  /\ not_close \in BOOLEAN
  /\ next_loop \in Loops
  /\ started \in 0..ThreadNum /\ joined \in 0..ThreadNum
  /\ accepted \in 0..MaxConn
  /\ mpc \in MainStates
  /\ target \in Loops
  /\ thread_id \in [Loops -> {"none", "main", "worker"}]
  /\ event_queue \in [Loops -> Seq(Conns)]
  /\ handlers \in [Loops -> SUBSET Conns]
  /\ wpc \in [Loops -> WorkerStates]
  /\ given \in [1..accepted -> Loops]
  /\ eh \in {0, accepted}
  /\ owned \subseteq 1..accepted /\ removed \subseteq 1..accepted

\* The sessions on their way to a loop or registered with it.
Queued(l) == {event_queue[l][i] : i \in 1..Len(event_queue[l])}
Placed(l) == Queued(l) \cup handlers[l]
Posting == mpc \in {"post", "inline", "push"}

(***************************************************************************)
(* A session is posted to and registered with one loop only, the one that  *)
(* NextLoop chose for it: by whichever of the two ways of ProcessEvent it  *)
(* came there, and whoever removes and registers it later.  Its REGISTER   *)
(* is queued once.                                                         *)
(***************************************************************************)
PlacedOnce ==
  /\ \A l \in Loops : \A c \in Placed(l) : c \in 1..accepted /\ given[c] = l
  /\ \A l \in Loops : Cardinality(Queued(l)) = Len(event_queue[l])

(***************************************************************************)
(* No session that lives is forgotten: once AddNewSession has posted it,   *)
(* its REGISTER is in the queue of its loop, or the session is registered  *)
(* there, or it was and has been removed.  (Only a session that nobody but *)
(* AddNewSession ever held is gone before its REGISTER is taken.)          *)
(***************************************************************************)
NoneForgotten ==
  \A c \in 1..accepted :
    Alive(c) /\ ~(Posting /\ c = accepted) => c \in Placed(given[c]) \cup removed

\* How many sessions were given to a loop.
Load(l) == Cardinality({c \in 1..accepted : given[c] = l})

\* The loops are given equally many sessions, to within one.
SpreadEvenly == \A k, l \in Loops : Load(k) <= Load(l) + 1

(***************************************************************************)
(* No thread outlives the server, whose not_close_ it reads after every    *)
(* round.                                                                  *)
(***************************************************************************)
NoneOutlivesServer == mpc = "gone" => \A l \in Loops : wpc[l] = "exited"

(***************************************************************************)
(* Destroying the server ends: every thread is joined, whatever its loop   *)
(* was doing and whatever was still in its queue.                          *)
(***************************************************************************)
DestroyEnds == mpc = "join" ~> mpc = "gone"

(***************************************************************************)
(* What event_loop.h says of the members whose names end in InLoop, and of *)
(* ProcessEventInLoop: they are called on one thread, the loop's own.      *)
(***************************************************************************)
InLoopOnOneThread == mpc = "inline" => wpc[target] # "dispatch"

=============================================================================
