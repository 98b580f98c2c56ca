------------------------------ MODULE EventLoop ------------------------------
(***************************************************************************)
(* One EventLoop and the TcpSessions registered with it: which sessions    *)
(* are watched, for what, and what each handler, callback and queued Event *)
(* does to that.                                                           *)
(*                                                                         *)
(* Everything here but event_queue_ and the shared_ptrs is touched by the  *)
(* loop's thread only, so a handler that calls no user code is one step;   *)
(* HandleRead is cut at its calls of ProcessData, where user code may Send *)
(* and Stop any session of the loop.  The other threads act between any    *)
(* two steps.  How a pushed Event wakes the loop up is module InformQueue; *)
(* which slot of the wheel an id is in, and when a session has timed out,  *)
(* is module TimingWheel: here a sweep may look at any ids of the wheel    *)
(* and may find any session timed out.                                     *)
(*                                                                         *)
(* A Clear of the user's may drop the user's reference to the session but  *)
(* does not call back into the loop.                                       *)
(***************************************************************************)
EXTENDS Integers, Sequences, FiniteSets

CONSTANTS
  Sessions,   \* the TcpSessions that are ever given to this loop
  NoSession,  \* no handler is being dispatched
  MaxQueue,   \* bound of the model: Events waiting in event_queue_
  MaxBuf      \* bound of the model: unsent writes there is memory for

ASSUME NoSessionAssumption == NoSession \notin Sessions
ASSUME BoundAssumption == MaxQueue \in Nat /\ MaxBuf \in Nat

VARIABLES
  made,         \* the sessions NewSession has created
  owned,        \* the sessions the user's code holds a shared_ptr to
  posting,      \* created, and still referenced by AddNewSession
  badfd,        \* created on the fd -1 of a failed accept4
  status,       \* EventHandler::status_ of each session
  handlers,     \* the keys of EventLoop::handlers_, a map to weak_ptrs
  wheel,        \* the ids in some slot of the timing wheel
  epfd,         \* the kernel's interest list: the events asked for each fd
  wbuf,         \* the writes in each write_buffer_ not sent in full yet
  event_queue,  \* EventLoop::event_queue_
  batch,        \* ep_events_: what is not handled yet, of the sessions
  special,      \* ep_events_: the same of inform_handler_, timer_handler_
  todo,         \* del_ids_: the ids CheckOvertime has still to look at
  pc,           \* where the loop's thread is
  cur,          \* the session being dispatched (DispatchAndProcess's eh)
  cleared,      \* history: Clear was called, and nothing was Sent since
  vain          \* history: asked for EPOLLOUT, with nothing to write
                \*   (a session in vain has an empty write_buffer_)

creation     == <<made, posting, badfd>>
registration == <<owned, status, handlers, wheel, epfd, cleared>>
buffers      == <<wbuf, vain>>
thread       == <<batch, special, todo, pc, cur>>

vars == <<creation, registration, buffers, event_queue, thread>>

READ == "EVENT_TYPE_READ"
WRITE == "EVENT_TYPE_WRITE"
EventTypes == {READ, WRITE}

\* EVENT_ACTION_REGISTER is only queued with EVENT_TYPE_READ (AddNewSession)
\* and EVENT_ACTION_REMOVE only with both types (Stop).  An Event names its
\* handler through a weak_ptr: it keeps nothing alive.
Events == [eh : Sessions, action : {"WRITE", "REGISTER", "REMOVE"}]

LoopStates ==
  {"poll",      \* in epoll_wait
   "dispatch",  \* between two entries of ep_events_
   "recv",      \* TcpSession::HandleRead of cur, before Recv
   "packets",   \* TcpSession::HandleRead of cur, in the loop over packets
   "out",       \* after the EPOLLIN part of the entry of cur
   "drain",     \* in ProcessEventInQueueInLoop
   "sweep"}     \* in CheckOvertime

\* weak_ptr::lock succeeds: somebody holds a shared_ptr to the session.  The
\* object is destroyed, and its fd closed, when the last one is dropped.
Alive(s) == s \in owned \/ s \in posting \/ s = cur

Destroyed(s) == s \in made /\ ~Alive(s)

\* What epoll_wait may report of a session: close(fd) ends the interest.
Watched(s) == IF Alive(s) THEN epfd[s] ELSE {}

-----------------------------------------------------------------------------
(* RegisterHandler, RemoveHandler and what they call.                       *)

\* epoll_ctl fails on a closed or negative fd, on adding an fd twice, and on
\* changing or removing one that is not there.  The callers ignore that.
EpollCtl(op, s, events) ==
  epfd' = IF s \notin badfd /\ (op = "ADD" <=> epfd[s] = {})
            THEN [epfd EXCEPT ![s] = events]
            ELSE epfd

\* A faulty RegisterHandler: SetEventStatus for AddEventStatus.
RegisterHandlerSets(s, et) ==
  LET first == status[s] = {}
  IN /\ status' = [status EXCEPT ![s] = et]
     /\ handlers' = IF first THEN handlers \cup {s} ELSE handlers
     /\ wheel' = IF first THEN wheel \cup {s} ELSE wheel
     /\ EpollCtl(IF first THEN "ADD" ELSE "MOD", s, et)
     /\ UNCHANGED owned

RegisterHandler(s, et) ==
  LET first == status[s] = {}
      wanted == status[s] \cup et
  IN /\ status' = [status EXCEPT ![s] = wanted]
     /\ handlers' = IF first THEN handlers \cup {s} ELSE handlers
     /\ wheel' = IF first THEN wheel \cup {s} ELSE wheel
     /\ EpollCtl(IF first THEN "ADD" ELSE "MOD", s, wanted)
     /\ UNCHANGED owned

\* A faulty RemoveHandler: RemoveTimingWheel is forgotten.
RemoveHandlerKeepsWheel(s, et) ==
  LET left == status[s] \ et
      last == left = {}
  IN /\ status' = [status EXCEPT ![s] = left]
     /\ handlers' = IF last THEN handlers \ {s} ELSE handlers
     /\ wheel' = wheel
     /\ cleared' = IF last THEN cleared \cup {s} ELSE cleared
     /\ owned' \in IF last THEN {owned, owned \ {s}} ELSE {owned}
     /\ EpollCtl(IF last THEN "DEL" ELSE "MOD", s, left)

RemoveHandler(s, et) ==
  LET left == status[s] \ et
      last == left = {}
  IN /\ status' = [status EXCEPT ![s] = left]
     /\ handlers' = IF last THEN handlers \ {s} ELSE handlers
     /\ wheel' = IF last THEN wheel \ {s} ELSE wheel
     /\ cleared' = IF last THEN cleared \cup {s} ELSE cleared
     /\ owned' \in IF last THEN {owned, owned \ {s}} ELSE {owned}
     /\ EpollCtl(IF last THEN "DEL" ELSE "MOD", s, left)

\* TcpSession::WriteInLoop and Buffer::Write: the data is stored, or there
\* is none (a Send of no bytes), or no memory for it, which nobody is told.
StoreData(s) ==
  \/ /\ wbuf[s] < MaxBuf
     /\ wbuf' = [wbuf EXCEPT ![s] = @ + 1]
     /\ vain' = vain \ {s}
  \/ /\ vain' = IF wbuf[s] = 0 THEN vain \cup {s} ELSE vain
     /\ UNCHANGED wbuf

\* ProcessEventInLoop of an EVENT_ACTION_WRITE: EPOLLOUT is asked for
\* whether there was anything to store or not.
WriteInLoop(s) ==
  /\ StoreData(s)
  /\ RegisterHandler(s, {WRITE})
  /\ cleared' = cleared \ {s}

ProcessEventInLoop(e) ==
  \/ e.action = "WRITE" /\ WriteInLoop(e.eh)
  \/ e.action = "REGISTER" /\ RegisterHandler(e.eh, {READ}) /\ UNCHANGED <<cleared, buffers>>
  \/ e.action = "REMOVE" /\ RemoveHandler(e.eh, EventTypes) /\ UNCHANGED buffers

-----------------------------------------------------------------------------

Init ==
  /\ made = {} /\ owned = {} /\ posting = {} /\ badfd = {}
  /\ status = [s \in Sessions |-> {}]
  /\ handlers = {} /\ wheel = {}
  /\ epfd = [s \in Sessions |-> {}]
  /\ wbuf = [s \in Sessions |-> 0]
  /\ event_queue = <<>>
  /\ batch = [s \in Sessions |-> {}]
  /\ special = {} /\ todo = {}
  /\ pc = "poll" /\ cur = NoSession
  /\ cleared = {} /\ vain = {}

(* The other threads: the acceptor's and those of the user.                 *)

\* AddNewSession: the user's NewSession builds a session on the accepted fd,
\* or on -1 if accept4 failed, and keeps a shared_ptr to it or not.
NewSession(s) ==
  /\ s \notin made
  /\ made' = made \cup {s}
  /\ posting' = posting \cup {s}
  /\ owned' \in {owned, owned \cup {s}}
  /\ badfd' \in {badfd, badfd \cup {s}}
  /\ UNCHANGED <<status, handlers, wheel, epfd, cleared, buffers,
                 event_queue, thread>>

\* ProcessEvent on another thread than the loop's.
PushEvent(s, action) ==
  /\ Len(event_queue) < MaxQueue
  /\ event_queue' = Append(event_queue, [eh |-> s, action |-> action])

\* AddNewSession: the EVENT_ACTION_REGISTER, after which eh is let go.
PostRegister(s) ==
  /\ s \in posting
  /\ PushEvent(s, "REGISTER")
  /\ posting' = posting \ {s}
  /\ UNCHANGED <<made, badfd, registration, buffers, thread>>

\* TcpSession::Send
UserSend(s) ==
  /\ s \in owned
  /\ PushEvent(s, "WRITE")
  /\ UNCHANGED <<creation, registration, buffers, thread>>

\* TcpSession::Stop
UserStop(s) ==
  /\ s \in owned
  /\ PushEvent(s, "REMOVE")
  /\ UNCHANGED <<creation, registration, buffers, thread>>

\* The user lets go of a session, in whatever state it is.
UserDrop(s) ==
  /\ s \in owned
  /\ owned' = owned \ {s}
  /\ UNCHANGED <<creation, status, handlers, wheel, epfd, cleared, buffers,
                 event_queue, thread>>

-----------------------------------------------------------------------------
(* DispatchAndProcess.                                                      *)

Poll ==
  /\ pc = "poll"
  /\ batch' \in [Sessions -> SUBSET EventTypes]
  /\ \A s \in Sessions : batch'[s] \subseteq Watched(s)
  /\ special' \in SUBSET {"inform", "timer"}
  /\ pc' = "dispatch"
  /\ UNCHANGED <<creation, registration, buffers, event_queue, todo, cur>>

\* The entry's id is not in handlers_ any more, or its weak_ptr is dead.
DispatchSkip(s) ==
  /\ pc = "dispatch"
  /\ batch[s] # {}
  /\ s \notin handlers \/ ~Alive(s)
  /\ batch' = [batch EXCEPT ![s] = {}]
  /\ UNCHANGED <<creation, registration, buffers, event_queue, special, todo, pc, cur>>

DispatchSession(s) ==
  /\ pc = "dispatch"
  /\ batch[s] # {}
  /\ s \in handlers
  /\ Alive(s)
  /\ cur' = s
  /\ pc' = IF READ \in batch[s] THEN "recv" ELSE "out"
  /\ UNCHANGED <<creation, registration, buffers, event_queue, batch, special, todo>>

BatchDone ==
  /\ pc = "dispatch"
  /\ \A s \in Sessions : batch[s] = {}
  /\ special = {}
  /\ pc' = "poll"
  /\ UNCHANGED <<creation, registration, buffers, event_queue, batch, special, todo, cur>>

\* HandleRead: Recv gives EAGAIN.
RecvAgain ==
  /\ pc = "recv"
  /\ pc' = "out"
  /\ UNCHANGED <<creation, registration, buffers, event_queue, batch, special, todo, cur>>

\* HandleRead: Recv gives data.
RecvData ==
  /\ pc = "recv"
  /\ pc' = "packets"
  /\ UNCHANGED <<creation, registration, buffers, event_queue, batch, special, todo, cur>>

\* HandleRead returns false: Recv gives 0 or an error, GetPacketLength gives
\* a negative length, or ProcessData fails.  The loop removes the handler
\* and goes on to the EPOLLOUT part of the same entry.
ReadFails ==
  /\ pc \in {"recv", "packets"}
  /\ RemoveHandler(cur, EventTypes)
  /\ pc' = "out"
  /\ UNCHANGED <<creation, buffers, event_queue, batch, special, todo, cur>>

\* HandleRead returns true: no complete packet is left in read_buffer_.
PacketsDone ==
  /\ pc = "packets"
  /\ pc' = "out"
  /\ UNCHANGED <<creation, registration, buffers, event_queue, batch, special, todo, cur>>

\* The user's ProcessData: Send and Stop on the loop's own thread are done
\* at once, to the session itself or to another one the user holds.
CallbackSend(t) ==
  /\ pc = "packets"
  /\ t \in owned \/ t = cur
  /\ WriteInLoop(t)
  /\ UNCHANGED <<creation, event_queue, thread>>

CallbackStop(t) ==
  /\ pc = "packets"
  /\ t \in owned \/ t = cur
  /\ RemoveHandler(t, EventTypes)
  /\ UNCHANGED <<creation, buffers, event_queue, thread>>

\* The entry of cur is done, the local shared_ptr eh goes out of scope.
EntryDone ==
  /\ batch' = [batch EXCEPT ![cur] = {}]
  /\ cur' = NoSession
  /\ pc' = "dispatch"
  /\ UNCHANGED <<special, todo>>

\* The entry has no EPOLLOUT.
NoWrite ==
  /\ pc = "out"
  /\ WRITE \notin batch[cur]
  /\ EntryDone
  /\ UNCHANGED <<creation, registration, buffers, event_queue>>

\* A faulty SendSome: EPOLLOUT stays asked for after the last write.
SendSomeKeepsWrite(n) ==
  /\ pc = "out"
  /\ WRITE \in batch[cur]
  /\ wbuf[cur] > 0
  /\ n <= wbuf[cur]
  /\ wbuf' = [wbuf EXCEPT ![cur] = @ - n]
  /\ EntryDone
  /\ UNCHANGED <<creation, registration, vain, event_queue>>

\* A faulty SendSome: EPOLLOUT is given up whether writes are left or not.
SendSomeStopsEarly(n) ==
  /\ pc = "out"
  /\ WRITE \in batch[cur]
  /\ wbuf[cur] > 0
  /\ n <= wbuf[cur]
  /\ wbuf' = [wbuf EXCEPT ![cur] = @ - n]
  /\ RemoveHandler(cur, {WRITE})
  /\ EntryDone
  /\ UNCHANGED <<creation, vain, event_queue>>

\* A faulty SendSome: more is taken for sent than was waiting.
SendSomeTooMuch(n) ==
  /\ pc = "out"
  /\ WRITE \in batch[cur]
  /\ wbuf' = [wbuf EXCEPT ![cur] = @ - n]
  /\ IF n = wbuf[cur] THEN RemoveHandler(cur, {WRITE})
                      ELSE UNCHANGED registration
  /\ EntryDone
  /\ UNCHANGED <<creation, vain, event_queue>>

\* HandleWrite: send takes n of the waiting writes in full (none, when it
\* takes only part of the first); once all are gone the session stops asking
\* for EPOLLOUT.
SendSome(n) ==
  /\ pc = "out"
  /\ WRITE \in batch[cur]
  /\ wbuf[cur] > 0
  /\ n <= wbuf[cur]
  /\ wbuf' = [wbuf EXCEPT ![cur] = @ - n]
  /\ IF n = wbuf[cur] THEN RemoveHandler(cur, {WRITE})
                      ELSE UNCHANGED registration
  /\ EntryDone
  /\ UNCHANGED <<creation, vain, event_queue>>

\* HandleWrite returns false: the loop removes the handler.
WriteFails ==
  /\ pc = "out"
  /\ WRITE \in batch[cur]
  /\ RemoveHandler(cur, EventTypes)
  /\ vain' = vain \ {cur}
  /\ EntryDone
  /\ UNCHANGED <<creation, wbuf, event_queue>>

\* HandleWrite: the socket's buffer is full.  errno is compared with EINTR
\* before EAGAIN and EWOULDBLOCK, so this fails like any other error.
SendAgain == WriteFails /\ wbuf[cur] > 0

\* HandleWrite: send gives an error, or 0 because nothing is waiting.
SendError == WriteFails

-----------------------------------------------------------------------------
(* inform_handler_ and timer_handler_.                                      *)

InformRead ==
  /\ pc = "dispatch"
  /\ "inform" \in special
  /\ special' = special \ {"inform"}
  /\ pc' = "drain"
  /\ UNCHANGED <<creation, registration, buffers, event_queue, batch, todo, cur>>

\* A faulty DrainEvent: the Event's handler is used without weak_ptr::lock.
DrainEventUnlocked ==
  /\ pc = "drain"
  /\ event_queue # <<>>
  /\ event_queue' = Tail(event_queue)
  /\ ProcessEventInLoop(Head(event_queue))
  /\ UNCHANGED <<creation, thread>>

\* ProcessEventInQueueInLoop: one Event is popped, and processed unless its
\* handler is gone.
DrainEvent ==
  /\ pc = "drain"
  /\ event_queue # <<>>
  /\ event_queue' = Tail(event_queue)
  /\ IF Alive(Head(event_queue).eh)
       THEN ProcessEventInLoop(Head(event_queue))
       ELSE UNCHANGED <<registration, buffers>>
  /\ UNCHANGED <<creation, thread>>

DrainDone ==
  /\ pc = "drain"
  /\ event_queue = <<>>
  /\ pc' = "dispatch"
  /\ UNCHANGED <<creation, registration, buffers, event_queue, batch, special, todo, cur>>

TimerRead ==
  /\ pc = "dispatch"
  /\ "timer" \in special
  /\ special' = special \ {"timer"}
  /\ pc' = "sweep"
  /\ UNCHANGED <<creation, registration, buffers, event_queue, batch, todo, cur>>

\* CheckOvertime: the ids of the next slot are copied to del_ids_.
NextSlot ==
  /\ pc = "sweep"
  /\ todo = {}
  /\ todo' \in SUBSET wheel \ {{}}
  /\ UNCHANGED <<creation, registration, buffers, event_queue, batch, special, pc, cur>>

\* CheckOvertime: an id without a live handler is forgotten.
SweepStale(s) ==
  /\ pc = "sweep"
  /\ s \in todo
  /\ s \notin handlers \/ ~Alive(s)
  /\ todo' = todo \ {s}
  /\ wheel' = wheel \ {s}
  /\ UNCHANGED <<creation, owned, status, handlers, epfd, cleared, buffers,
                 event_queue, batch, special, pc, cur>>

\* ResetTimingWheel: the session has read lately and moves to a later slot.
SweepFresh(s) ==
  /\ pc = "sweep"
  /\ s \in todo
  /\ s \in handlers
  /\ Alive(s)
  /\ todo' = todo \ {s}
  /\ wheel' = (wheel \ {s}) \cup {s}
  /\ UNCHANGED <<creation, owned, status, handlers, epfd, cleared, buffers,
                 event_queue, batch, special, pc, cur>>

\* ResetTimingWheel: the session has timed out and is stopped.
SweepTimeout(s) ==
  /\ pc = "sweep"
  /\ s \in todo
  /\ s \in handlers
  /\ Alive(s)
  /\ todo' = todo \ {s}
  /\ RemoveHandler(s, EventTypes)
  /\ UNCHANGED <<creation, buffers, event_queue, batch, special, pc, cur>>

SweepDone ==
  /\ pc = "sweep"
  /\ todo = {}
  /\ pc' = "dispatch"
  /\ UNCHANGED <<creation, registration, buffers, event_queue, batch, special, todo, cur>>

-----------------------------------------------------------------------------

OtherThreads ==
  \E s \in Sessions :
    NewSession(s) \/ PostRegister(s) \/ UserSend(s) \/ UserStop(s) \/ UserDrop(s)

HandleRead ==
  \/ RecvAgain \/ RecvData \/ ReadFails \/ PacketsDone
  \/ \E t \in Sessions : CallbackSend(t) \/ CallbackStop(t)

HandleWrite == SendAgain \/ SendError \/ \E n \in 0..MaxBuf : SendSome(n)

CheckOvertime ==
  \/ TimerRead \/ NextSlot \/ SweepDone
  \/ \E s \in Sessions : SweepStale(s) \/ SweepFresh(s) \/ SweepTimeout(s)

ProcessEventInQueueInLoop == InformRead \/ DrainEvent \/ DrainDone

Dispatch ==
  \/ Poll \/ BatchDone \/ NoWrite
  \/ \E s \in Sessions : DispatchSkip(s) \/ DispatchSession(s)

Next ==
  \/ OtherThreads
  \/ Dispatch \/ HandleRead \/ HandleWrite
  \/ ProcessEventInQueueInLoop \/ CheckOvertime

Spec == Init /\ [][Next]_vars

-----------------------------------------------------------------------------

TypeOK ==
  /\ made \subseteq Sessions /\ owned \subseteq made
  /\ posting \subseteq made /\ badfd \subseteq made
  /\ status \in [Sessions -> SUBSET EventTypes]
  /\ handlers \subseteq Sessions /\ wheel \subseteq Sessions
  /\ epfd \in [Sessions -> SUBSET EventTypes]
  /\ wbuf \in [Sessions -> Nat]
  /\ event_queue \in Seq(Events)
  /\ batch \in [Sessions -> SUBSET EventTypes]
  /\ special \subseteq {"inform", "timer"}
  /\ todo \subseteq Sessions
  /\ pc \in LoopStates
  /\ cur \in IF pc \in {"recv", "packets", "out"} THEN Sessions ELSE {NoSession}
  /\ cleared \subseteq made /\ vain \subseteq made

(***************************************************************************)
(* The four records of a registration agree: the status_ of a session, its *)
(* entry in handlers_, its id in the timing wheel and what the kernel      *)
(* watches of its fd.  RegisterHandler and RemoveHandler choose between    *)
(* ADD, MOD and DEL from status_ alone and ignore what epoll_ctl answers,  *)
(* so nothing else keeps them together, through repeated removals,         *)
(* removals of sessions that were never registered and returns after one.  *)
(* Only a destroyed session may have left the wheel and stay in handlers_, *)
(* and only a session on a bad fd is registered but not watched.           *)
(***************************************************************************)
Coherent ==
  /\ \A s \in Sessions : s \in handlers <=> status[s] # {}
  /\ \A s \in Sessions : epfd[s] = IF s \in badfd THEN {} ELSE status[s]
  /\ wheel \subseteq handlers
  /\ \A s \in handlers \ wheel : Destroyed(s)

(***************************************************************************)
(* EPOLLOUT is asked for, or still to be handled, only while there is      *)
(* something to write, or after a Send that stored nothing (no bytes, or   *)
(* no memory, a failure WriteInLoop ignores).  HandleWrite on an empty     *)
(* buffer calls send with length 0, takes its 0 for an error and closes    *)
(* the session: sending, removals, late entries of ep_events_ and          *)
(* re-registration never bring a session there, such a Send alone does.    *)
(***************************************************************************)
NoEmptyWrite ==
  \A s \in Sessions :
    WRITE \in status[s] \cup batch[s] => wbuf[s] > 0 \/ s \in vain

(***************************************************************************)
(* The entries of ep_events_ are acted on after other handlers and         *)
(* callbacks have run.  What they report is what the session asks for when *)
(* epoll_wait returns, and only the session's leaving handlers_ in the     *)
(* same round ever makes an entry stale: a session that was registered     *)
(* again after an earlier removal has current entries like any other, and  *)
(* a late Send, a second registration or a write never makes one stale.    *)
(***************************************************************************)
Stale(s) == ~(batch[s] \subseteq status[s])

BatchIsCurrent ==
  [][\A s \in Sessions : Stale(s)' => Stale(s) \/ s \in handlers \ handlers']_vars

(***************************************************************************)
(* Data put in a write_buffer_ has EPOLLOUT asked for until it is sent or  *)
(* the session is removed, whatever order Sends, registrations and writes  *)
(* come in: a Send that is handled before the registration counts, and so  *)
(* does one that is handled after the removal and registers the session    *)
(* again, with what was left in its buffer.                                *)
(***************************************************************************)
PendingIsWatched ==
  \A s \in Sessions \ cleared : wbuf[s] > 0 => WRITE \in status[s]

(***************************************************************************)
(* Nothing the loop holds by id or by weak_ptr - an entry of ep_events_,   *)
(* an Event in the queue, an id in the wheel - touches a session after the *)
(* last shared_ptr to it is gone: its status_ and buffer stay as they are, *)
(* and no destroyed session enters handlers_, the wheel or epfd_.  The     *)
(* comment in ProcessEvent fears such wild pointers.                       *)
(***************************************************************************)
DestroyedUntouched ==
  [][\A s \in Sessions : Destroyed(s) =>
       /\ Destroyed(s)'
       /\ status'[s] = status[s] /\ wbuf'[s] = wbuf[s] /\ epfd'[s] = epfd[s]
       /\ s \in handlers' => s \in handlers
       /\ s \in wheel' => s \in wheel]_vars

(***************************************************************************)
(* What event_loop.h says of RegisterHandler: the events a handler listens *)
(* for are registered in epfd_.                                            *)
(***************************************************************************)
RegisteredIsWatched ==
  \A s \in handlers : Alive(s) => epfd[s] = status[s]

(***************************************************************************)
(* What TcpSession::HandleWrite says of a full socket: write again next    *)
(* time.  The session then stays registered with its data.                 *)
(***************************************************************************)
AgainRetries == [][SendAgain => status' = status]_vars

=============================================================================
