------------------------------ MODULE AcceptLoop ------------------------------
(***************************************************************************)
(* A TcpServer without loop threads, from the construction of its Acceptor *)
(* to its destruction: the acceptor and the sessions share accept_loop_ on *)
(* the thread that calls DoAcceptLoopOnce.  What is looked at is what the  *)
(* other modules take for granted: the descriptors, which the kernel gives *)
(* out again as soon as they are closed, and the ids, which EventHandler   *)
(* takes from a counter that wraps.                                        *)
(*                                                                         *)
(* A handler is the value ID_COUNT would have if it did not wrap; the file *)
(* behind a descriptor is the handler it was opened for.  EVENT_TYPE_READ  *)
(* and EVENT_TYPE_WRITE are not told apart here (see EventLoop), and the   *)
(* InformHandler and the TimerHandler of the loop only take their ids.     *)
(***************************************************************************)
EXTENDS Integers, Sequences, Functions

CONSTANTS
  MaxFd,    \* the largest descriptor the process may open
  IdCount,  \* how many values uint32_t id_ has
  MaxId     \* bound of the model: handlers that are made

ASSUME MaxFdAssumption == MaxFd \in Nat
ASSUME IdCountAssumption == IdCount \in Nat \ {0}
ASSUME MaxIdAssumption == MaxId \in Nat /\ MaxId >= 3

VARIABLES
  file,      \* the file behind each descriptor
  interest,  \* epfd_: the id the kernel keeps with each descriptor it watches
  ID_COUNT,  \* how many handlers were made
  fd_,       \* Socket::fd_ of each live handler
  kept,      \* the sessions the user holds a shared_ptr to
  status,    \* the handlers whose status_ is not EVENT_TYPE_DEFAULT
  handlers,  \* EventLoop::handlers_, from ids to weak pointers
  pc,        \* where the thread is
  todo,      \* the calls that Socket::Listen has left
  batch,     \* the entries of ep_events_ left, with the file each is about
  serving    \* eh of DispatchAndProcess, and the file of its entry

descriptors == <<file, interest, fd_, kept, status, handlers>>
vars == <<descriptors, ID_COUNT, pc, todo, batch, serving>>

Fds == 0..MaxFd
NoFd == -1
Free == 0    \* no file
Other == -1  \* a file of another part of the program
Acceptor == 1
Live == DOMAIN fd_

States ==
  {"listen",    \* in Socket::Listen, for the constructor of Acceptor
   "outside",   \* outside DoAcceptLoopOnce
   "dispatch",  \* in DispatchAndProcess, between two entries
   "serving",   \* in HandleRead or HandleWrite of a handler
   "release",   \* in DispatchAndProcess, about to drop eh
   "gone",      \* the server is destroyed
   "aborted"}   \* the constructor of Acceptor has called abort()

UserRuns == pc \in {"outside", "serving", "gone"}

\* A faulty Id: the descriptor stands for the handler.
IdIsFd(h) == IF h \in DOMAIN fd_ THEN fd_[h] ELSE h

\* A faulty Id: it has gone through a narrower type.
IdNarrow(h) == h % ((IdCount + 1) \div 2)

\* A faulty Id: 0 is skipped by counting one further.
IdSkipsZero(h) == IF h % IdCount = 0 THEN IdCount ELSE h % IdCount

\* id_ of a handler, ++ID_COUNT when it was made.
Id(h) == h % IdCount

\* What socket, accept4 and open give: the smallest free descriptor.
NewFd ==
  IF \A n \in Fds : file[n] # Free THEN NoFd
  ELSE CHOOSE n \in Fds : file[n] = Free /\ \A m \in 0..(n - 1) : file[m] # Free

-----------------------------------------------------------------------------

With(f, x, y) == [z \in DOMAIN f \cup {x} |-> IF z = x THEN y ELSE f[z]]
Without(f, x) == Restrict(f, DOMAIN f \ {x})

\* A faulty Destroy: the socket of the session is forgotten, not deleted.
DestroyForgets(h) ==
  /\ UNCHANGED <<file, interest>>
  /\ fd_' = Without(fd_, h)
  /\ status' = status \ {h}

\* ~Socket of a handler: the kernel ends its interest in what is closed.
Destroy(h) ==
  /\ IF fd_[h] > 0
     THEN /\ file' = [file EXCEPT ![fd_[h]] = Free]
          /\ interest' = Without(interest, fd_[h])
     ELSE UNCHANGED <<file, interest>>
  /\ fd_' = Without(fd_, h)
  /\ status' = status \ {h}

\* RegisterHandler, of a handler that is not registered and whose descriptor is
\* n; epoll_ctl fails if n is -1 or watched already.
RegisterHandler(h, n) ==
  /\ status' = status \cup {h}
  /\ handlers' = With(handlers, Id(h), h)
  /\ interest' = IF n = NoFd \/ n \in DOMAIN interest THEN interest
                 ELSE With(interest, n, Id(h))

\* A faulty RemoveHandler: without EPOLL_CTL_DEL.
RemoveHandlerKeepsInterest(h) ==
  /\ status' = status \ {h}
  /\ handlers' = Without(handlers, Id(h))
  /\ UNCHANGED interest

\* RemoveHandler, for both event types.
RemoveHandler(h) ==
  /\ status' = status \ {h}
  /\ handlers' = Without(handlers, Id(h))
  /\ interest' = Without(interest, fd_[h])

-----------------------------------------------------------------------------

ListenCalls == {"nonblock", "reuse", "bind", "sndbuf", "rcvbuf", "listen"}

\* The program may have closed its standard input, and SNDBUF and RCVBUF may be 0.
Init ==
  /\ file \in {[n \in Fds |-> IF n \in used THEN Other ELSE Free] :
                 used \in {{}, {0}}}
  /\ interest = <<>> /\ fd_ = <<>> /\ handlers = <<>>
  /\ kept = {} /\ status = {} /\ batch = {}
  /\ ID_COUNT = 0
  /\ pc = "listen"
  /\ \E snd \in {<<>>, <<"sndbuf">>}, rcv \in {<<>>, <<"rcvbuf">>} :
       todo = <<"nonblock", "reuse", "bind">> \o snd \o rcv \o <<"listen">>
  /\ serving = <<0, 0>>

\* CreateFd, whose test for failure compares -1 with 0.
CreateFd ==
  /\ pc = "listen" /\ ID_COUNT = 0
  /\ ID_COUNT' = Acceptor
  /\ fd_' = With(fd_, Acceptor, NewFd)
  /\ file' = IF NewFd = NoFd THEN file ELSE [file EXCEPT ![NewFd] = Acceptor]
  /\ UNCHANGED <<interest, kept, status, handlers, pc, todo, batch, serving>>

\* A faulty ListenCall: what the call returns is not looked at.
ListenCallUnchecked ==
  /\ pc = "listen" /\ ID_COUNT = Acceptor
  /\ todo # <<>>
  /\ todo' = Tail(todo)
  /\ UNCHANGED <<descriptors, ID_COUNT, pc, batch, serving>>

\* SetNonblock, SetReuseAddr, Bind, SetSndBufSize, SetRcvBufSize or Listen.
ListenCall ==
  /\ pc = "listen" /\ ID_COUNT = Acceptor
  /\ todo # <<>> /\ fd_[Acceptor] # NoFd
  /\ todo' = Tail(todo)
  /\ UNCHANGED <<descriptors, ID_COUNT, pc, batch, serving>>

\* One of them fails: the Socket is deleted and Acceptor aborts.
ListenFails ==
  /\ pc = "listen" /\ ID_COUNT = Acceptor
  /\ todo # <<>>
  /\ Destroy(Acceptor)
  /\ pc' = "aborted"
  /\ UNCHANGED <<kept, handlers, ID_COUNT, todo, batch, serving>>

\* Start, with no loop threads: accept_loop_ is made, with an InformHandler
\* and a TimerHandler, and the acceptor is registered with it.
Start ==
  /\ pc = "listen" /\ ID_COUNT = Acceptor
  /\ todo = <<>>
  /\ ID_COUNT' = ID_COUNT + 2
  /\ RegisterHandler(Acceptor, fd_[Acceptor])
  /\ pc' = "outside"
  /\ UNCHANGED <<file, fd_, kept, todo, batch, serving>>

\* DoAcceptLoopOnce: epoll_wait reports some of what is watched.
Poll ==
  /\ pc = "outside"
  /\ \E ready \in SUBSET DOMAIN interest \ {{}} :
       batch' = {[id |-> interest[n], file |-> file[n]] : n \in ready}
  /\ pc' = "dispatch"
  /\ UNCHANGED <<descriptors, ID_COUNT, todo, serving>>

Found(id) == id \in DOMAIN handlers /\ handlers[id] \in Live

\* The entry's id is not in handlers_, or lock() gives nothing.
DispatchSkip(e) ==
  /\ pc = "dispatch"
  /\ ~ Found(e.id)
  /\ batch' = batch \ {e}
  /\ UNCHANGED <<descriptors, ID_COUNT, pc, todo, serving>>

Dispatch(e) ==
  /\ pc = "dispatch"
  /\ Found(e.id)
  /\ serving' = <<handlers[e.id], e.file>>
  /\ batch' = batch \ {e}
  /\ pc' = "serving"
  /\ UNCHANGED <<descriptors, ID_COUNT, todo>>

BatchDone ==
  /\ pc = "dispatch"
  /\ batch = {}
  /\ pc' = "outside"
  /\ UNCHANGED <<descriptors, ID_COUNT, todo, batch, serving>>

\* Acceptor::HandleRead: AddNewSession on what accept4 gave, be it -1.
AddNewSession(n) ==
  /\ pc = "serving" /\ serving[1] = Acceptor
  /\ ID_COUNT < MaxId
  /\ LET new == ID_COUNT + 1 IN
       /\ ID_COUNT' = new
       /\ fd_' = With(fd_, new, n)
       /\ file' = IF n = NoFd THEN file ELSE [file EXCEPT ![n] = new]
       /\ kept' = kept \cup {new}
       /\ RegisterHandler(new, n)
  /\ pc' = "release"
  /\ UNCHANGED <<todo, batch, serving>>

\* Accept fails when the client has gone or no descriptor is left.
Accept == AddNewSession(NewFd)
AcceptFails == NewFd # NoFd /\ AddNewSession(NoFd)

\* The handlers of a session return, and do not ask for its removal.
HandlerReturns ==
  /\ pc = "serving" /\ serving[1] # Acceptor
  /\ pc' = "release"
  /\ UNCHANGED <<descriptors, ID_COUNT, todo, batch, serving>>

\* One of them returns false.
HandlerFails ==
  /\ pc = "serving" /\ serving[1] # Acceptor
  /\ RemoveHandler(serving[1])
  /\ pc' = "release"
  /\ UNCHANGED <<file, fd_, kept, ID_COUNT, todo, batch, serving>>

\* eh goes out of scope, and the session with it if the user has dropped it.
Release ==
  /\ pc = "release"
  /\ pc' = "dispatch"
  /\ serving' = <<0, 0>>
  /\ IF serving[1] \in kept \cup {Acceptor}
     THEN UNCHANGED descriptors
     ELSE Destroy(serving[1]) /\ UNCHANGED <<kept, handlers>>
  /\ UNCHANGED <<ID_COUNT, todo, batch>>

\* TcpSession::Stop.
UserStop(s) ==
  /\ UserRuns
  /\ RemoveHandler(s)
  /\ UNCHANGED <<file, fd_, kept, ID_COUNT, pc, todo, batch, serving>>

\* TcpSession::Send, which registers a removed session again.
UserSend(s) ==
  /\ UserRuns
  /\ s \notin status
  /\ RegisterHandler(s, fd_[s])
  /\ UNCHANGED <<file, fd_, kept, ID_COUNT, pc, todo, batch, serving>>

\* The user lets go of a session; eh may still hold it.
UserDrop(s) ==
  /\ UserRuns
  /\ kept' = kept \ {s}
  /\ IF pc = "serving" /\ serving[1] = s
     THEN UNCHANGED <<file, interest, fd_, status>>
     ELSE Destroy(s)
  /\ UNCHANGED <<handlers, ID_COUNT, pc, todo, batch, serving>>

\* ~TcpServer; the sessions keep accept_loop_ alive.
Close ==
  /\ pc = "outside"
  /\ Destroy(Acceptor)
  /\ pc' = "gone"
  /\ UNCHANGED <<kept, handlers, ID_COUNT, todo, batch, serving>>

\* Other parts of the program open and close files, on any thread.
OtherOpens ==
  /\ pc # "aborted"
  /\ NewFd # NoFd
  /\ file' = [file EXCEPT ![NewFd] = Other]
  /\ UNCHANGED <<interest, fd_, kept, status, handlers, ID_COUNT, pc, todo, batch, serving>>

OtherCloses(n) ==
  /\ pc # "aborted"
  /\ file[n] = Other
  /\ file' = [file EXCEPT ![n] = Free]
  /\ UNCHANGED <<interest, fd_, kept, status, handlers, ID_COUNT, pc, todo, batch, serving>>

Aborted == pc = "aborted" /\ UNCHANGED vars

Next ==
  \/ CreateFd \/ ListenCall \/ ListenFails \/ Start
  \/ Poll \/ (\E e \in batch : DispatchSkip(e) \/ Dispatch(e)) \/ BatchDone
  \/ Accept \/ AcceptFails \/ HandlerReturns \/ HandlerFails \/ Release
  \/ \E s \in kept : UserStop(s) \/ UserSend(s) \/ UserDrop(s)
  \/ Close \/ OtherOpens \/ (\E n \in Fds : OtherCloses(n)) \/ Aborted

Spec == Init /\ [][Next]_vars

-----------------------------------------------------------------------------

Handlers == 1..MaxId
Ids == 0..(IdCount - 1)

\* Every variable keeps its type.
TypeOK ==
  /\ file \in [Fds -> Handlers \cup {Free, Other}]
  /\ DOMAIN interest \subseteq Fds /\ Range(interest) \subseteq Ids
  /\ ID_COUNT \in 0..MaxId
  /\ Live \subseteq 1..ID_COUNT /\ Range(fd_) \subseteq Fds \cup {NoFd}
  /\ kept \subseteq Live /\ status \subseteq Live
  /\ DOMAIN handlers \subseteq Ids /\ Range(handlers) \subseteq 1..ID_COUNT
  /\ pc \in States
  /\ todo \in Seq(ListenCalls)
  /\ batch \subseteq [id : Ids, file : Handlers]
  /\ serving \in (Handlers \cup {0}) \X (Handlers \cup {0})

(***************************************************************************)
(* Sockets own their descriptors: a Socket's descriptor is open for it     *)
(* until it is destroyed, and no descriptor stays open for a Socket that   *)
(* is gone, but descriptor 0: ~Socket does not close it.                   *)
(***************************************************************************)
OwnFds ==
  /\ \A h \in Live : fd_[h] = NoFd \/ file[fd_[h]] = h
  /\ \A n \in Fds \ {0} : file[n] \in {Free, Other} \cup Live

(***************************************************************************)
(* Once it is built, an Acceptor has a descriptor of its own, though       *)
(* CreateFd does not notice when there is none.                            *)
(***************************************************************************)
AcceptorListens ==
  pc \notin {"listen", "gone", "aborted"} =>
    Acceptor \in Live /\ fd_[Acceptor] # NoFd

(***************************************************************************)
(* The kernel watches the descriptors of the registered handlers, each     *)
(* with the id of its handler, and no other, however they were removed,    *)
(* destroyed and given out again; but a descriptor 0 whose session is gone *)
(* stays watched.                                                          *)
(***************************************************************************)
InterestIsCurrent ==
  /\ \A h \in status : fd_[h] # NoFd =>
       fd_[h] \in DOMAIN interest /\ interest[fd_[h]] = Id(h)
  /\ \A n \in DOMAIN interest \ {0} : \E h \in status : fd_[h] = n

(***************************************************************************)
(* An entry of the batch is served by the handler whose file the kernel    *)
(* reported, though sessions may have gone and their descriptors have been *)
(* given to new ones since epoll_wait returned; it takes a whole turn of   *)
(* ID_COUNT to confuse two.                                                *)
(***************************************************************************)
ServedAsReported ==
  pc = "serving" =>
    \/ serving[1] = serving[2]
    \/ serving[1] >= serving[2] + IdCount
    \/ serving[2] >= serving[1] + IdCount

\* Another handler was made with the id of h: ID_COUNT has wrapped.
IdReused(h) == \E g \in 1..ID_COUNT : g # h /\ (g - h) % IdCount = 0

(***************************************************************************)
(* handlers_ leads from the id of a registered handler to that handler,    *)
(* unless ID_COUNT has wrapped around to that id: then one may replace or  *)
(* erase the other.                                                        *)
(***************************************************************************)
FoundById ==
  \A h \in status :
    (Id(h) \in DOMAIN handlers /\ handlers[Id(h)] = h) \/ IdReused(h)

=============================================================================
