----------------------------- MODULE PacketWriter -----------------------------
(***************************************************************************)
(* The write path of a TcpSession on its loop's thread: WriteInLoop puts a *)
(* message in write_buffer_, which grows for it if it can, and EPOLLOUT is *)
(* asked for; HandleWrite hands some of the buffer to send, gives EPOLLOUT *)
(* up when nothing is left, and moves the rest to the front.               *)
(*                                                                         *)
(* WriteInLoop does not look at what Buffer::Write returns: a message for  *)
(* which there is no memory is gone, and EPOLLOUT is asked for all the     *)
(* same, as it is for a message of no bytes.  A byte is its place among    *)
(* those that were stored.  The other things that happen to a session are  *)
(* in module EventLoop.                                                    *)
(***************************************************************************)
EXTENDS Buffer

CONSTANTS
  Lengths,  \* the lengths of the messages
  MaxPut    \* bound of the model: bytes that are stored

ASSUME LengthsAssumption == Lengths \subseteq Nat
ASSUME MaxPutAssumption == MaxPut \in Nat

VARIABLES
  put,       \* how many bytes were stored
  len,       \* the length of the message that Buffer::Write is given
  watching,  \* EPOLLOUT is asked for
  removed,   \* HandleWrite returned false and the session is not registered since
  pc,        \* where the loop's thread is
  wire,      \* history: the bytes that send has taken, in order
  vain       \* history: EPOLLOUT was asked for without a byte to store for it

vars == <<buffer, put, len, watching, removed, pc, wire, vain>>

WriterStates ==
  {"idle",    \* outside WriteInLoop and HandleWrite
   "write",   \* in Buffer::Write
   "adjust"}  \* in HandleWrite, after send

Init ==
  /\ InitBuffer
  /\ put = 0 /\ len = 0
  /\ watching = FALSE /\ removed = FALSE
  /\ pc = "idle"
  /\ wire = <<>>
  /\ vain = FALSE

\* RegisterHandler(eh, EVENT_TYPE_WRITE), after which a removed session is
\* registered again.
RegisterWrite ==
  /\ watching' = TRUE
  /\ removed' = FALSE

\* WriteInLoop calls Buffer::Write.
WriteInLoop(n) ==
  /\ pc = "idle"
  /\ put + n <= MaxPut
  /\ len' = n
  /\ pc' = "write"
  /\ UNCHANGED <<buffer, put, watching, removed, wire, vain>>

\* A turn of Buffer::Write's loop, in which Grow succeeds.
WriteGrows ==
  /\ pc = "write"
  /\ Space < len
  /\ CanGrow
  /\ Grow
  /\ UNCHANGED <<put, len, watching, removed, pc, wire, vain>>

\* Grow fails and Buffer::Write returns false; RegisterHandler follows.
WriteDrops ==
  /\ pc = "write"
  /\ Space < len
  /\ ~CanGrow
  /\ vain' = TRUE
  /\ RegisterWrite
  /\ pc' = "idle"
  /\ UNCHANGED <<buffer, put, len, wire>>

\* A faulty WriteStores: a message is stored where it starts to fit.
WriteStoresEarly ==
  /\ pc = "write"
  /\ Space > 0
  /\ Store(Stretch(put, len), len)
  /\ put' = put + len
  /\ RegisterWrite
  /\ pc' = "idle"
  /\ UNCHANGED <<len, wire, vain>>

\* There is room: memcpy and WriteDone; RegisterHandler follows.
WriteStores ==
  /\ pc = "write"
  /\ Space >= len
  /\ Store(Stretch(put, len), len)
  /\ put' = put + len
  /\ vain' = (vain \/ len = 0)
  /\ RegisterWrite
  /\ pc' = "idle"
  /\ UNCHANGED <<len, wire>>

\* A faulty SendSome: EPOLLOUT is not given up.
SendSomeKeepsWrite(n) ==
  /\ pc = "idle"
  /\ watching
  /\ n <= Unread
  /\ wire' = wire \o Front(n)
  /\ ReadDone(n)
  /\ pc' = "adjust"
  /\ UNCHANGED <<put, len, watching, removed, vain>>

\* A faulty SendSome: EPOLLOUT is given up whatever is left.
SendSomeOnce(n) ==
  /\ pc = "idle"
  /\ watching
  /\ n <= Unread
  /\ wire' = wire \o Front(n)
  /\ ReadDone(n)
  /\ watching' = FALSE
  /\ pc' = "adjust"
  /\ UNCHANGED <<put, len, removed, vain>>

\* A faulty SendSome: all that waits is taken to be sent.
SendSomeAll(n) ==
  /\ pc = "idle"
  /\ watching
  /\ n <= Unread
  /\ wire' = wire \o Front(n)
  /\ ReadDone(Unread)
  /\ watching' = FALSE
  /\ pc' = "adjust"
  /\ UNCHANGED <<put, len, removed, vain>>

\* HandleWrite: send takes n bytes; EVENT_ACTION_REMOVE when none is left.
SendSome(n) ==
  /\ pc = "idle"
  /\ watching
  /\ n <= Unread
  /\ wire' = wire \o Front(n)
  /\ ReadDone(n)
  /\ watching' = (n < Unread)
  /\ pc' = "adjust"
  /\ UNCHANGED <<put, len, removed, vain>>

\* HandleWrite, after send.
AdjustAfterSend ==
  /\ pc = "adjust"
  /\ Adjust
  /\ pc' = "idle"
  /\ UNCHANGED <<put, len, watching, removed, wire, vain>>

\* send gives an error, a full socket included, or takes 0 bytes because the
\* buffer is empty: HandleWrite returns false and the loop removes the session.
\* What waits stays in the buffer, and a later Send registers it again.
SendFails ==
  /\ pc = "idle"
  /\ watching
  /\ watching' = FALSE
  /\ removed' = TRUE
  /\ UNCHANGED <<buffer, put, len, pc, wire, vain>>

\* HandleWrite, when EPOLLOUT is reported.
HandleWrite == (\E n \in 1..MaxPut : SendSome(n)) \/ SendFails

Next ==
  \/ \E n \in Lengths : WriteInLoop(n)
  \/ WriteGrows \/ WriteDrops \/ WriteStores
  \/ HandleWrite \/ AdjustAfterSend

(***************************************************************************)
(* The thread goes on inside WriteInLoop and HandleWrite, and a loop that  *)
(* returns to epoll_wait time and again, whatever it is asked to write in  *)
(* between, comes to handle EPOLLOUT.  That it is reported is up to the    *)
(* peer: one that reads nothing is taken to fail in the end.               *)
(***************************************************************************)
Fairness ==
  /\ WF_vars(WriteGrows \/ WriteDrops \/ WriteStores \/ AdjustAfterSend)
  /\ SF_vars(HandleWrite)

Spec == Init /\ [][Next]_vars /\ Fairness

-----------------------------------------------------------------------------

TypeOK ==
  /\ BufferTypeOK
  /\ put \in 0..MaxPut
  /\ len \in Lengths \cup {0}
  /\ watching \in BOOLEAN /\ removed \in BOOLEAN
  /\ pc \in WriterStates
  /\ wire \in Seq(Nat)
  /\ vain \in BOOLEAN

Queue == INSTANCE ByteQueue WITH queue <- Front(Unread)

(***************************************************************************)
(* The buffer with its indices, growing and moving, is a queue of bytes:   *)
(* what is stored goes out once and in order.                              *)
(***************************************************************************)
ImplementsQueue == Queue!Spec

\* What was sent and what waits is what was stored, once and in order.
SentInOrder == Queue!SentInOrder

(***************************************************************************)
(* EPOLLOUT is asked for if something waits, unless the session was        *)
(* removed, and only then, unless a message was dropped or had no bytes:   *)
(* after that the session may ask for EPOLLOUT with nothing to write, and  *)
(* the next HandleWrite closes it.                                         *)
(***************************************************************************)
WatchedWhileWaiting ==
  /\ Unread > 0 => watching \/ removed
  /\ watching => Unread > 0 \/ vain

(***************************************************************************)
(* The bytes that were sent are given back before the next message comes:  *)
(* Buffer::Write fails only when the message and what waits do not fit in  *)
(* the largest block, not because of what went out before.                 *)
(***************************************************************************)
DropsOnlyWhenFull ==
  [][pc = "write" /\ pc' = "idle" /\ put' < put + len =>
       2 * size > MaxSize /\ Unread + len > size]_vars

(***************************************************************************)
(* Every byte that is stored goes out in the end, unless the session is    *)
(* removed first: no partial send, growth or empty message makes it wait   *)
(* for ever.                                                               *)
(***************************************************************************)
SentOrRemoved ==
  \A n \in 1..MaxPut : put >= n ~> Len(wire) >= n \/ removed

=============================================================================
