--------------------------- MODULE EventLoopProofs ---------------------------
(***************************************************************************)
(* Proofs about the registrations of an EventLoop, for any set of sessions *)
(* and any bounds.  The properties support each other: an entry that       *)
(* epoll_wait reports has something to write because the interest list     *)
(* agrees with status_, and the interest list agrees because the two       *)
(* operators that change it choose ADD, MOD or DEL from a status_ that     *)
(* agreed before.  They are therefore one invariant, with the fact that    *)
(* nothing is done to a session before NewSession has made it.             *)
(***************************************************************************)
EXTENDS EventLoop, SequenceTheorems, TLAPS

Untouched ==
  /\ cur \in made \cup {NoSession}
  /\ \A s \in Sessions \ made : status[s] = {}

IInv ==
  /\ TypeOK
  /\ Untouched
  /\ Coherent
  /\ NoEmptyWrite
  /\ PendingIsWatched

-----------------------------------------------------------------------------

(***************************************************************************)
(* What RegisterHandler does to a coherent registration.                   *)
(***************************************************************************)
LEMMA RegisterKeeps ==
  ASSUME TypeOK, Coherent,
         NEW s \in made, NEW et \in SUBSET EventTypes, et # {},
         RegisterHandler(s, et)
  PROVE  /\ status' = [status EXCEPT ![s] = @ \cup et]
         /\ status' \in [Sessions -> SUBSET EventTypes]
         /\ epfd' \in [Sessions -> SUBSET EventTypes]
         /\ \A t \in Sessions : epfd'[t] = IF t \in badfd THEN {} ELSE status'[t]
         /\ handlers' \subseteq Sessions /\ wheel' \subseteq handlers'
         /\ \A t \in Sessions : t \in handlers' <=> status'[t] # {}
         /\ handlers' \ wheel' \subseteq handlers \ wheel
         /\ owned' = owned
<1>1. s \in Sessions
  BY DEF TypeOK
<1>2. /\ status' = [status EXCEPT ![s] = @ \cup et]
      /\ status' \in [Sessions -> SUBSET EventTypes]
  BY DEF RegisterHandler, TypeOK
<1>3. /\ epfd' \in [Sessions -> SUBSET EventTypes]
      /\ \A t \in Sessions : epfd'[t] = IF t \in badfd THEN {} ELSE status'[t]
  <2>1. CASE s \in badfd
    <3>1. epfd' = epfd
      BY <2>1 DEF RegisterHandler, EpollCtl
    <3> QED
      BY <1>1, <1>2, <2>1, <3>1 DEF TypeOK, Coherent
  <2>2. CASE s \notin badfd
    <3>1. epfd[s] = status[s]
      BY <1>1, <2>2 DEF Coherent
    <3>2. epfd' = [epfd EXCEPT ![s] = status[s] \cup et]
      BY <2>2, <3>1 DEF RegisterHandler, EpollCtl
    <3> QED
      BY <1>1, <1>2, <2>2, <3>2 DEF TypeOK, Coherent
  <2> QED
    BY <2>1, <2>2
<1>4. /\ handlers' \subseteq Sessions /\ wheel' \subseteq handlers'
      /\ \A t \in Sessions : t \in handlers' <=> status'[t] # {}
      /\ handlers' \ wheel' \subseteq handlers \ wheel
  BY <1>1, <1>2 DEF RegisterHandler, TypeOK, Coherent
<1> QED
  BY <1>2, <1>3, <1>4 DEF RegisterHandler

(***************************************************************************)
(* What RemoveHandler does to a coherent registration; the user's Clear    *)
(* may drop a reference, to a session that has left handlers_ by then.     *)
(***************************************************************************)
LEMMA RemoveKeeps ==
  ASSUME TypeOK, Coherent,
         NEW s \in made, NEW et \in SUBSET EventTypes,
         RemoveHandler(s, et)
  PROVE  /\ status' = [status EXCEPT ![s] = @ \ et]
         /\ status' \in [Sessions -> SUBSET EventTypes]
         /\ epfd' \in [Sessions -> SUBSET EventTypes]
         /\ \A t \in Sessions : epfd'[t] = IF t \in badfd THEN {} ELSE status'[t]
         /\ handlers' \subseteq Sessions /\ wheel' \subseteq handlers'
         /\ \A t \in Sessions : t \in handlers' <=> status'[t] # {}
         /\ handlers' \ wheel' \subseteq handlers \ wheel
         /\ owned' \subseteq owned
         /\ cleared' = IF status[s] \ et = {} THEN cleared \cup {s} ELSE cleared
<1>1. s \in Sessions
  BY DEF TypeOK
<1>2. /\ status' = [status EXCEPT ![s] = @ \ et]
      /\ status' \in [Sessions -> SUBSET EventTypes]
  BY DEF RemoveHandler, TypeOK
<1>3. /\ epfd' \in [Sessions -> SUBSET EventTypes]
      /\ \A t \in Sessions : epfd'[t] = IF t \in badfd THEN {} ELSE status'[t]
  <2>1. CASE s \in badfd
    <3>1. epfd' = epfd
      BY <2>1 DEF RemoveHandler, EpollCtl
    <3> QED
      BY <1>1, <1>2, <2>1, <3>1 DEF TypeOK, Coherent
  <2>2. CASE s \notin badfd
    <3>1. epfd[s] = status[s]
      BY <1>1, <2>2 DEF Coherent
    <3>2. epfd' = IF epfd[s] = {} THEN epfd
                                  ELSE [epfd EXCEPT ![s] = status[s] \ et]
      BY <2>2, <3>1 DEF RemoveHandler, EpollCtl
    <3> QED
      BY <1>1, <1>2, <2>2, <3>1, <3>2 DEF TypeOK, Coherent
  <2> QED
    BY <2>1, <2>2
<1>4. /\ handlers' \subseteq Sessions /\ wheel' \subseteq handlers'
      /\ \A t \in Sessions : t \in handlers' <=> status'[t] # {}
      /\ handlers' \ wheel' \subseteq handlers \ wheel
  BY <1>1, <1>2 DEF RemoveHandler, TypeOK, Coherent
<1>5. owned' \subseteq owned
  BY DEF RemoveHandler
<1> QED
  BY <1>2, <1>3, <1>4, <1>5 DEF RemoveHandler

-----------------------------------------------------------------------------

Registered == Untouched /\ Coherent /\ NoEmptyWrite /\ PendingIsWatched

\* A session the loop's thread can lock was made.
LEMMA AliveIsMade ==
  ASSUME TypeOK, Untouched, NEW s \in Sessions, Alive(s)
  PROVE  s \in made
BY NoSessionAssumption DEF TypeOK, Untouched, Alive

(***************************************************************************)
(* Registering a session that can be locked, for reading, or for writing   *)
(* after WriteInLoop put something in its buffer or did not, keeps the     *)
(* invariant.                                                              *)
(***************************************************************************)
LEMMA RegisterStep ==
  ASSUME IInv, NEW s \in made, NEW et \in SUBSET EventTypes, et # {},
         RegisterHandler(s, et),
         \/ UNCHANGED <<buffers, cleared>> /\ WRITE \notin et
         \/ StoreData(s) /\ cleared' = cleared \ {s} /\ WRITE \in et,
         UNCHANGED <<creation, thread>>
  PROVE  Registered'
<1> USE DEF IInv
<1>1. /\ s \in Sessions
      /\ batch \in [Sessions -> SUBSET EventTypes]
      /\ wbuf \in [Sessions -> Nat] /\ status \in [Sessions -> SUBSET EventTypes]
  BY DEF TypeOK
<1>2. /\ made' = made /\ badfd' = badfd /\ posting' = posting
      /\ batch' = batch /\ cur' = cur
  BY DEF creation, thread
<1>3. /\ status' = [status EXCEPT ![s] = @ \cup et]
      /\ \A t \in Sessions : epfd'[t] = IF t \in badfd THEN {} ELSE status'[t]
      /\ handlers' \subseteq Sessions /\ wheel' \subseteq handlers'
      /\ \A t \in Sessions : t \in handlers' <=> status'[t] # {}
      /\ handlers' \ wheel' \subseteq handlers \ wheel
      /\ owned' = owned
  BY RegisterKeeps
<1>4. Untouched'
  BY <1>1, <1>2, <1>3 DEF Untouched
<1>5. Coherent'
  <2>1. \A t \in handlers' \ wheel' : Destroyed(t)'
    BY <1>2, <1>3 DEF Coherent, Destroyed, Alive
  <2> QED
    BY <1>2, <1>3, <2>1 DEF Coherent
<1>6. /\ \A t \in Sessions : t # s => wbuf'[t] = wbuf[t]
      /\ vain \ {s} \subseteq vain'
      /\ cleared \ {s} \subseteq cleared'
      /\ WRITE \notin et => wbuf' = wbuf /\ vain' = vain /\ cleared' = cleared
      /\ WRITE \in et => wbuf'[s] > 0 \/ s \in vain'
  BY <1>1 DEF StoreData, buffers
<1>7. NoEmptyWrite'
  BY <1>1, <1>2, <1>3, <1>6 DEF NoEmptyWrite
<1>8. PendingIsWatched'
  BY <1>1, <1>3, <1>6 DEF PendingIsWatched
<1> QED
  BY <1>4, <1>5, <1>7, <1>8 DEF Registered

(***************************************************************************)
(* Removing all events of a session keeps the invariant: whatever is left  *)
(* of it in ep_events_ or in its buffer, its Clear was called.             *)
(***************************************************************************)
LEMMA RemoveStep ==
  ASSUME IInv, NEW s \in made, RemoveHandler(s, EventTypes),
         UNCHANGED <<creation, wbuf>>,
         vain' \in {vain, vain \ {s}}, vain' # vain => batch'[s] = {},
         batch' \in [Sessions -> SUBSET EventTypes],
         \A t \in Sessions : batch'[t] \subseteq batch[t],
         cur' \in {cur, NoSession}
  PROVE  Registered'
<1> USE DEF IInv
<1>1. /\ s \in Sessions
      /\ wbuf \in [Sessions -> Nat] /\ status \in [Sessions -> SUBSET EventTypes]
  BY DEF TypeOK
<1>2. made' = made /\ badfd' = badfd /\ posting' = posting /\ wbuf' = wbuf
  BY DEF creation
<1>3. /\ status' = [status EXCEPT ![s] = @ \ EventTypes]
      /\ \A t \in Sessions : epfd'[t] = IF t \in badfd THEN {} ELSE status'[t]
      /\ handlers' \subseteq Sessions /\ wheel' \subseteq handlers'
      /\ \A t \in Sessions : t \in handlers' <=> status'[t] # {}
      /\ handlers' \ wheel' \subseteq handlers \ wheel
      /\ owned' \subseteq owned
      /\ cleared' = IF status[s] \ EventTypes = {} THEN cleared \cup {s} ELSE cleared
  BY RemoveKeeps
<1>4. status' = [status EXCEPT ![s] = {}] /\ cleared' = cleared \cup {s}
  BY <1>1, <1>3
<1>5. Untouched'
  BY <1>1, <1>2, <1>4 DEF Untouched
<1>6. Coherent'
  <2>1. \A t \in handlers' \ wheel' : Destroyed(t)'
    BY <1>2, <1>3, NoSessionAssumption DEF Coherent, Destroyed, Alive
  <2> QED
    BY <1>2, <1>3, <2>1 DEF Coherent
<1>7. NoEmptyWrite'
  BY <1>1, <1>2, <1>4 DEF NoEmptyWrite
<1>8. PendingIsWatched'
  BY <1>1, <1>2, <1>4 DEF PendingIsWatched
<1> QED
  BY <1>5, <1>6, <1>7, <1>8 DEF Registered

(***************************************************************************)
(* A step that leaves the registrations, the buffers and the interest list *)
(* alone, and at most drops references or entries of ep_events_.           *)
(***************************************************************************)
LEMMA QuietStep ==
  ASSUME IInv, made \subseteq made', badfd \subseteq badfd',
         badfd' \ badfd \subseteq Sessions \ made,
         UNCHANGED <<status, handlers, wheel, epfd, wbuf, vain, cleared>>,
         batch' \in [Sessions -> SUBSET EventTypes],
         \A t \in Sessions : batch'[t] \subseteq batch[t],
         cur' \in made \cup {NoSession},
         \A t \in made : Destroyed(t) => Destroyed(t)'
  PROVE  Registered'
<1> USE DEF IInv
<1>1. Untouched'
  BY DEF Untouched
<1>2. Coherent'
  <2>1. \A t \in Sessions : epfd'[t] = IF t \in badfd' THEN {} ELSE status'[t]
    BY DEF Coherent, Untouched
  <2>2. \A t \in handlers' \ wheel' : Destroyed(t)'
    BY DEF Coherent, Destroyed
  <2> QED
    BY <2>1, <2>2 DEF Coherent
<1>3. NoEmptyWrite'
  BY DEF NoEmptyWrite
<1>4. PendingIsWatched'
  BY DEF PendingIsWatched
<1> QED
  BY <1>1, <1>2, <1>3, <1>4 DEF Registered

-----------------------------------------------------------------------------

\* The actions that only move the loop's thread, or drop an entry of
\* ep_events_ or an id of del_ids_.
Moves ==
  \/ BatchDone \/ RecvAgain \/ RecvData \/ PacketsDone \/ NoWrite
  \/ InformRead \/ DrainDone \/ TimerRead \/ NextSlot \/ SweepDone
  \/ \E s \in Sessions : DispatchSkip(s)

LEMMA InitInvariant == Init => IInv
<1> SUFFICES ASSUME Init PROVE IInv
  OBVIOUS
<1>1. TypeOK
  <2>1. event_queue \in Seq(Events)
    BY EmptySeq DEF Init
  <2> QED
    BY <2>1 DEF Init, TypeOK, LoopStates
<1> QED
  BY <1>1 DEF Init, IInv, Untouched, Coherent, NoEmptyWrite,
              PendingIsWatched

LEMMA MovesType == IInv /\ Moves => TypeOK'
BY DEF IInv, TypeOK, Moves, BatchDone, RecvAgain, RecvData, PacketsDone, NoWrite,
       EntryDone, InformRead, DrainDone, TimerRead, NextSlot, SweepDone,
       DispatchSkip, LoopStates, creation, registration, buffers

LEMMA PushKeepsQueue ==
  ASSUME TypeOK, NEW s \in Sessions,
         NEW action \in {"WRITE", "REGISTER", "REMOVE"}, PushEvent(s, action)
  PROVE  event_queue' \in Seq(Events)
<1>1. [eh |-> s, action |-> action] \in Events
  BY DEF Events
<1> QED
  BY <1>1 DEF TypeOK, PushEvent

LEMMA OtherThreadsType == IInv /\ OtherThreads => TypeOK'
<1> SUFFICES ASSUME IInv, NEW s \in Sessions,
                    \/ NewSession(s) \/ PostRegister(s) \/ UserSend(s)
                    \/ UserStop(s) \/ UserDrop(s)
             PROVE  TypeOK'
  BY DEF OtherThreads
<1> USE DEF IInv, creation, registration, buffers, thread
<1>1. CASE NewSession(s) \/ UserDrop(s)
  BY <1>1 DEF TypeOK, NewSession, UserDrop
<1>2. CASE PostRegister(s)
  <2>1. event_queue' \in Seq(Events)
    BY <1>2, PushKeepsQueue DEF PostRegister
  <2> QED
    BY <1>2, <2>1 DEF TypeOK, PostRegister
<1>3. CASE UserSend(s)
  <2>1. event_queue' \in Seq(Events)
    BY <1>3, PushKeepsQueue DEF UserSend
  <2> QED
    BY <1>3, <2>1 DEF TypeOK, UserSend
<1>4. CASE UserStop(s)
  <2>1. event_queue' \in Seq(Events)
    BY <1>4, PushKeepsQueue DEF UserStop
  <2> QED
    BY <1>4, <2>1 DEF TypeOK, UserStop
<1> QED
  BY <1>1, <1>2, <1>3, <1>4

LEMMA RegisterType ==
  ASSUME IInv, NEW s \in made, NEW et \in SUBSET EventTypes, et # {},
         RegisterHandler(s, et), UNCHANGED creation
  PROVE  /\ made' \subseteq Sessions /\ owned' \subseteq made'
         /\ posting' \subseteq made' /\ badfd' \subseteq made'
         /\ status' \in [Sessions -> SUBSET EventTypes]
         /\ handlers' \subseteq Sessions /\ wheel' \subseteq Sessions
         /\ epfd' \in [Sessions -> SUBSET EventTypes]
<1>1. /\ status' \in [Sessions -> SUBSET EventTypes]
      /\ epfd' \in [Sessions -> SUBSET EventTypes]
      /\ handlers' \subseteq Sessions /\ wheel' \subseteq handlers'
      /\ owned' = owned
  BY RegisterKeeps DEF IInv
<1> QED
  BY <1>1 DEF IInv, TypeOK, creation

LEMMA RemoveType ==
  ASSUME IInv, NEW s \in made, NEW et \in SUBSET EventTypes,
         RemoveHandler(s, et), UNCHANGED creation
  PROVE  /\ made' \subseteq Sessions /\ owned' \subseteq made'
         /\ posting' \subseteq made' /\ badfd' \subseteq made'
         /\ status' \in [Sessions -> SUBSET EventTypes]
         /\ handlers' \subseteq Sessions /\ wheel' \subseteq Sessions
         /\ epfd' \in [Sessions -> SUBSET EventTypes]
         /\ cleared' \subseteq made'
<1>1. /\ status' \in [Sessions -> SUBSET EventTypes]
      /\ epfd' \in [Sessions -> SUBSET EventTypes]
      /\ handlers' \subseteq Sessions /\ wheel' \subseteq handlers'
      /\ owned' \subseteq owned /\ cleared' \subseteq cleared \cup {s}
  BY RemoveKeeps DEF IInv
<1> QED
  BY <1>1 DEF IInv, TypeOK, creation

-----------------------------------------------------------------------------
(* The actions that register, remove or dispatch a session, one lemma each. *)

LEMMA PollStep == IInv /\ Poll => TypeOK' /\ Registered'
<1> SUFFICES ASSUME IInv, Poll PROVE TypeOK' /\ Registered'
  OBVIOUS
<1> USE DEF IInv, Poll, creation, registration, buffers
<1>1. TypeOK'
  BY DEF TypeOK, LoopStates
<1>2. Untouched' /\ Coherent' /\ PendingIsWatched'
  BY DEF Untouched, Coherent, Destroyed, Alive, PendingIsWatched
<1>3. \A s \in Sessions : batch'[s] \subseteq status[s]
  BY DEF Coherent, Watched
<1>4. NoEmptyWrite'
  BY <1>3 DEF NoEmptyWrite
<1> QED
  BY <1>1, <1>2, <1>4 DEF Registered

LEMMA DispatchSessionStep ==
  ASSUME IInv, NEW s \in Sessions, DispatchSession(s)
  PROVE  TypeOK' /\ Registered'
<1> USE DEF IInv, DispatchSession, creation, registration, buffers
<1>1. TypeOK'
  BY DEF TypeOK, LoopStates
<1>2. s \in made
  BY AliveIsMade
<1>3. \A t \in made : Destroyed(t) => Destroyed(t)'
  BY DEF Destroyed, Alive
<1>4. Registered'
  BY <1>1, <1>2, <1>3, QuietStep DEF TypeOK
<1> QED
  BY <1>1, <1>4

LEMMA MovesStep == IInv /\ Moves => TypeOK' /\ Registered'
<1> SUFFICES ASSUME IInv, Moves PROVE TypeOK' /\ Registered'
  OBVIOUS
<1>1. TypeOK'
  BY MovesType
<1>2. /\ UNCHANGED <<made, posting, badfd, owned, status, handlers, wheel, epfd,
                     wbuf, vain, cleared>>
      /\ cur' \in {cur, NoSession}
      /\ \A t \in Sessions : batch'[t] \subseteq batch[t]
  BY DEF IInv, TypeOK, Moves, BatchDone, RecvAgain, RecvData, PacketsDone, NoWrite,
         EntryDone, InformRead, DrainDone, TimerRead, NextSlot, SweepDone,
         DispatchSkip, creation, registration, buffers
<1>3. \A t \in made : Destroyed(t) => Destroyed(t)'
  BY <1>2, NoSessionAssumption DEF IInv, TypeOK, Destroyed, Alive
<1>4. Registered'
  BY <1>1, <1>2, <1>3, QuietStep DEF TypeOK, IInv, Untouched
<1> QED
  BY <1>1, <1>4

LEMMA OtherThreadsStep == IInv /\ OtherThreads => TypeOK' /\ Registered'
<1> SUFFICES ASSUME IInv, OtherThreads PROVE TypeOK' /\ Registered'
  OBVIOUS
<1>1. TypeOK'
  BY OtherThreadsType
<1>2. /\ UNCHANGED <<status, handlers, wheel, epfd, wbuf, vain, cleared, batch, cur>>
      /\ made \subseteq made' /\ badfd \subseteq badfd'
      /\ badfd' \ badfd \subseteq Sessions \ made
      /\ \A t \in made : Destroyed(t) => Destroyed(t)'
  BY DEF OtherThreads, NewSession, PostRegister, UserSend, UserStop, UserDrop,
         creation, registration, buffers, thread, Destroyed, Alive
<1>3. Registered'
  BY <1>1, <1>2, QuietStep DEF TypeOK, IInv, Untouched
<1> QED
  BY <1>1, <1>3

LEMMA StoreType ==
  ASSUME TypeOK, NEW s \in made, StoreData(s)
  PROVE  wbuf' \in [Sessions -> Nat] /\ vain' \subseteq made
BY DEF TypeOK, StoreData

LEMMA CallbackSendStep ==
  ASSUME IInv, NEW t \in Sessions, CallbackSend(t)
  PROVE  TypeOK' /\ Registered'
<1>1. t \in made
  BY AliveIsMade DEF IInv, CallbackSend, Alive
<1>2. /\ RegisterHandler(t, {WRITE})
      /\ StoreData(t) /\ cleared' = cleared \ {t}
      /\ UNCHANGED <<creation, event_queue, thread>>
  BY DEF CallbackSend, WriteInLoop
<1>3. {WRITE} \in SUBSET EventTypes /\ {WRITE} # {}
  BY DEF EventTypes
<1>4. TypeOK'
  <2>1. wbuf' \in [Sessions -> Nat] /\ vain' \subseteq made
    BY <1>1, <1>2, StoreType DEF IInv
  <2> QED
    BY <1>1, <1>2, <1>3, <2>1, RegisterType DEF IInv, TypeOK, creation, thread
<1>5. Registered'
  BY <1>1, <1>2, <1>3, RegisterStep
<1> QED
  BY <1>4, <1>5

LEMMA RemoveAllStep ==
  ASSUME IInv, NEW s \in made, RemoveHandler(s, EventTypes),
         UNCHANGED <<creation, wbuf, special>>,
         vain' \in {vain, vain \ {s}}, vain' # vain => batch'[s] = {},
         event_queue' \in Seq(Events),
         todo' \subseteq todo,
         batch' \in [Sessions -> SUBSET EventTypes],
         \A t \in Sessions : batch'[t] \subseteq batch[t],
         pc' \in LoopStates,
         cur' \in {cur, NoSession},
         cur' \in IF pc' \in {"recv", "packets", "out"} THEN Sessions ELSE {NoSession}
  PROVE  TypeOK' /\ Registered'
<1>1. TypeOK'
  <2>1. EventTypes \in SUBSET EventTypes
    OBVIOUS
  <2>2. vain' \subseteq made' /\ wbuf' \in [Sessions -> Nat]
    BY DEF IInv, TypeOK, creation
  <2>3. special' \subseteq {"inform", "timer"} /\ todo' \subseteq Sessions
    BY DEF IInv, TypeOK
  <2> QED
    BY <2>1, <2>2, <2>3, RemoveType DEF IInv, TypeOK
<1>2. Registered'
  BY RemoveStep
<1> QED
  BY <1>1, <1>2

LEMMA CallbackStopStep ==
  ASSUME IInv, NEW t \in Sessions, CallbackStop(t)
  PROVE  TypeOK' /\ Registered'
<1>1. t \in made
  BY AliveIsMade DEF IInv, CallbackStop, Alive
<1> QED
  BY <1>1, RemoveAllStep DEF CallbackStop, IInv, TypeOK, thread, buffers

LEMMA CurIsMade ==
  ASSUME IInv, pc \in {"recv", "packets", "out"}
  PROVE  cur \in made
BY NoSessionAssumption DEF IInv, TypeOK, Untouched

LEMMA ReadFailsStep == IInv /\ ReadFails => TypeOK' /\ Registered'
<1> SUFFICES ASSUME IInv, ReadFails PROVE TypeOK' /\ Registered'
  OBVIOUS
<1>1. cur \in made
  BY CurIsMade DEF ReadFails
<1> QED
  BY <1>1, RemoveAllStep DEF ReadFails, IInv, TypeOK, LoopStates, buffers

LEMMA WriteFailsStep == IInv /\ WriteFails => TypeOK' /\ Registered'
<1> SUFFICES ASSUME IInv, WriteFails PROVE TypeOK' /\ Registered'
  OBVIOUS
<1>1. cur \in made
  BY CurIsMade DEF WriteFails
<1>2. /\ batch' \in [Sessions -> SUBSET EventTypes]
      /\ \A t \in Sessions : batch'[t] \subseteq batch[t]
  BY DEF WriteFails, EntryDone, IInv, TypeOK
<1>3. pc' = "dispatch" /\ cur' = NoSession /\ UNCHANGED <<special, todo>>
  BY DEF WriteFails, EntryDone
<1>4. vain' = vain \ {cur} /\ batch'[cur] = {}
  BY DEF WriteFails, EntryDone, IInv, TypeOK
<1> QED
  BY <1>1, <1>2, <1>3, <1>4, RemoveAllStep DEF WriteFails, IInv, TypeOK, LoopStates

LEMMA SendSomeStep ==
  ASSUME IInv, NEW n \in 0..MaxBuf, SendSome(n)
  PROVE  TypeOK' /\ Registered'
<1> DEFINE s == cur
<1>1. s \in made /\ s \in Sessions
  BY CurIsMade DEF SendSome, IInv, TypeOK
<1>2. n \in Nat /\ wbuf[s] \in Nat /\ wbuf[s] > 0 /\ n <= wbuf[s]
  BY <1>1, BoundAssumption DEF SendSome, IInv, TypeOK
<1>3. /\ wbuf' = [wbuf EXCEPT ![s] = @ - n]
      /\ wbuf' \in [Sessions -> Nat]
  BY <1>1, <1>2 DEF SendSome, IInv, TypeOK
<1>4. /\ batch' = [batch EXCEPT ![s] = {}]
      /\ batch' \in [Sessions -> SUBSET EventTypes]
      /\ pc' = "dispatch" /\ cur' = NoSession
      /\ UNCHANGED <<special, todo, event_queue, creation, vain>>
  BY DEF SendSome, EntryDone, IInv, TypeOK
<1>5. CASE n = wbuf[s]
  <2>1. RemoveHandler(s, {WRITE}) /\ {WRITE} \in SUBSET EventTypes
    BY <1>5 DEF SendSome, EventTypes
  <2>2. /\ status' = [status EXCEPT ![s] = @ \ {WRITE}]
        /\ \A t \in Sessions : epfd'[t] = IF t \in badfd THEN {} ELSE status'[t]
        /\ handlers' \subseteq Sessions /\ wheel' \subseteq handlers'
        /\ \A t \in Sessions : t \in handlers' <=> status'[t] # {}
        /\ handlers' \ wheel' \subseteq handlers \ wheel
        /\ owned' \subseteq owned
        /\ cleared \subseteq cleared'
    BY <1>1, <2>1, RemoveKeeps DEF IInv
  <2>3. TypeOK'
    <3>1. /\ made' \subseteq Sessions /\ owned' \subseteq made'
          /\ posting' \subseteq made' /\ badfd' \subseteq made'
          /\ status' \in [Sessions -> SUBSET EventTypes]
          /\ handlers' \subseteq Sessions /\ wheel' \subseteq Sessions
          /\ epfd' \in [Sessions -> SUBSET EventTypes]
          /\ cleared' \subseteq made'
      BY <1>1, <1>4, <2>1, RemoveType
    <3> QED
      BY <1>3, <1>4, <3>1 DEF IInv, TypeOK, LoopStates, creation
  <2>4. wbuf'[s] = 0 /\ \A t \in Sessions : t # s => wbuf'[t] = wbuf[t]
    BY <1>1, <1>2, <1>3, <1>5 DEF IInv, TypeOK
  <2>5. Untouched'
    BY <1>1, <1>4, <2>2 DEF IInv, TypeOK, Untouched, creation
  <2>6. Coherent'
    <3>1. \A t \in handlers' \ wheel' : Destroyed(t)'
      BY <1>4, <2>2, NoSessionAssumption
         DEF IInv, TypeOK, Coherent, Destroyed, Alive, creation
    <3> QED
      BY <1>4, <2>2, <3>1 DEF Coherent, creation
  <2>7. NoEmptyWrite' /\ PendingIsWatched'
    BY <1>1, <1>4, <2>2, <2>4
       DEF IInv, TypeOK, NoEmptyWrite, PendingIsWatched
  <2> QED
    BY <2>3, <2>5, <2>6, <2>7 DEF Registered
<1>6. CASE n # wbuf[s]
  <2>1. UNCHANGED registration
    BY <1>6 DEF SendSome
  <2>2. wbuf'[s] > 0 /\ wbuf[s] > 0 /\ \A t \in Sessions : t # s => wbuf'[t] = wbuf[t]
    BY <1>1, <1>2, <1>3, <1>6 DEF IInv, TypeOK
  <2>3. TypeOK'
    BY <1>3, <1>4, <2>1 DEF IInv, TypeOK, LoopStates, creation, registration, buffers
  <2>4. Untouched' /\ Coherent'
    BY <1>4, <2>1, NoSessionAssumption
       DEF IInv, TypeOK, Untouched, Coherent, Destroyed, Alive, creation, registration, buffers
  <2>5. NoEmptyWrite' /\ PendingIsWatched'
    BY <1>1, <1>4, <2>1, <2>2
       DEF IInv, TypeOK, NoEmptyWrite, PendingIsWatched, registration, buffers
  <2> QED
    BY <2>3, <2>4, <2>5 DEF Registered
<1> QED
  BY <1>5, <1>6

LEMMA DrainEventStep == IInv /\ DrainEvent => TypeOK' /\ Registered'
<1> SUFFICES ASSUME IInv, DrainEvent PROVE TypeOK' /\ Registered'
  OBVIOUS
<1> DEFINE e == Head(event_queue)
<1>1. e \in Events /\ event_queue' \in Seq(Events)
  BY HeadTailProperties DEF DrainEvent, IInv, TypeOK
<1>2. e.eh \in Sessions /\ e.action \in {"WRITE", "REGISTER", "REMOVE"}
  BY <1>1 DEF Events
<1>3. UNCHANGED <<creation, thread>>
  BY DEF DrainEvent
<1> HIDE DEF e
<1>4. CASE ~Alive(e.eh)
  <2>1. UNCHANGED <<registration, buffers>>
    BY <1>4 DEF DrainEvent, e
  <2>2. TypeOK'
    BY <1>1, <1>3, <2>1 DEF IInv, TypeOK, creation, registration, buffers, thread
  <2>3. \A t \in made : Destroyed(t) => Destroyed(t)'
    BY <1>3, <2>1 DEF creation, registration, buffers, thread, Destroyed, Alive
  <2>4. Registered'
    BY <1>3, <2>1, <2>2, <2>3, QuietStep
       DEF IInv, TypeOK, Untouched, creation, registration, buffers, thread
  <2> QED
    BY <2>2, <2>4
<1>5. CASE Alive(e.eh)
  <2>1. e.eh \in made
    BY <1>2, <1>5, AliveIsMade DEF IInv
  <2>2. ProcessEventInLoop(e)
    BY <1>5 DEF DrainEvent, e
  <2>3. CASE e.action = "WRITE"
    <3>1. /\ RegisterHandler(e.eh, {WRITE})
          /\ StoreData(e.eh) /\ cleared' = cleared \ {e.eh}
      BY <2>2, <2>3 DEF ProcessEventInLoop, WriteInLoop
    <3>2. {WRITE} \in SUBSET EventTypes /\ {WRITE} # {}
      BY DEF EventTypes
    <3>3. wbuf' \in [Sessions -> Nat] /\ vain' \subseteq made
      BY <2>1, <3>1, StoreType DEF IInv
    <3>4. TypeOK'
      BY <1>1, <1>3, <2>1, <3>1, <3>2, <3>3, RegisterType
         DEF IInv, TypeOK, creation, thread
    <3> QED
      BY <1>3, <2>1, <3>1, <3>2, <3>4, RegisterStep
  <2>4. CASE e.action = "REGISTER"
    <3>1. RegisterHandler(e.eh, {READ}) /\ UNCHANGED <<buffers, cleared>>
      BY <2>2, <2>4 DEF ProcessEventInLoop
    <3>2. {READ} \in SUBSET EventTypes /\ {READ} # {} /\ WRITE \notin {READ}
      BY DEF EventTypes, READ, WRITE
    <3>3. TypeOK'
      BY <1>1, <1>3, <2>1, <3>1, <3>2, RegisterType
         DEF IInv, TypeOK, creation, thread, buffers
    <3> QED
      BY <1>3, <2>1, <3>1, <3>2, <3>3, RegisterStep
  <2>5. CASE e.action = "REMOVE"
    <3>1. RemoveHandler(e.eh, EventTypes) /\ wbuf' = wbuf /\ vain' = vain
      BY <2>2, <2>5 DEF ProcessEventInLoop, buffers
    <3> QED
      BY <1>1, <1>3, <2>1, <3>1, RemoveAllStep DEF IInv, TypeOK, thread
  <2> QED
    BY <1>2, <2>3, <2>4, <2>5
<1> QED
  BY <1>4, <1>5

LEMMA SweepStep ==
  ASSUME IInv, NEW s \in Sessions,
         SweepStale(s) \/ SweepFresh(s) \/ SweepTimeout(s)
  PROVE  TypeOK' /\ Registered'
<1>1. CASE SweepStale(s) \/ SweepFresh(s)
  <2>1. /\ UNCHANGED <<made, posting, badfd, owned, status, handlers, epfd, cleared,
                       wbuf, vain, event_queue, batch, special, pc, cur>>
        /\ todo' = todo \ {s}
        /\ wheel' \subseteq Sessions
    BY <1>1 DEF SweepStale, SweepFresh, creation, buffers, IInv, TypeOK
  <2>2. TypeOK'
    BY <2>1 DEF IInv, TypeOK
  <2>3. wheel' \subseteq handlers /\ \A t \in handlers \ wheel' : Destroyed(t)
    <3>1. CASE SweepStale(s)
      <4>1. s \in handlers => Destroyed(s)
        BY <3>1 DEF SweepStale, IInv, TypeOK, Coherent, Untouched, Destroyed
      <4> QED
        BY <3>1, <4>1 DEF SweepStale, IInv, Coherent
    <3>2. CASE SweepFresh(s)
      BY <3>2 DEF SweepFresh, IInv, Coherent
    <3> QED
      BY <1>1, <3>1, <3>2
  <2>4. Untouched' /\ NoEmptyWrite' /\ PendingIsWatched'
    BY <2>1 DEF IInv, Untouched, NoEmptyWrite, PendingIsWatched
  <2>5. Coherent'
    BY <2>1, <2>3 DEF IInv, Coherent, Destroyed, Alive
  <2> QED
    BY <2>2, <2>4, <2>5 DEF Registered
<1>2. CASE SweepTimeout(s)
  <2>1. s \in made
    BY <1>2, AliveIsMade DEF IInv, SweepTimeout
  <2> QED
    BY <1>2, <2>1, RemoveAllStep DEF SweepTimeout, IInv, TypeOK, buffers
<1> QED
  BY <1>1, <1>2

LEMMA InvariantStep == IInv /\ [Next]_vars => IInv'
<1> SUFFICES ASSUME IInv, [Next]_vars PROVE TypeOK' /\ Registered'
  BY DEF IInv, Registered
<1>1. CASE OtherThreads
  BY <1>1, OtherThreadsStep
<1>2. CASE Dispatch
  BY <1>2, PollStep, MovesStep, DispatchSessionStep DEF Dispatch, Moves
<1>3. CASE HandleRead
  BY <1>3, MovesStep, ReadFailsStep, CallbackSendStep, CallbackStopStep
     DEF HandleRead, Moves
<1>4. CASE HandleWrite
  BY <1>4, WriteFailsStep, SendSomeStep DEF HandleWrite, SendAgain, SendError
<1>5. CASE ProcessEventInQueueInLoop
  BY <1>5, MovesStep, DrainEventStep DEF ProcessEventInQueueInLoop, Moves
<1>6. CASE CheckOvertime
  BY <1>6, MovesStep, SweepStep DEF CheckOvertime, Moves
<1>7. CASE UNCHANGED vars
  BY <1>7 DEF vars, creation, registration, buffers, thread, IInv, Registered, TypeOK,
              Untouched, Coherent, NoEmptyWrite, PendingIsWatched,
              Destroyed, Alive
<1> QED
  BY <1>1, <1>2, <1>3, <1>4, <1>5, <1>6, <1>7 DEF Next

-----------------------------------------------------------------------------

\* The inductive invariant holds throughout.
THEOREM Invariant == Spec => []IInv
BY InitInvariant, InvariantStep, PTL DEF Spec

\* Types; among them, that a session is being dispatched just while its
\* handlers run.
THEOREM TypeCorrect == Spec => []TypeOK
<1>1. IInv => TypeOK
  BY DEF IInv
<1> QED
  BY <1>1, Invariant, PTL

\* status_, handlers_, the timing wheel and epfd_ agree (RegisterHandler,
\* RemoveHandler).
THEOREM RegistrationsAgree == Spec => []Coherent
<1>1. IInv => Coherent
  BY DEF IInv
<1> QED
  BY <1>1, Invariant, PTL

\* EPOLLOUT is neither asked for nor handled with nothing to write, but for
\* a Send that had nothing stored (WriteInLoop, HandleWrite).
THEOREM WritesAreNotEmpty == Spec => []NoEmptyWrite
<1>1. IInv => NoEmptyWrite
  BY DEF IInv
<1> QED
  BY <1>1, Invariant, PTL

\* What is in a write_buffer_ has EPOLLOUT asked for, until the session is
\* removed, and again when it comes back (ProcessEventInLoop, HandleWrite).
THEOREM PendingStaysWatched == Spec => []PendingIsWatched
<1>1. IInv => PendingIsWatched
  BY DEF IInv
<1> QED
  BY <1>1, Invariant, PTL

-----------------------------------------------------------------------------
(* Nothing touches a destroyed session.                                     *)

\* What DestroyedUntouched asks of a step, for one session.
LeftAlone(s) ==
  /\ Destroyed(s)'
  /\ status'[s] = status[s] /\ wbuf'[s] = wbuf[s] /\ epfd'[s] = epfd[s]
  /\ s \in handlers' => s \in handlers
  /\ s \in wheel' => s \in wheel

\* RegisterHandler and RemoveHandler act on the session they are given only.
LEMMA RegistrationFrame ==
  ASSUME TypeOK, NEW s \in Sessions, NEW t \in Sessions, s # t,
         NEW et, RegisterHandler(t, et) \/ RemoveHandler(t, et)
  PROVE  /\ status'[s] = status[s] /\ epfd'[s] = epfd[s]
         /\ s \in handlers' => s \in handlers
         /\ s \in wheel' => s \in wheel
         /\ owned' \subseteq owned
BY DEF RegisterHandler, RemoveHandler, EpollCtl, TypeOK

LEMMA OthersLeaveAlone ==
  ASSUME IInv, NEW s \in Sessions, Destroyed(s), OtherThreads
  PROVE  LeftAlone(s)
BY DEF LeftAlone, OtherThreads, NewSession, PostRegister, UserSend, UserStop,
       UserDrop, Destroyed, Alive, creation, registration, buffers, thread

LEMMA MovesLeaveAlone ==
  ASSUME IInv, NEW s \in Sessions, Destroyed(s),
         Moves \/ Poll \/ \E t \in Sessions : DispatchSession(t)
  PROVE  LeftAlone(s)
<1>1. /\ UNCHANGED <<made, posting, owned, status, handlers, wheel, epfd, wbuf>>
      /\ cur' # s
  <2>1. CASE Moves
    BY <2>1, NoSessionAssumption
       DEF Moves, BatchDone, RecvAgain, RecvData, PacketsDone, NoWrite, EntryDone,
           InformRead, DrainDone, TimerRead, NextSlot, SweepDone, DispatchSkip,
           creation, registration, buffers, Destroyed, Alive
  <2>2. CASE Poll \/ \E t \in Sessions : DispatchSession(t)
    BY <2>2 DEF Poll, DispatchSession, creation, registration, buffers, Destroyed, Alive
  <2> QED
    BY <2>1, <2>2
<1> QED
  BY <1>1 DEF LeftAlone, Destroyed, Alive

\* A step that registers or removes a session t, which is not destroyed.
LEMMA HandlerLeavesAlone ==
  ASSUME IInv, NEW s \in Sessions, Destroyed(s),
         NEW t \in Sessions, Alive(t),
         NEW et, RegisterHandler(t, et) \/ RemoveHandler(t, et),
         wbuf'[s] = wbuf[s], UNCHANGED creation, cur' \in {cur, NoSession}
  PROVE  LeftAlone(s)
<1>1. s # t
  BY DEF Destroyed
<1>2. /\ status'[s] = status[s] /\ epfd'[s] = epfd[s]
      /\ s \in handlers' => s \in handlers
      /\ s \in wheel' => s \in wheel
      /\ owned' \subseteq owned
  BY <1>1, RegistrationFrame DEF IInv
<1> QED
  BY <1>2, NoSessionAssumption DEF LeftAlone, Destroyed, Alive, creation

LEMMA CallbacksLeaveAlone ==
  ASSUME IInv, NEW s \in Sessions, Destroyed(s),
         NEW t \in Sessions, CallbackSend(t) \/ CallbackStop(t)
  PROVE  LeftAlone(s)
<1>1. Alive(t) /\ s # t
  BY DEF CallbackSend, CallbackStop, Alive, Destroyed
<1>2. /\ \E et \in SUBSET EventTypes : RegisterHandler(t, et) \/ RemoveHandler(t, et)
      /\ wbuf'[s] = wbuf[s] /\ UNCHANGED creation /\ cur' = cur
  BY <1>1 DEF CallbackSend, CallbackStop, WriteInLoop, StoreData, EventTypes,
              thread, buffers, IInv, TypeOK
<1> QED
  BY <1>1, <1>2, HandlerLeavesAlone

LEMMA EntryLeavesAlone ==
  ASSUME IInv, NEW s \in Sessions, Destroyed(s),
         ReadFails \/ WriteFails \/ \E n \in 0..MaxBuf : SendSome(n)
  PROVE  LeftAlone(s)
<1>1. cur \in Sessions /\ Alive(cur) /\ s # cur
  BY DEF ReadFails, WriteFails, SendSome, IInv, TypeOK, Alive, Destroyed
<1>2. wbuf'[s] = wbuf[s] /\ UNCHANGED creation /\ cur' \in {cur, NoSession}
  BY <1>1 DEF ReadFails, WriteFails, SendSome, EntryDone, buffers, IInv, TypeOK
<1>3. CASE UNCHANGED registration
  BY <1>1, <1>2, <1>3, NoSessionAssumption
     DEF LeftAlone, Destroyed, Alive, creation, registration, buffers
<1>4. CASE \E et \in SUBSET EventTypes : RemoveHandler(cur, et)
  BY <1>1, <1>2, <1>4, HandlerLeavesAlone
<1>5. UNCHANGED registration \/ \E et \in SUBSET EventTypes : RemoveHandler(cur, et)
  <2>1. EventTypes \in SUBSET EventTypes /\ {WRITE} \in SUBSET EventTypes
    BY DEF EventTypes
  <2>2. \/ UNCHANGED registration
        \/ RemoveHandler(cur, EventTypes) \/ RemoveHandler(cur, {WRITE})
    BY DEF ReadFails, WriteFails, SendSome
  <2> QED
    BY <2>1, <2>2
<1> QED
  BY <1>3, <1>4, <1>5

LEMMA DrainLeavesAlone ==
  ASSUME IInv, NEW s \in Sessions, Destroyed(s), DrainEvent
  PROVE  LeftAlone(s)
<1> DEFINE e == Head(event_queue)
<1>1. e \in Events
  BY HeadTailProperties DEF DrainEvent, IInv, TypeOK
<1>2. e.eh \in Sessions
  BY <1>1 DEF Events
<1>3. UNCHANGED <<creation, thread>>
  BY DEF DrainEvent
<1> HIDE DEF e
<1>4. CASE ~Alive(e.eh)
  BY <1>3, <1>4 DEF DrainEvent, e, LeftAlone, Destroyed, Alive, creation,
                    registration, buffers, thread
<1>5. CASE Alive(e.eh)
  <2>1. ProcessEventInLoop(e) /\ s # e.eh
    BY <1>5 DEF DrainEvent, e, Destroyed
  <2>2. wbuf'[s] = wbuf[s]
    BY <1>2, <2>1 DEF ProcessEventInLoop, WriteInLoop, StoreData, buffers, IInv, TypeOK
  <2>3. \E et \in {EventTypes, {READ}, {WRITE}} :
          RegisterHandler(e.eh, et) \/ RemoveHandler(e.eh, et)
    BY <2>1 DEF ProcessEventInLoop, WriteInLoop
  <2> QED
    BY <1>2, <1>3, <1>5, <2>2, <2>3, HandlerLeavesAlone DEF thread
<1> QED
  BY <1>4, <1>5

LEMMA SweepLeavesAlone ==
  ASSUME IInv, NEW s \in Sessions, Destroyed(s),
         NEW t \in Sessions, SweepStale(t) \/ SweepFresh(t) \/ SweepTimeout(t)
  PROVE  LeftAlone(s)
<1>1. CASE SweepStale(t) \/ SweepFresh(t)
  BY <1>1 DEF SweepStale, SweepFresh, LeftAlone, Destroyed, Alive, creation, buffers
<1>2. CASE SweepTimeout(t)
  <2>1. Alive(t) /\ RemoveHandler(t, EventTypes)
    BY <1>2 DEF SweepTimeout
  <2>2. wbuf'[s] = wbuf[s] /\ UNCHANGED creation /\ cur' = cur
    BY <1>2 DEF SweepTimeout, buffers
  <2> QED
    BY <2>1, <2>2, HandlerLeavesAlone
<1> QED
  BY <1>1, <1>2

(***************************************************************************)
(* Once the last shared_ptr to a session is gone, no entry of ep_events_,  *)
(* Event or id of the wheel leads back to it: each goes through handlers_  *)
(* and weak_ptr::lock (DispatchAndProcess, ProcessEventInQueueInLoop,      *)
(* CheckOvertime).                                                         *)
(***************************************************************************)
THEOREM DestroyedStaysUntouched == Spec => DestroyedUntouched
<1>1. ASSUME IInv, [Next]_vars, NEW s \in Sessions, Destroyed(s)
      PROVE  LeftAlone(s)
  <2>1. CASE OtherThreads
    BY <1>1, <2>1, OthersLeaveAlone
  <2>2. CASE Dispatch
    BY <1>1, <2>2, MovesLeaveAlone DEF Dispatch, Moves
  <2>3. CASE HandleRead
    BY <1>1, <2>3, MovesLeaveAlone, EntryLeavesAlone, CallbacksLeaveAlone
       DEF HandleRead, Moves
  <2>4. CASE HandleWrite
    BY <1>1, <2>4, EntryLeavesAlone DEF HandleWrite, SendAgain, SendError
  <2>5. CASE ProcessEventInQueueInLoop
    BY <1>1, <2>5, MovesLeaveAlone, DrainLeavesAlone
       DEF ProcessEventInQueueInLoop, Moves
  <2>6. CASE CheckOvertime
    BY <1>1, <2>6, MovesLeaveAlone, SweepLeavesAlone DEF CheckOvertime, Moves
  <2>7. CASE UNCHANGED vars
    BY <1>1, <2>7 DEF vars, creation, registration, buffers, thread, LeftAlone, Destroyed, Alive
  <2> QED
    BY <1>1, <2>1, <2>2, <2>3, <2>4, <2>5, <2>6, <2>7 DEF Next
<1>2. IInv /\ [Next]_vars =>
        [\A s \in Sessions : Destroyed(s) =>
           /\ Destroyed(s)'
           /\ status'[s] = status[s] /\ wbuf'[s] = wbuf[s] /\ epfd'[s] = epfd[s]
           /\ s \in handlers' => s \in handlers
           /\ s \in wheel' => s \in wheel]_vars
  BY <1>1 DEF LeftAlone
<1> QED
  BY <1>2, Invariant, PTL DEF Spec, DestroyedUntouched

-----------------------------------------------------------------------------
(* Entries of ep_events_ go stale with the removal of their session only.   *)

\* What BatchIsCurrent asks of a step, for one session.
StaysCurrent(s) == Stale(s)' => Stale(s) \/ s \in handlers \ handlers'

\* A step that adds no entry and takes nothing from what is asked for.
LEMMA GrowKeepsCurrent ==
  ASSUME NEW s \in Sessions,
         batch'[s] \subseteq batch[s], status[s] \subseteq status'[s]
  PROVE  StaysCurrent(s)
BY DEF StaysCurrent, Stale

LEMMA RegisterKeepsCurrent ==
  ASSUME IInv, NEW s \in Sessions, NEW t, NEW et, RegisterHandler(t, et), batch' = batch
  PROVE  StaysCurrent(s)
<1>1. status[s] \subseteq status'[s]
  BY DEF RegisterHandler, IInv, TypeOK
<1> QED
  BY <1>1, GrowKeepsCurrent

\* A session that is removed, with current entries, was in handlers_.
LEMMA RemoveKeepsCurrent ==
  ASSUME IInv, NEW s \in Sessions, NEW t \in Sessions, RemoveHandler(t, EventTypes),
         batch'[s] \subseteq batch[s]
  PROVE  StaysCurrent(s)
<1>1. CASE s # t
  BY <1>1, RegistrationFrame, GrowKeepsCurrent DEF IInv
<1>2. CASE s = t
  <2>1. handlers' = handlers \ {s}
    BY <1>2 DEF RemoveHandler, IInv, TypeOK
  <2>2. batch[s] \subseteq status[s] /\ batch[s] # {} => s \in handlers
    BY DEF IInv, Coherent
  <2> QED
    BY <2>1, <2>2 DEF StaysCurrent, Stale
<1> QED
  BY <1>1, <1>2

\* What epoll_wait reports is what is asked for; the other steps that move
\* the loop's thread, and those of the other threads, change no status_.
LEMMA MovesKeepCurrent ==
  ASSUME IInv, NEW s \in Sessions,
         Moves \/ Poll \/ OtherThreads \/ \E t \in Sessions : DispatchSession(t)
  PROVE  StaysCurrent(s)
<1>1. CASE Moves
  <2>1. batch'[s] \subseteq batch[s] /\ status' = status
    BY <1>1 DEF IInv, TypeOK, Moves, BatchDone, RecvAgain, RecvData, PacketsDone,
           NoWrite, EntryDone, InformRead, DrainDone, TimerRead, NextSlot, SweepDone,
           DispatchSkip, registration
  <2> QED
    BY <2>1, GrowKeepsCurrent
<1>2. CASE Poll
  <2>1. batch'[s] \subseteq status[s] /\ status' = status
    BY <1>2 DEF Poll, Watched, registration, IInv, Coherent
  <2> QED
    BY <2>1 DEF StaysCurrent, Stale
<1>3. CASE OtherThreads \/ \E t \in Sessions : DispatchSession(t)
  <2>1. batch' = batch /\ status' = status
    BY <1>3 DEF OtherThreads, NewSession, PostRegister, UserSend, UserStop, UserDrop,
           DispatchSession, registration, thread
  <2> QED
    BY <2>1, GrowKeepsCurrent
<1> QED
  BY <1>1, <1>2, <1>3

\* What was asked for and is so no more after a write was for the entry that
\* is done with.
LEMMA EntryKeepsCurrent ==
  ASSUME IInv, NEW s \in Sessions,
         ReadFails \/ WriteFails \/ \E n \in 0..MaxBuf : SendSome(n)
  PROVE  StaysCurrent(s)
<1>1. cur \in Sessions
  BY DEF ReadFails, WriteFails, SendSome, IInv, TypeOK
<1>2. batch'[s] \subseteq batch[s]
  BY DEF ReadFails, WriteFails, SendSome, EntryDone, IInv, TypeOK
<1>3. CASE ReadFails \/ WriteFails
  BY <1>1, <1>2, <1>3, RemoveKeepsCurrent DEF ReadFails, WriteFails
<1>4. CASE \E n \in 0..MaxBuf : SendSome(n)
  <2>1. CASE s = cur
    <3>1. batch'[s] = {}
      BY <1>1, <1>4, <2>1 DEF SendSome, EntryDone, IInv, TypeOK
    <3> QED
      BY <3>1 DEF StaysCurrent, Stale
  <2>2. CASE s # cur
    <3>1. UNCHANGED registration \/ RemoveHandler(cur, {WRITE})
      BY <1>4 DEF SendSome
    <3>2. status'[s] = status[s]
      BY <1>1, <2>2, <3>1, RegistrationFrame DEF IInv, registration
    <3> QED
      BY <1>2, <3>2, GrowKeepsCurrent
  <2> QED
    BY <2>1, <2>2
<1> QED
  BY <1>3, <1>4

LEMMA CallbacksKeepCurrent ==
  ASSUME IInv, NEW s \in Sessions,
         NEW t \in Sessions, CallbackSend(t) \/ CallbackStop(t)
  PROVE  StaysCurrent(s)
<1>1. batch' = batch /\ (RegisterHandler(t, {WRITE}) \/ RemoveHandler(t, EventTypes))
  BY DEF CallbackSend, CallbackStop, WriteInLoop, thread
<1> QED
  BY <1>1, RegisterKeepsCurrent, RemoveKeepsCurrent

LEMMA DrainKeepsCurrent ==
  ASSUME IInv, NEW s \in Sessions, DrainEvent
  PROVE  StaysCurrent(s)
<1> DEFINE e == Head(event_queue)
<1>1. e \in Events
  BY HeadTailProperties DEF DrainEvent, IInv, TypeOK
<1>2. e.eh \in Sessions
  BY <1>1 DEF Events
<1>3. batch' = batch
  BY DEF DrainEvent, thread
<1> HIDE DEF e
<1>4. \/ status' = status
      \/ RegisterHandler(e.eh, {WRITE}) \/ RegisterHandler(e.eh, {READ})
      \/ RemoveHandler(e.eh, EventTypes)
  BY DEF DrainEvent, e, ProcessEventInLoop, WriteInLoop, registration
<1> QED
  BY <1>2, <1>3, <1>4, GrowKeepsCurrent, RegisterKeepsCurrent, RemoveKeepsCurrent

LEMMA SweepKeepsCurrent ==
  ASSUME IInv, NEW s \in Sessions,
         NEW t \in Sessions, SweepStale(t) \/ SweepFresh(t) \/ SweepTimeout(t)
  PROVE  StaysCurrent(s)
<1>1. batch' = batch /\ (status' = status \/ RemoveHandler(t, EventTypes))
  BY DEF SweepStale, SweepFresh, SweepTimeout
<1> QED
  BY <1>1, GrowKeepsCurrent, RemoveKeepsCurrent

(***************************************************************************)
(* What ep_events_ holds of a session is what the session asks for, from   *)
(* epoll_wait on and through whatever the other entries bring, until the   *)
(* session leaves handlers_ (DispatchAndProcess).                          *)
(***************************************************************************)
THEOREM BatchStaysCurrent == Spec => BatchIsCurrent
<1>1. ASSUME IInv, [Next]_vars, NEW s \in Sessions
      PROVE  StaysCurrent(s)
  <2>1. CASE OtherThreads
    BY <1>1, <2>1, MovesKeepCurrent
  <2>2. CASE Dispatch
    BY <1>1, <2>2, MovesKeepCurrent DEF Dispatch, Moves
  <2>3. CASE HandleRead
    BY <1>1, <2>3, MovesKeepCurrent, EntryKeepsCurrent, CallbacksKeepCurrent
       DEF HandleRead, Moves
  <2>4. CASE HandleWrite
    BY <1>1, <2>4, EntryKeepsCurrent DEF HandleWrite, SendAgain, SendError
  <2>5. CASE ProcessEventInQueueInLoop
    BY <1>1, <2>5, MovesKeepCurrent, DrainKeepsCurrent
       DEF ProcessEventInQueueInLoop, Moves
  <2>6. CASE CheckOvertime
    BY <1>1, <2>6, MovesKeepCurrent, SweepKeepsCurrent DEF CheckOvertime, Moves
  <2>7. CASE UNCHANGED vars
    BY <2>7, GrowKeepsCurrent DEF vars, registration, thread
  <2> QED
    BY <1>1, <2>1, <2>2, <2>3, <2>4, <2>5, <2>6, <2>7 DEF Next
<1>2. IInv /\ [Next]_vars =>
        [\A s \in Sessions : Stale(s)' => Stale(s) \/ s \in handlers \ handlers']_vars
  BY <1>1 DEF StaysCurrent
<1> QED
  BY <1>2, Invariant, PTL DEF Spec, BatchIsCurrent

=============================================================================
