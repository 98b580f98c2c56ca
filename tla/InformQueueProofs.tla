-------------------------- MODULE InformQueueProofs --------------------------
(***************************************************************************)
(* Proofs about the queue, the flag and the eventfd, for any number of     *)
(* producers and of calls.  The invariant is TypeOK /\ OneWakeup: that the *)
(* eventfd holds 0 or 1 follows only from there being one wake-up, so the  *)
(* two are proved together.  What the abstract channel promises is proved  *)
(* of its own steps, and carried over by the refinement.                   *)
(***************************************************************************)
EXTENDS InformQueue, SequenceTheorems, TLAPS

IInv == TypeOK /\ OneWakeup

LEMMA InitInvariant == Init => IInv
<1> SUFFICES ASSUME Init PROVE IInv
  OBVIOUS
<1>1. TypeOK
  <2>1. <<>> \in Seq(Events)
    BY EmptySeq
  <2> QED
    BY <2>1 DEF Init, TypeOK, ProducerStates, LoopStates
<1>2. OneWakeup
  BY DEF Init, OneWakeup, Writing, Draining
<1> QED
  BY <1>1, <1>2 DEF IInv

LEMMA TypeStep == IInv /\ [Next]_vars => TypeOK'
<1> SUFFICES ASSUME IInv, [Next]_vars PROVE TypeOK'
  OBVIOUS
<1> USE DEF IInv, TypeOK, ProducerStates, LoopStates
<1>1. ASSUME NEW p \in Producers, Push(p) PROVE TypeOK'
  <2>1. [from |-> p, num |-> pushed[p] + 1] \in Events
    BY DEF Events
  <2>2. event_queue' \in Seq(Events)
    BY <1>1, <2>1 DEF Push
  <2> QED
    BY <1>1, <2>2 DEF Push
<1>2. ASSUME NEW p \in Producers, TestAndSet(p) PROVE TypeOK'
  BY <1>2 DEF TestAndSet
\* The producer that is about to write finds the eventfd at 0.
<1>3. ASSUME NEW p \in Producers, WriteFd(p) PROVE TypeOK'
  <2>1. efd = 0
    BY <1>3 DEF WriteFd, OneWakeup, Writing
  <2> QED
    BY <1>3, <2>1 DEF WriteFd
<1>4. CASE Poll \/ PollOther
  BY <1>4 DEF Poll, PollOther
<1>5. CASE ReadFd
  BY <1>5 DEF ReadFd
<1>6. CASE PopEvent
  <2>1. Head(event_queue) \in Events /\ Tail(event_queue) \in Seq(Events)
    BY <1>6, HeadTailProperties DEF PopEvent
  <2>2. Append(handled, Head(event_queue)) \in Seq(Events)
    BY <2>1
  <2> QED
    BY <1>6, <2>1, <2>2 DEF PopEvent
<1>7. CASE PopEmpty \/ Clear \/ Check \/ Close
  BY <1>7 DEF PopEmpty, Clear, Check, Close
<1>8. CASE Destroy
  <2>1. event_queue' \in Seq(Events) /\ freed' \in Seq(Events)
    BY <1>8, EmptySeq DEF Destroy
  <2> QED
    BY <1>8, <2>1 DEF Destroy
<1>9. CASE UNCHANGED vars
  BY <1>9 DEF vars
<1> QED
  BY <1>1, <1>2, <1>3, <1>4, <1>5, <1>6, <1>7, <1>8, <1>9
     DEF Next, Loop, Producer

LEMMA WakeupStep == IInv /\ [Next]_vars => OneWakeup'
<1> SUFFICES ASSUME IInv, [Next]_vars PROVE OneWakeup'
  OBVIOUS
<1> USE DEF IInv, TypeOK, OneWakeup, Writing, Draining
<1>1. ASSUME NEW p \in Producers, Push(p) PROVE OneWakeup'
  <2>1. Writing' = Writing
    BY <1>1 DEF Push
  <2> QED
    BY <1>1, <2>1 DEF Push
\* The flag was clear: the wake-up appears, with the producer that set it.
\* The flag was set: it is somewhere already.
<1>2. ASSUME NEW p \in Producers, TestAndSet(p) PROVE OneWakeup'
  <2>1. Writing' = IF informed THEN Writing ELSE {p}
    BY <1>2 DEF TestAndSet
  <2> QED
    BY <1>2, <2>1 DEF TestAndSet
\* The wake-up moves from the producer to the eventfd.
<1>3. ASSUME NEW p \in Producers, WriteFd(p) PROVE OneWakeup'
  <2>1. p \in Writing /\ Writing = {p}
    BY <1>3 DEF WriteFd
  <2>2. Writing' = {}
    BY <1>3, <2>1 DEF WriteFd
  <2> QED
    BY <1>3, <2>1, <2>2 DEF WriteFd
<1>4. CASE Poll \/ PollOther
  BY <1>4 DEF Poll, PollOther
\* The wake-up moves from the eventfd to the loop's thread.
<1>5. CASE ReadFd
  BY <1>5 DEF ReadFd
<1>6. CASE PopEvent \/ PopEmpty
  BY <1>6 DEF PopEvent, PopEmpty
\* The wake-up ends.
<1>7. CASE Clear
  BY <1>7 DEF Clear
<1>8. CASE Check \/ Close \/ Destroy
  BY <1>8 DEF Check, Close, Destroy
<1>9. CASE UNCHANGED vars
  BY <1>9 DEF vars
<1> QED
  BY <1>1, <1>2, <1>3, <1>4, <1>5, <1>6, <1>7, <1>8, <1>9
     DEF Next, Loop, Producer

\* The inductive invariant holds throughout.
THEOREM Invariant == Spec => []IInv
<1>1. IInv /\ [Next]_vars => IInv'
  BY TypeStep, WakeupStep DEF IInv
<1> QED
  BY <1>1, InitInvariant, PTL DEF Spec

\* Types, and an eventfd that is never written twice without a read between.
THEOREM TypeCorrect == Spec => []TypeOK
<1>1. IInv => TypeOK
  BY DEF IInv
<1> QED
  BY <1>1, Invariant, PTL

\* informed_ stands for exactly one wake-up (Inform, HandleRead).
THEOREM WakeupIsUnique == Spec => []OneWakeup
<1>1. IInv => OneWakeup
  BY DEF IInv
<1> QED
  BY <1>1, Invariant, PTL

(***************************************************************************)
(* An Event is stranded by informed_.clear() of HandleRead and by nothing  *)
(* else.  The one case that is not plain is a write to the eventfd: the    *)
(* flag is set while it is under way.                                      *)
(***************************************************************************)
THEOREM StrandedOnlyByClear == Spec => OnlyClearStrands
<1> USE DEF Stranded
<1>1. ASSUME IInv, [Next]_vars, Stranded' PROVE Stranded \/ Clear
  <2> USE DEF IInv, TypeOK
  <2>1. ASSUME NEW p \in Producers, Producer(p) PROVE FALSE
    BY <1>1, <2>1 DEF Producer, Push, TestAndSet, WriteFd, OneWakeup, Writing
  <2>2. CASE Poll \/ ReadFd \/ PopEvent \/ PopEmpty \/ Destroy
    BY <1>1, <2>2 DEF Poll, ReadFd, PopEvent, PopEmpty, Destroy
  <2>3. CASE PollOther \/ Check \/ Close
    BY <1>1, <2>3 DEF PollOther, Check, Close
  <2>4. CASE UNCHANGED vars
    BY <1>1, <2>4 DEF vars
  <2> QED
    BY <1>1, <2>1, <2>2, <2>3, <2>4 DEF Next, Loop
<1>2. IInv /\ [Next]_vars => [Stranded' => Stranded \/ Clear]_vars
  BY <1>1
<1> QED
  BY <1>2, Invariant, PTL DEF Spec, OnlyClearStrands

(***************************************************************************)
(* The queue, the flag and the eventfd implement the abstract channel:     *)
(* Push posts, PopEvent delivers, Destroy discards, and every other step   *)
(* is invisible to the callers.                                            *)
(***************************************************************************)
THEOREM Refinement == Spec => ImplementsChannel
<1>1. Init => Channel!Init
  BY DEF Init, Channel!Init
<1>2. [Next]_vars => [Channel!Next]_Channel!vars
  <2> SUFFICES ASSUME [Next]_vars PROVE [Channel!Next]_Channel!vars
    OBVIOUS
  <2> USE DEF Channel!Next, Channel!vars
  <2>1. ASSUME NEW p \in Producers, Push(p) PROVE Channel!Post(p)
    BY <2>1 DEF Push, Channel!Post
  <2>2. ASSUME NEW p \in Producers, TestAndSet(p) \/ WriteFd(p)
        PROVE  UNCHANGED Channel!vars
    BY <2>2 DEF TestAndSet, WriteFd
  <2>3. ASSUME PopEvent PROVE Channel!Deliver
    BY <2>3 DEF PopEvent, Channel!Deliver
  <2>4. ASSUME Destroy PROVE Channel!Discard
    BY <2>4 DEF Destroy, Channel!Discard
  <2>5. ASSUME Poll \/ PollOther \/ ReadFd \/ PopEmpty \/ Clear \/ Check \/ Close
        PROVE  UNCHANGED Channel!vars
    BY <2>5 DEF Poll, PollOther, ReadFd, PopEmpty, Clear, Check, Close
  <2>6. CASE UNCHANGED vars
    BY <2>6 DEF vars
  <2> QED
    BY <2>1, <2>2, <2>3, <2>4, <2>5, <2>6 DEF Next, Loop, Producer
<1> QED
  BY <1>1, <1>2, PTL DEF Spec, ImplementsChannel, Channel!Spec

-----------------------------------------------------------------------------

(***************************************************************************)
(* The abstract channel itself loses, repeats and overtakes nothing.  The  *)
(* lemmas are about the actions of EventChannel, with its variables        *)
(* standing for those of InformQueue.                                      *)
(***************************************************************************)

\* Only a channel that is closed has freed anything: while it is open, its
\* history is what was handled, followed by what is in the queue.
NothingDiscarded == lpc # "destroyed" => freed = <<>>

ChannelInv == Channel!TypeOK /\ NothingDiscarded /\ Channel!OnceInOrder

\* Posting appends the new Event to the history (ProcessEvent's push).
LEMMA HistoryOfPost ==
  ASSUME Channel!TypeOK, NEW p \in Producers, Channel!Post(p)
  PROVE  Channel!History' = Append(Channel!History, [from |-> p, num |-> pushed[p] + 1])
<1> DEFINE e == [from |-> p, num |-> pushed[p] + 1]
<1>1. e \in Channel!Events
  BY DEF Channel!TypeOK, Channel!Events
<1>2. <<e>> \in Seq(Channel!Events)
  BY <1>1
<1>3. /\ handled \in Seq(Channel!Events) /\ freed \in Seq(Channel!Events)
      /\ event_queue \in Seq(Channel!Events)
      /\ handled \o freed \in Seq(Channel!Events)
  BY ConcatProperties DEF Channel!TypeOK
<1>4. event_queue' = event_queue \o <<e>>
  BY <1>1, <1>3, AppendIsConcat DEF Channel!Post
<1>5. (handled \o freed) \o (event_queue \o <<e>>)
        = ((handled \o freed) \o event_queue) \o <<e>>
  BY <1>2, <1>3, ConcatAssociative
<1>6. ((handled \o freed) \o event_queue) \o <<e>> = Append(Channel!History, e)
  <2>1. Channel!History \in Seq(Channel!Events)
    BY <1>3, ConcatProperties DEF Channel!History
  <2> QED
    BY <1>1, <2>1, AppendIsConcat DEF Channel!History
<1> QED
  BY <1>4, <1>5, <1>6 DEF Channel!Post, Channel!History

\* Delivering moves the front of event_queue to the end of handled, next to
\* each other in the history (ProcessEventInQueueInLoop's pop).
LEMMA HistoryOfDeliver ==
  ASSUME Channel!TypeOK, NothingDiscarded, Channel!Deliver
  PROVE  Channel!History' = Channel!History
<1>1. /\ handled \in Seq(Channel!Events) /\ event_queue \in Seq(Channel!Events)
      /\ event_queue # <<>> /\ freed = <<>> /\ freed' = <<>>
  BY DEF Channel!TypeOK, NothingDiscarded, Channel!Deliver
<1>2. /\ Head(event_queue) \in Channel!Events
      /\ Tail(event_queue) \in Seq(Channel!Events)
      /\ <<Head(event_queue)>> \in Seq(Channel!Events)
  BY <1>1, HeadTailProperties
<1>3. event_queue = <<Head(event_queue)>> \o Tail(event_queue)
  <2>1. Len(event_queue) \in Nat \ {0}
    BY <1>1, EmptySeq
  <2>2. 1 \in 1..Len(event_queue) /\ Len(event_queue) \in 1..Len(event_queue)
    BY <2>1
  <2>3. SubSeq(event_queue, 1, Len(event_queue))
          = <<event_queue[1]>> \o SubSeq(event_queue, 2, Len(event_queue))
    BY <1>1, <2>2, SubSeqRecursiveFirst
  <2>4. SubSeq(event_queue, 1, Len(event_queue)) = event_queue
    BY <1>1, SubSeqFull
  <2>5. Tail(event_queue) = SubSeq(event_queue, 2, Len(event_queue))
    BY <1>1, TailIsSubSeq
  <2>6. Head(event_queue) = event_queue[1]
    BY <1>1
  <2> QED
    BY <2>3, <2>4, <2>5, <2>6
<1>4. Append(handled, Head(event_queue)) = handled \o <<Head(event_queue)>>
  BY <1>1, <1>2, AppendIsConcat
<1>5. (handled \o <<Head(event_queue)>>) \o Tail(event_queue)
        = handled \o (<<Head(event_queue)>> \o Tail(event_queue))
  BY <1>1, <1>2, ConcatAssociative
<1>6. handled' \in Seq(Channel!Events)
  BY <1>1, <1>2 DEF Channel!Deliver
<1>7. handled \o <<>> = handled /\ handled' \o <<>> = handled'
  BY <1>1, <1>6, ConcatEmptySeq
<1> QED
  BY <1>1, <1>3, <1>4, <1>5, <1>7 DEF Channel!Deliver, Channel!History

\* Discarding takes event_queue as a whole (the pop loop of ~EventLoop).
LEMMA HistoryOfDiscard ==
  ASSUME Channel!TypeOK, NothingDiscarded, Channel!Discard
  PROVE  Channel!History' = Channel!History
<1>1. /\ handled \in Seq(Channel!Events) /\ event_queue \in Seq(Channel!Events)
      /\ freed = <<>> /\ freed' = event_queue /\ event_queue' = <<>>
      /\ handled' = handled
  BY DEF Channel!TypeOK, NothingDiscarded, Channel!Discard
<1>2. handled \o event_queue \in Seq(Channel!Events)
  BY <1>1, ConcatProperties
<1>3. (handled \o event_queue) \o <<>> = handled \o event_queue
  BY <1>2, ConcatEmptySeq
<1>4. handled \o <<>> = handled
  BY <1>1, ConcatEmptySeq
<1> QED
  BY <1>1, <1>3, <1>4 DEF Channel!History

LEMMA ChannelTypeStep == Channel!TypeOK /\ [Channel!Next]_Channel!vars => Channel!TypeOK'
<1> SUFFICES ASSUME Channel!TypeOK, [Channel!Next]_Channel!vars PROVE Channel!TypeOK'
  OBVIOUS
<1>1. ASSUME NEW p \in Producers, Channel!Post(p) PROVE Channel!TypeOK'
  <2>1. [from |-> p, num |-> pushed[p] + 1] \in Channel!Events
    BY DEF Channel!TypeOK, Channel!Events
  <2>2. event_queue' \in Seq(Channel!Events)
    BY <1>1, <2>1 DEF Channel!Post, Channel!TypeOK
  <2> QED
    BY <1>1, <2>2 DEF Channel!Post, Channel!TypeOK
<1>2. CASE Channel!Deliver
  <2>1. Head(event_queue) \in Channel!Events /\ Tail(event_queue) \in Seq(Channel!Events)
    BY <1>2, HeadTailProperties DEF Channel!Deliver, Channel!TypeOK
  <2> QED
    BY <1>2, <2>1 DEF Channel!Deliver, Channel!TypeOK
<1>3. CASE Channel!Discard
  <2>1. event_queue' \in Seq(Channel!Events) /\ freed' \in Seq(Channel!Events)
    BY <1>3, EmptySeq DEF Channel!Discard, Channel!TypeOK
  <2> QED
    BY <1>3, <2>1 DEF Channel!Discard, Channel!TypeOK
<1>4. CASE UNCHANGED Channel!vars
  BY <1>4 DEF Channel!vars, Channel!TypeOK
<1> QED
  BY <1>1, <1>2, <1>3, <1>4 DEF Channel!Next

\* A new last Event of a producer keeps the history in order.
LEMMA OrderOfPost ==
  ASSUME ChannelInv, NEW p \in Producers, Channel!Post(p)
  PROVE  Channel!OnceInOrder'
<1> DEFINE e == [from |-> p, num |-> pushed[p] + 1]
           n == Len(Channel!History)
<1>1. /\ pushed \in [Producers -> Nat]
      /\ pushed' = [pushed EXCEPT ![p] = @ + 1]
      /\ e \in Channel!Events
  BY DEF ChannelInv, Channel!TypeOK, Channel!Post, Channel!Events
<1>2. Channel!History \in Seq(Channel!Events)
  BY ConcatProperties DEF ChannelInv, Channel!TypeOK, Channel!History
<1>3. n \in Nat
  BY <1>2
<1>4. Channel!History' = Append(Channel!History, e)
  BY HistoryOfPost DEF ChannelInv
<1>5. /\ Len(Channel!History') = n + 1
      /\ \A i \in 1..n : Channel!History'[i] = Channel!History[i]
      /\ Channel!History'[n + 1] = e
  BY <1>1, <1>2, <1>4, AppendProperties
<1>6. \A i \in 1..n : Channel!History[i] \in Channel!Events
  BY <1>2, ElementOfSeq
<1>7. /\ \A i, j \in 1..n : i < j /\ Channel!History[i].from = Channel!History[j].from
                              => Channel!History[i].num < Channel!History[j].num
      /\ \A i \in 1..n : Channel!History[i].num \in 1..pushed[Channel!History[i].from]
      /\ \A q \in Producers : \A k \in 1..pushed[q] :
            \E i \in 1..n : Channel!History[i] = [from |-> q, num |-> k]
  BY DEF ChannelInv, Channel!OnceInOrder
<1> HIDE DEF n
<1>8. ASSUME NEW i \in 1..(n + 1), NEW j \in 1..(n + 1), i < j,
             Channel!History'[i].from = Channel!History'[j].from
      PROVE  Channel!History'[i].num < Channel!History'[j].num
  <2>1. i \in 1..n
    BY <1>3, <1>8
  <2>2. CASE j = n + 1
    <3>1. Channel!History[i].from = p
      BY <1>5, <1>8, <2>1, <2>2
    <3>2. Channel!History[i].num \in 1..pushed[p]
      BY <1>7, <2>1, <3>1
    <3> QED
      BY <1>1, <1>5, <2>1, <2>2, <3>2
  <2>3. CASE j \in 1..n
    BY <1>5, <1>7, <1>8, <2>1, <2>3
  <2> QED
    BY <1>3, <2>2, <2>3
<1>9. ASSUME NEW i \in 1..(n + 1)
      PROVE  Channel!History'[i].num \in 1..pushed'[Channel!History'[i].from]
  <2>1. CASE i = n + 1
    BY <1>1, <1>5, <2>1
  <2>2. CASE i \in 1..n
    <3>1. Channel!History[i].from \in Producers
      BY <1>6, <2>2 DEF Channel!Events
    <3>2. /\ pushed[Channel!History[i].from] \in Nat
          /\ pushed'[Channel!History[i].from] \in Nat
          /\ pushed[Channel!History[i].from] <= pushed'[Channel!History[i].from]
      BY <1>1, <3>1
    <3>3. Channel!History'[i] = Channel!History[i]
      BY <1>5, <2>2
    <3>4. Channel!History[i].num \in 1..pushed[Channel!History[i].from]
      BY <1>7, <2>2
    <3> QED
      BY <3>2, <3>3, <3>4
  <2> QED
    BY <1>3, <2>1, <2>2
<1>10. ASSUME NEW q \in Producers, NEW k \in 1..pushed'[q]
       PROVE  \E i \in 1..(n + 1) : Channel!History'[i] = [from |-> q, num |-> k]
  <2>1. CASE k \in 1..pushed[q]
    <3>1. PICK i \in 1..n : Channel!History[i] = [from |-> q, num |-> k]
      BY <1>7, <2>1
    <3>2. i \in 1..(n + 1) /\ Channel!History'[i] = [from |-> q, num |-> k]
      BY <1>3, <1>5, <3>1
    <3> QED
      BY <3>2
  <2>2. CASE k \notin 1..pushed[q]
    <3>1. q = p /\ k = pushed[p] + 1
      BY <1>1, <2>2
    <3>2. n + 1 \in 1..(n + 1) /\ Channel!History'[n + 1] = [from |-> q, num |-> k]
      BY <1>3, <1>5, <3>1
    <3> QED
      BY <3>2
  <2> QED
    BY <2>1, <2>2
<1> QED
  BY <1>5, <1>8, <1>9, <1>10 DEF Channel!OnceInOrder

LEMMA ChannelStep == ChannelInv /\ [Channel!Next]_Channel!vars => ChannelInv'
<1> SUFFICES ASSUME ChannelInv, [Channel!Next]_Channel!vars PROVE ChannelInv'
  OBVIOUS
<1>1. Channel!TypeOK'
  BY ChannelTypeStep DEF ChannelInv
<1>2. NothingDiscarded'
  BY DEF ChannelInv, NothingDiscarded, Channel!Next, Channel!Post, Channel!Deliver, Channel!Discard, Channel!vars
<1>3. Channel!OnceInOrder'
  <2>1. ASSUME NEW p \in Producers, Channel!Post(p) PROVE Channel!OnceInOrder'
    BY <2>1, OrderOfPost
  <2>2. CASE Channel!Deliver
    <3>1. Channel!History' = Channel!History /\ pushed' = pushed
      BY <2>2, HistoryOfDeliver DEF ChannelInv, Channel!Deliver
    <3> QED
      BY <3>1 DEF ChannelInv, Channel!OnceInOrder
  <2>3. CASE Channel!Discard
    <3>1. Channel!History' = Channel!History /\ pushed' = pushed
      BY <2>3, HistoryOfDiscard DEF ChannelInv, Channel!Discard
    <3> QED
      BY <3>1 DEF ChannelInv, Channel!OnceInOrder
  <2>4. CASE UNCHANGED Channel!vars
    <3>1. Channel!History' = Channel!History /\ pushed' = pushed
      BY <2>4 DEF Channel!vars, Channel!History
    <3> QED
      BY <3>1 DEF ChannelInv, Channel!OnceInOrder
  <2> QED
    BY <2>1, <2>2, <2>3, <2>4 DEF Channel!Next
<1> QED
  BY <1>1, <1>2, <1>3 DEF ChannelInv

\* No Event is lost, handled twice or overtaken by one of the same thread.
THEOREM ChannelOnceInOrder == Channel!Spec => []Channel!OnceInOrder
<1>1. Channel!Init => ChannelInv
  <2> SUFFICES ASSUME Channel!Init PROVE ChannelInv
    OBVIOUS
  <2>1. Channel!TypeOK /\ NothingDiscarded
    BY DEF Channel!Init, Channel!TypeOK, NothingDiscarded
  <2>2. Channel!History = <<>> /\ Len(Channel!History) = 0
    BY DEF Channel!Init, Channel!History
  <2>3. \A p \in Producers : pushed[p] = 0
    BY DEF Channel!Init
  <2> QED
    BY <2>1, <2>2, <2>3 DEF ChannelInv, Channel!OnceInOrder
<1>2. ChannelInv => Channel!OnceInOrder
  BY DEF ChannelInv
<1> QED
  BY <1>1, <1>2, ChannelStep, PTL DEF Channel!Spec

\* No Event is lost, handled twice or overtaken by one of the same thread:
\* what is proved of the abstract channel holds of the code's.
THEOREM HandledOnceInOrder == Spec => []OnceInOrder
BY Refinement, ChannelOnceInOrder, PTL DEF ImplementsChannel, OnceInOrder

=============================================================================
