---------------------------- MODULE EventChannel ----------------------------
(***************************************************************************)
(* What EventLoop::ProcessEvent promises a caller that is not on the       *)
(* loop's thread: the request is kept as an Event, the loop's thread       *)
(* handles the Events one by one in the order they were pushed, and the    *)
(* Events still waiting when the loop is destroyed are given back to the   *)
(* allocator.  No flag, no eventfd and no thread is visible here:          *)
(* InformQueue shows how the code implements this channel.                 *)
(***************************************************************************)
EXTENDS Integers, Sequences

CONSTANTS
  Producers,  \* the threads that are not the loop's own
  MaxPush     \* bound of the model: Events one producer pushes

VARIABLES
  posted,     \* [Producers -> Nat]: how many Events each producer pushed
  pending,    \* the Events not handled yet, oldest first
  delivered,  \* the Events the loop's thread handled, in that order
  discarded,  \* the Events freed unhandled by the destructor
  open        \* FALSE once the loop is destroyed

vars == <<posted, pending, delivered, discarded, open>>

\* The n-th Event of a producer.
Events == [from : Producers, num : Nat]

Init ==
  /\ posted = [p \in Producers |-> 0]
  /\ pending = <<>>
  /\ delivered = <<>>
  /\ discarded = <<>>
  /\ open = TRUE

Post(p) ==
  /\ open
  /\ posted[p] < MaxPush
  /\ posted' = [posted EXCEPT ![p] = @ + 1]
  /\ pending' = Append(pending, [from |-> p, num |-> posted[p] + 1])
  /\ UNCHANGED <<delivered, discarded, open>>

Deliver ==
  /\ open
  /\ pending # <<>>
  /\ pending' = Tail(pending)
  /\ delivered' = Append(delivered, Head(pending))
  /\ UNCHANGED <<posted, discarded, open>>

Discard ==
  /\ open
  /\ open' = FALSE
  /\ discarded' = pending
  /\ pending' = <<>>
  /\ UNCHANGED <<posted, delivered>>

Next == Deliver \/ Discard \/ \E p \in Producers : Post(p)

Spec == Init /\ [][Next]_vars

-----------------------------------------------------------------------------

TypeOK ==
  /\ posted \in [Producers -> Nat]
  /\ pending \in Seq(Events)
  /\ delivered \in Seq(Events)
  /\ discarded \in Seq(Events)
  /\ open \in BOOLEAN

\* Every Event that ever entered the channel, in the order it left or will.
History == delivered \o discarded \o pending

(***************************************************************************)
(* No Event is lost, handled twice or overtaken by a later Event of the    *)
(* same thread: along History, the Events of a producer p are numbered     *)
(* 1, 2, ..., posted[p], each once and in that order.                      *)
(***************************************************************************)
OnceInOrder ==
  /\ \A i, j \in 1..Len(History) :
        i < j /\ History[i].from = History[j].from
          => History[i].num < History[j].num
  /\ \A i \in 1..Len(History) :
        History[i].num \in 1..posted[History[i].from]
  /\ \A p \in Producers : \A n \in 1..posted[p] :
        \E i \in 1..Len(History) : History[i] = [from |-> p, num |-> n]

=============================================================================
