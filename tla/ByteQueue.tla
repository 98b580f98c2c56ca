------------------------------ MODULE ByteQueue ------------------------------
(***************************************************************************)
(* What a TcpSession promises of the bytes it is given to send: those it   *)
(* takes go out on the connection once and in order, some at a time.  A    *)
(* byte is its place among the bytes taken.  No buffer, no index and no    *)
(* epoll is visible here: PacketWriter shows how the code implements this. *)
(***************************************************************************)
EXTENDS Integers, Sequences

CONSTANT MaxPut  \* bound of the model: bytes the session is given

VARIABLES
  put,    \* how many bytes the session has taken
  queue,  \* the bytes not sent yet, oldest first
  wire    \* the bytes sent, in that order

vars == <<put, queue, wire>>

\* The n bytes after the first k.
Stretch(k, n) == [i \in 1..n |-> k + i]

Init ==
  /\ put = 0
  /\ queue = <<>>
  /\ wire = <<>>

Put(n) ==
  /\ put + n <= MaxPut
  /\ put' = put + n
  /\ queue' = queue \o Stretch(put, n)
  /\ UNCHANGED wire

Take(n) ==
  /\ n <= Len(queue)
  /\ wire' = wire \o SubSeq(queue, 1, n)
  /\ queue' = SubSeq(queue, n + 1, Len(queue))
  /\ UNCHANGED put

Next == \E n \in 1..MaxPut : Put(n) \/ Take(n)

Spec == Init /\ [][Next]_vars

-----------------------------------------------------------------------------

TypeOK ==
  /\ put \in Nat
  /\ queue \in Seq(Nat)
  /\ wire \in Seq(Nat)

(***************************************************************************)
(* What has been sent and what waits is all that was taken, once and in    *)
(* order.                                                                  *)
(***************************************************************************)
SentInOrder == wire \o queue = Stretch(0, put)

=============================================================================
