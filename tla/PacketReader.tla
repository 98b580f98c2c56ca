----------------------------- MODULE PacketReader -----------------------------
(***************************************************************************)
(* TcpSession::HandleRead: how the stream of bytes of a TCP connection     *)
(* becomes the packets that ProcessData is given, through a read_buffer_   *)
(* that is filled, grown, read from and moved to the front.                *)
(*                                                                         *)
(* A byte stands for its place in the peer's stream, 1, 2, 3, ..., so that *)
(* one that is lost, doubled or misplaced shows.  The peer sends whole     *)
(* packets of any lengths, cut by the network in any way, and may end the  *)
(* connection anywhere.  GetPacketLength is the user's; it is taken to do  *)
(* what tcp_session.h asks of it.  When and how often HandleRead is called *)
(* is module EventLoop; a Recv that gives EAGAIN changes nothing.          *)
(***************************************************************************)
EXTENDS Buffer

CONSTANTS
  Packets,    \* how many packets the peer sends
  Header,     \* how many bytes GetPacketLength needs to tell a length
  Lengths,    \* the lengths a packet may have, the header included
  MaxStream   \* bound of the model: bytes the peer sends

ASSUME PacketsAssumption == Packets \in Nat
ASSUME HeaderAssumption == Header \in Nat \ {0}
ASSUME LengthsAssumption ==
  Lengths \subseteq Nat /\ \A n \in Lengths : n >= Header
ASSUME MaxStreamAssumption == MaxStream \in Nat

VARIABLES
  ends,      \* the peer's stream: where each packet ends
  received,  \* how many bytes Recv has given
  pc,        \* where HandleRead is
  handled    \* history: what ProcessData was given, call by call

vars == <<buffer, ends, received, pc, handled>>

ReaderStates ==
  {"idle",     \* HandleRead has returned true
   "full",     \* Recv has returned, Space is about to be looked at
   "packets",  \* in the loop over the packets
   "closed"}   \* HandleRead has returned false

-----------------------------------------------------------------------------

\* ends[i] is the number of bytes in the first i packets.
Streams ==
  {e \in [0..Packets -> 0..MaxStream] :
     /\ e[0] = 0
     /\ \A i \in 1..Packets : e[i] - e[i - 1] \in Lengths
     /\ \A i, j \in 0..Packets : i < j => e[i] < e[j]}

Init ==
  /\ InitBuffer
  /\ ends \in Streams
  /\ received = 0
  /\ pc = "idle"
  /\ handled = <<>>

\* The packets whose header is at the front of the buffer.
AtFront == {i \in 1..Packets : Front(Header) = Stretch(ends[i - 1], Header)}

\* GetPacketLength, when it returns no error: 0 is for a header that is not
\* complete.  Of bytes that are no header it would make any length.
PacketLengths ==
  IF Unread < Header THEN {0}
  ELSE IF AtFront = {} THEN Lengths
  ELSE {ends[i] - ends[i - 1] : i \in AtFront}

\* A faulty RecvData: Recv is allowed one byte more than there is room for.
RecvDataTooMuch ==
  /\ pc = "idle"
  /\ \E n \in 1..(Space + 1) :
       /\ received + n <= ends[Packets]
       /\ Store(Stretch(received, n), n)
       /\ received' = received + n
  /\ pc' = "full"
  /\ UNCHANGED <<ends, handled>>

\* Recv gives some of what the peer has sent, as much as there is room for.
RecvData ==
  /\ pc = "idle"
  /\ \E n \in 1..Space :
       /\ received + n <= ends[Packets]
       /\ Store(Stretch(received, n), n)
       /\ received' = received + n
  /\ pc' = "full"
  /\ UNCHANGED <<ends, handled>>

\* Recv gives 0, at the end of the stream and whenever it is called with no
\* room, or an error.
RecvFinished ==
  /\ pc = "idle"
  /\ pc' = "closed"
  /\ UNCHANGED <<buffer, ends, received, handled>>

\* A faulty GrowIfFull: the buffer is left full.
GrowIfFullNot ==
  /\ pc = "full"
  /\ pc' = "packets"
  /\ UNCHANGED <<buffer, ends, received, handled>>

\* What Grow returns is not looked at.
GrowIfFull ==
  /\ pc = "full"
  /\ IF Space = 0 THEN Grow ELSE UNCHANGED buffer
  /\ pc' = "packets"
  /\ UNCHANGED <<ends, received, handled>>

\* A faulty Packet: HandleRead returns after one packet.
PacketBreaks ==
  /\ pc = "packets"
  /\ \E n \in PacketLengths :
       /\ n > 0
       /\ n <= Unread
       /\ handled' = Append(handled, Front(n))
       /\ ReadDone(n)
  /\ pc' = "idle"
  /\ UNCHANGED <<ends, received>>

\* A complete packet is at the front, and ProcessData succeeds.
Packet ==
  /\ pc = "packets"
  /\ \E n \in PacketLengths :
       /\ n > 0
       /\ n <= Unread
       /\ handled' = Append(handled, Front(n))
       /\ ReadDone(n)
  /\ UNCHANGED <<ends, received, pc>>

\* GetPacketLength gives an error or ProcessData fails.
PacketFails ==
  /\ pc = "packets"
  /\ Unread >= Header
  /\ pc' = "closed"
  /\ UNCHANGED <<buffer, ends, received, handled>>

\* A packet whose length is known is not all there.  The return skips Adjust.
PacketPartial ==
  /\ pc = "packets"
  /\ \E n \in PacketLengths : n > Unread
  /\ pc' = "idle"
  /\ UNCHANGED <<buffer, ends, received, handled>>

\* Less than a header is left: break, and Adjust.
PacketsDone ==
  /\ pc = "packets"
  /\ 0 \in PacketLengths
  /\ Adjust
  /\ pc' = "idle"
  /\ UNCHANGED <<ends, received, handled>>

Next ==
  \/ RecvData \/ RecvFinished \/ GrowIfFull
  \/ Packet \/ PacketFails \/ PacketPartial \/ PacketsDone

Spec == Init /\ [][Next]_vars

-----------------------------------------------------------------------------

TypeOK ==
  /\ BufferTypeOK
  /\ ends \in Streams
  /\ received \in 0..MaxStream
  /\ pc \in ReaderStates
  /\ handled \in Seq(Seq(Nat))

(***************************************************************************)
(* ProcessData is given the peer's packets, each whole, once and in order, *)
(* with its own bytes, however the stream was cut into pieces and whenever *)
(* the buffer grew or was moved in between.                                *)
(***************************************************************************)
Framed ==
  /\ Len(handled) <= Packets
  /\ \A i \in 1..Len(handled) :
       handled[i] = Stretch(ends[i - 1], ends[i] - ends[i - 1])

(***************************************************************************)
(* When HandleRead returns true no packet that has arrived completely is   *)
(* left in the buffer: it would wait there for the peer to send more.      *)
(***************************************************************************)
NothingWaits ==
  pc = "idle" /\ Len(handled) < Packets => received < ends[Len(handled) + 1]

(***************************************************************************)
(* Recv is called with room, unless memory has run out.  With no room it   *)
(* would give 0, which HandleRead takes for the end of the connection.     *)
(***************************************************************************)
RoomToRecv == pc = "idle" => Space > 0 \/ ~CanGrow

(***************************************************************************)
(* The room that handled packets took is given back by the time HandleRead *)
(* returns true, unless the header of an incomplete packet is behind them; *)
(* only then does a buffer that holds little fill up and grow.             *)
(***************************************************************************)
GivenBack == pc = "idle" /\ read_index > 0 => Unread >= Header

=============================================================================
