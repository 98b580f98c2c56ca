-------------------------- MODULE PacketReaderProofs --------------------------
(***************************************************************************)
(* Proofs about PacketReader, for every stream, every way it is cut up and *)
(* every buffer size.                                                      *)
(***************************************************************************)
EXTENDS PacketReader, SequenceTheorems, TLAPS

\* The bytes that ProcessData has been given, and the packet that is next.
Taken == ends[Len(handled)]

(***************************************************************************)
(* What is in use of the buffer is the stretch of the stream between what  *)
(* ProcessData was given and what Recv has given.  Everything else rests   *)
(* on this: Grow, Adjust, Store and ReadDone all have to keep it.          *)
(***************************************************************************)
Kept ==
  /\ Len(handled) <= Packets
  /\ received = Taken + Unread
  /\ received <= ends[Packets]
  /\ \A i \in 0..(Unread - 1) : data[read_index + i] = Taken + 1 + i

\* RoomToRecv holds from the look at Space on.
Room == pc \in {"idle", "packets"} => Space > 0 \/ ~CanGrow

IInv ==
  /\ TypeOK
  /\ Kept
  /\ Framed
  /\ Room
  /\ NothingWaits
  /\ GivenBack

\* A stream's ends are numbers, and Streams says how they lie.
LEMMA StreamFacts ==
  ASSUME ends \in Streams
  PROVE  /\ \A i \in 0..Packets : ends[i] \in 0..MaxStream
         /\ ends[0] = 0
         /\ \A i \in 1..Packets : ends[i] - ends[i - 1] \in Lengths
         /\ \A i, j \in 0..Packets : i < j => ends[i] < ends[j]
         /\ \A i \in 0..Packets : ends[i] <= ends[Packets]
<1>1. /\ ends \in [0..Packets -> 0..MaxStream]
      /\ ends[0] = 0
      /\ \A i \in 1..Packets : ends[i] - ends[i - 1] \in Lengths
      /\ \A i, j \in 0..Packets : i < j => ends[i] < ends[j]
  BY DEF Streams
<1>2. ASSUME NEW i \in 0..Packets
      PROVE  ends[i] <= ends[Packets]
  <2>1. Packets \in 0..Packets
    BY PacketsAssumption DEF PacketsAssumption
  <2>2. CASE i = Packets
    BY <2>1, <2>2, <1>1, MaxStreamAssumption DEF MaxStreamAssumption
  <2>3. CASE i # Packets
    <3>1. i < Packets
      BY <2>3, PacketsAssumption DEF PacketsAssumption
    <3> QED
      BY <3>1, <2>1, <1>1, MaxStreamAssumption DEF MaxStreamAssumption
  <2> QED
    BY <2>2, <2>3
<1> QED
  BY <1>1, <1>2

\* GetPacketLength tells the length of the next packet once its header is
\* there: the bytes at the front are that header and no other.
LEMMA LengthIsRight ==
  ASSUME TypeOK, Kept
  PROVE  /\ Unread < Header => PacketLengths = {0}
         /\ Unread >= Header =>
              /\ Len(handled) + 1 \in 1..Packets
              /\ PacketLengths = {ends[Len(handled) + 1] - Taken}
<1> DEFINE h == Len(handled)
<1>0. /\ h \in Nat /\ h <= Packets /\ Packets \in Nat
      /\ Header \in Nat /\ Header > 0
      /\ Unread \in Nat /\ read_index \in Nat
  BY PacketsAssumption, HeaderAssumption
     DEF PacketsAssumption, HeaderAssumption, TypeOK, BufferTypeOK, Kept, Unread
<1>1. Unread < Header => PacketLengths = {0}
  BY DEF PacketLengths
<1>2. ASSUME Unread >= Header
      PROVE  /\ h + 1 \in 1..Packets
             /\ PacketLengths = {ends[h + 1] - Taken}
  <2>1. h \in 0..Packets /\ ends[h] \in Nat /\ ends[Packets] \in Nat
    <3>1. h \in 0..Packets /\ Packets \in 0..Packets
      BY <1>0
    <3> QED
      BY <3>1, StreamFacts, MaxStreamAssumption DEF MaxStreamAssumption, TypeOK
  <2>2. h # Packets
    BY <1>0, <1>2, <2>1 DEF Kept, Taken
  <2>3. h + 1 \in 1..Packets
    BY <1>0, <2>2
  <2>4. \A k \in 1..Header : data[read_index + k - 1] = ends[h] + k
    <3> SUFFICES ASSUME NEW k \in 1..Header
                 PROVE  data[read_index + k - 1] = ends[h] + k
      OBVIOUS
    <3>1. k - 1 \in 0..(Unread - 1)
      BY <1>0, <1>2
    <3>2. data[read_index + (k - 1)] = ends[h] + 1 + (k - 1)
      BY <3>1 DEF Kept, Taken
    <3>3. /\ read_index + (k - 1) = read_index + k - 1
          /\ ends[h] + 1 + (k - 1) = ends[h] + k
      BY <1>0, <2>1
    <3> QED
      BY <3>2, <3>3
  <2>5. Front(Header) = Stretch(ends[h], Header)
    BY <2>4 DEF Front, Stretch
  <2>6. AtFront = {h + 1}
    <3>1. h + 1 \in AtFront
      BY <1>0, <2>3, <2>5 DEF AtFront
    <3>2. ASSUME NEW i \in AtFront
          PROVE  i = h + 1
      <4>1. i \in 1..Packets /\ Front(Header) = Stretch(ends[i - 1], Header)
        BY DEF AtFront
      <4>2. 1 \in 1..Header
        BY <1>0
      <4>3. Stretch(ends[i - 1], Header)[1] = Stretch(ends[h], Header)[1]
        BY <4>1, <2>5
      <4>4. ends[i - 1] + 1 = ends[h] + 1
        BY <4>2, <4>3 DEF Stretch
      <4>5. i - 1 \in 0..Packets
        BY <4>1, <1>0
      <4>6. ends[i - 1] \in Nat
        BY <4>5, StreamFacts, MaxStreamAssumption DEF MaxStreamAssumption, TypeOK
      <4>7. ends[i - 1] = ends[h]
        BY <4>4, <4>6, <2>1
      <4>8. ~(i - 1 < h) /\ ~(h < i - 1)
        BY <4>5, <4>6, <4>7, <2>1, StreamFacts DEF TypeOK
      <4> QED
        BY <4>8, <4>1, <1>0
    <3> QED
      BY <3>1, <3>2
  <2> QED
    BY <1>0, <1>2, <2>3, <2>6 DEF PacketLengths, Taken
<1> QED
  BY <1>1, <1>2

LEMMA InitIInv == Init => IInv
<1> SUFFICES ASSUME Init PROVE IInv
  OBVIOUS
<1> USE InitSizeAssumption, PacketsAssumption, MaxStreamAssumption
    DEF InitSizeAssumption, PacketsAssumption, MaxStreamAssumption
<1>1. BufferTypeOK /\ Unread = 0 /\ Space = InitSize
  BY DEF Init, InitBuffer, BufferTypeOK, NoByte, Unread, Space
<1>2. handled = <<>> /\ Len(handled) = 0 /\ received = 0 /\ read_index = 0
  BY DEF Init, InitBuffer
<1>3. ends[0] = 0 /\ ends[Packets] \in Nat
  BY StreamFacts DEF Init
<1>4. TypeOK
  BY <1>1, <1>2 DEF Init, TypeOK, ReaderStates
<1>5. Kept /\ Framed
  BY <1>1, <1>2, <1>3 DEF Kept, Framed, Taken
<1>6. Room /\ GivenBack
  BY <1>1, <1>2 DEF Room, GivenBack
<1>7. NothingWaits
  <2> SUFFICES ASSUME 0 < Packets PROVE 0 < ends[1]
    BY <1>2 DEF NothingWaits
  <2>1. 0 \in 0..Packets /\ 1 \in 0..Packets
    OBVIOUS
  <2>2. ends[0] < ends[1]
    BY <2>1, StreamFacts DEF Init
  <2> QED
    BY <2>2, <1>3
<1> QED
  BY <1>4, <1>5, <1>6, <1>7 DEF IInv

\* Recv puts the next stretch of the stream behind what is in use.
LEMMA RecvDataKeeps == IInv /\ RecvData => IInv'
<1> SUFFICES ASSUME IInv, RecvData PROVE IInv'
  OBVIOUS
<1>1. PICK n \in 1..Space :
        /\ received + n <= ends[Packets]
        /\ Store(Stretch(received, n), n)
        /\ received' = received + n
  BY DEF RecvData
<1>2. pc' = "full" /\ UNCHANGED <<ends, handled>> /\ UNCHANGED <<size, read_index>>
  BY <1>1 DEF RecvData, Store
<1>3. /\ size \in Nat \ {0} /\ write_index \in 0..size /\ read_index \in 0..write_index
      /\ data \in [0..(size - 1) -> Nat]
      /\ received \in Nat /\ ends[Packets] \in 0..MaxStream /\ Taken \in Nat
  <2>1. Packets \in 0..Packets /\ Len(handled) \in 0..Packets
    BY PacketsAssumption DEF PacketsAssumption, IInv, Kept, TypeOK
  <2> QED
    BY <2>1, StreamFacts, MaxStreamAssumption
       DEF IInv, TypeOK, BufferTypeOK, Taken, MaxStreamAssumption
<1>4. /\ n \in Nat /\ n >= 1 /\ write_index + n <= size
      /\ write_index' = write_index + n
  BY <1>1, <1>3 DEF Space, Store
<1>5. \A i \in 0..(size - 1) :
        data'[i] = IF i \in write_index..(write_index + n - 1)
                     THEN received + (i - write_index + 1) ELSE data[i]
  <2> SUFFICES ASSUME NEW i \in 0..(size - 1)
               PROVE  data'[i] = IF i \in write_index..(write_index + n - 1)
                                   THEN received + (i - write_index + 1) ELSE data[i]
    OBVIOUS
  <2>1. data'[i] = IF i \in write_index..(write_index + n - 1)
                     THEN Stretch(received, n)[i - write_index + 1] ELSE data[i]
    BY <1>1 DEF Store
  <2>2. i \in write_index..(write_index + n - 1) => i - write_index + 1 \in 1..n
    BY <1>3, <1>4
  <2> QED
    BY <2>1, <2>2 DEF Stretch
<1>6. data' \in [0..(size - 1) -> Nat]
  <2>1. DOMAIN data' = 0..(size - 1) /\ data' = [i \in 0..(size - 1) |-> data'[i]]
    BY <1>1 DEF Store
  <2>2. \A i \in 0..(size - 1) : data'[i] \in Nat
    BY <1>3, <1>4, <1>5
  <2> QED
    BY <2>1, <2>2
<1>7. TypeOK'
  <2>1. received' \in 0..MaxStream
    BY <1>1, <1>3, <1>4, MaxStreamAssumption DEF MaxStreamAssumption
  <2> QED
    BY <2>1, <1>2, <1>3, <1>4, <1>6 DEF IInv, TypeOK, BufferTypeOK, ReaderStates
<1>8. Kept'
  <2>1. Taken' = Taken
    BY <1>2 DEF Taken
  <2>2. /\ Unread' = Unread + n /\ Unread \in Nat /\ write_index = read_index + Unread
        /\ received = Taken + Unread
    BY <1>2, <1>3, <1>4 DEF Unread, IInv, Kept
  <2>3. ASSUME NEW i \in 0..(Unread + n - 1)
        PROVE  data'[read_index + i] = Taken + 1 + i
    <3>1. read_index + i \in 0..(size - 1)
      BY <1>3, <1>4, <2>2
    <3>2. CASE i \in 0..(Unread - 1)
      <4>1. read_index + i \notin write_index..(write_index + n - 1)
        BY <3>2, <2>2, <1>3, <1>4
      <4> QED
        BY <4>1, <3>1, <3>2, <1>5 DEF IInv, Kept
    <3>3. CASE i \notin 0..(Unread - 1)
      <4>1. read_index + i \in write_index..(write_index + n - 1)
        BY <3>3, <2>2, <1>3, <1>4
      <4> DEFINE j == read_index + i
      <4>2. j \in 0..(size - 1) /\ j \in write_index..(write_index + n - 1)
        BY <4>1, <3>1
      <4>3. data'[j] = received + (j - write_index + 1)
        BY <4>2, <1>5
      <4>4. received + (j - write_index + 1) = Taken + 1 + i
        BY <2>2, <1>3
      <4> QED
        BY <4>3, <4>4
    <3> QED
      BY <3>2, <3>3
  <2> QED
    BY <2>1, <2>2, <2>3, <1>1, <1>2, <1>3 DEF IInv, Kept
<1>9. Framed' /\ Room' /\ NothingWaits' /\ GivenBack'
  BY <1>2 DEF IInv, Framed, Room, NothingWaits, GivenBack
<1> QED
  BY <1>7, <1>8, <1>9 DEF IInv

\* A doubled buffer holds what it held, and has room.
LEMMA GrowIfFullKeeps == IInv /\ GrowIfFull => IInv'
<1> SUFFICES ASSUME IInv, GrowIfFull PROVE IInv'
  OBVIOUS
<1>1. pc = "full" /\ pc' = "packets" /\ UNCHANGED <<ends, received, handled>>
  BY DEF GrowIfFull
<1>2. /\ size \in Nat \ {0} /\ write_index \in 0..size /\ read_index \in 0..write_index
      /\ data \in [0..(size - 1) -> Nat]
  BY DEF IInv, TypeOK, BufferTypeOK
<1>3. Framed' /\ NothingWaits' /\ GivenBack'
  BY <1>1 DEF IInv, Framed, NothingWaits, GivenBack
<1>4. CASE Space = 0 /\ CanGrow
  <2>1. /\ size' = 2 * size
        /\ data' = [i \in 0..(2 * size - 1) |-> IF i < size THEN data[i] ELSE NoByte]
        /\ UNCHANGED <<read_index, write_index>>
    BY <1>4 DEF GrowIfFull, Grow
  <2>2. data' \in [0..(2 * size - 1) -> Nat]
    BY <2>1, <1>2 DEF NoByte
  <2>3. TypeOK'
    BY <2>1, <2>2, <1>1, <1>2 DEF IInv, TypeOK, BufferTypeOK, ReaderStates
  <2>4. Kept'
    <3>1. Unread' = Unread /\ Taken' = Taken
      BY <2>1, <1>1 DEF Unread, Taken
    <3>2. ASSUME NEW i \in 0..(Unread - 1)
          PROVE  data'[read_index + i] = data[read_index + i]
      <4>1. read_index + i \in 0..(size - 1)
        BY <1>2 DEF Unread
      <4> QED
        BY <4>1, <2>1, <1>2
    <3> QED
      BY <3>1, <3>2, <2>1, <1>1 DEF IInv, Kept
  <2>5. Room'
    BY <2>1, <1>2 DEF Room, Space
  <2> QED
    BY <2>3, <2>4, <2>5, <1>3 DEF IInv
<1>5. CASE ~(Space = 0 /\ CanGrow)
  <2>1. UNCHANGED buffer
    BY <1>5 DEF GrowIfFull, Grow
  <2>2. TypeOK' /\ Kept'
    BY <2>1, <1>1
       DEF IInv, TypeOK, BufferTypeOK, ReaderStates, Kept, Taken, Unread, buffer
  <2>3. Room'
    BY <2>1, <1>1, <1>2, <1>5 DEF Room, Space, CanGrow, buffer
  <2> QED
    BY <2>2, <2>3, <1>3 DEF IInv
<1> QED
  BY <1>4, <1>5

\* The packet at the front is the next one of the stream.
LEMMA PacketKeeps == IInv /\ Packet => IInv'
<1> SUFFICES ASSUME IInv, Packet PROVE IInv'
  OBVIOUS
<1> DEFINE h == Len(handled)
<1>1. PICK n \in PacketLengths :
        /\ n > 0 /\ n <= Unread
        /\ handled' = Append(handled, Front(n))
        /\ ReadDone(n)
  BY DEF Packet
<1>2. /\ pc = "packets" /\ UNCHANGED <<ends, received, pc>>
      /\ read_index' = read_index + n /\ UNCHANGED <<size, write_index, data>>
  BY <1>1 DEF Packet, ReadDone
<1>3. /\ h \in Nat /\ h + 1 \in 1..Packets
      /\ n = ends[h + 1] - Taken
      /\ Header \in Nat
  BY <1>1, LengthIsRight, HeaderAssumption DEF IInv, TypeOK, Unread, BufferTypeOK, HeaderAssumption
<1>4. /\ size \in Nat \ {0} /\ write_index \in 0..size /\ read_index \in 0..write_index
      /\ data \in [0..(size - 1) -> Nat]
      /\ received \in Nat /\ Taken \in Nat /\ ends[h + 1] \in Nat
      /\ Taken = ends[h]
  <2>1. h \in 0..Packets /\ h + 1 \in 0..Packets
    BY <1>3, PacketsAssumption DEF PacketsAssumption
  <2> QED
    BY <2>1, StreamFacts, MaxStreamAssumption
       DEF IInv, TypeOK, BufferTypeOK, Taken, MaxStreamAssumption
<1>5. n \in Nat /\ Unread \in Nat /\ Unread' = Unread - n
  BY <1>1, <1>2, <1>3, <1>4 DEF Unread
<1>6. Front(n) = Stretch(ends[h], n)
  <2> SUFFICES ASSUME NEW k \in 1..n
               PROVE  data[read_index + k - 1] = ends[h] + k
    BY DEF Front, Stretch
  <2>1. k - 1 \in 0..(Unread - 1)
    BY <1>1, <1>5
  <2>2. data[read_index + (k - 1)] = Taken + 1 + (k - 1)
    BY <2>1 DEF IInv, Kept
  <2>3. /\ read_index + (k - 1) = read_index + k - 1
        /\ Taken + 1 + (k - 1) = ends[h] + k
    BY <1>4, <1>5
  <2> QED
    BY <2>2, <2>3
<1>7. /\ handled' \in Seq(Seq(Nat)) /\ Len(handled') = h + 1
      /\ \A i \in 1..h : handled'[i] = handled[i]
      /\ handled'[h + 1] = Stretch(ends[h], n)
  <2>1. handled \in Seq(Seq(Nat))
    BY DEF IInv, TypeOK
  <2>2. Stretch(ends[h], n) \in Seq(Nat)
    BY <1>4, <1>5 DEF Stretch
  <2> QED
    BY <2>1, <2>2, <1>1, <1>6
<1>8. TypeOK'
  BY <1>1, <1>2, <1>4, <1>5, <1>7 DEF IInv, TypeOK, BufferTypeOK, Unread
<1>9. Kept'
  <2>1. Taken' = ends[h + 1] /\ Taken' = Taken + n
    BY <1>2, <1>3, <1>4, <1>7 DEF Taken
  <2>2. received' = Taken' + Unread'
    BY <2>1, <1>2, <1>4, <1>5 DEF IInv, Kept
  <2>3. ASSUME NEW i \in 0..(Unread' - 1)
        PROVE  data[(read_index + n) + i] = (Taken + n) + 1 + i
    <3>1. n + i \in 0..(Unread - 1)
      BY <1>5
    <3>2. data[read_index + (n + i)] = Taken + 1 + (n + i)
      BY <3>1 DEF IInv, Kept
    <3>3. /\ read_index + (n + i) = (read_index + n) + i
          /\ Taken + 1 + (n + i) = (Taken + n) + 1 + i
      BY <1>4, <1>5
    <3> QED
      BY <3>2, <3>3
  <2>4. \A i \in 0..(Unread' - 1) : data'[read_index' + i] = Taken' + 1 + i
    BY <2>1, <2>3, <1>2
  <2>5. Len(handled') <= Packets
    BY <1>3, <1>7
  <2>6. received' <= ends'[Packets]
    BY <1>2 DEF IInv, Kept
  <2> QED
    BY <2>2, <2>4, <2>5, <2>6 DEF Kept
<1>10. Framed'
  <2> SUFFICES ASSUME NEW i \in 1..(h + 1)
               PROVE  handled'[i] = Stretch(ends[i - 1], ends[i] - ends[i - 1])
    BY <1>2, <1>3, <1>7, PacketsAssumption DEF Framed, PacketsAssumption, Stretch
  <2>1. CASE i = h + 1
    <3>1. i - 1 = h
      BY <2>1, <1>3
    <3> QED
      BY <2>1, <3>1, <1>3, <1>4, <1>7
  <2>2. CASE i # h + 1
    <3>1. i \in 1..h
      BY <2>2, <1>3
    <3> QED
      BY <3>1, <1>7 DEF IInv, Framed
  <2> QED
    BY <2>1, <2>2
<1>11. Room' /\ NothingWaits' /\ GivenBack'
  BY <1>2 DEF IInv, Room, NothingWaits, GivenBack, Space, CanGrow
<1> QED
  BY <1>8, <1>9, <1>10, <1>11 DEF IInv

\* HandleRead waits only for a packet that is not all there.
LEMMA PacketPartialKeeps == IInv /\ PacketPartial => IInv'
<1> SUFFICES ASSUME IInv, PacketPartial PROVE IInv'
  OBVIOUS
<1> DEFINE h == Len(handled)
<1>1. /\ pc = "packets" /\ pc' = "idle"
      /\ UNCHANGED <<buffer, ends, received, handled>>
  BY DEF PacketPartial
<1>2. PICK n \in PacketLengths : n > Unread
  BY DEF PacketPartial
<1>3. Unread \in Nat /\ Header \in Nat
  BY HeaderAssumption DEF HeaderAssumption, IInv, TypeOK, BufferTypeOK, Unread
<1>4. Unread >= Header /\ h + 1 \in 1..Packets /\ n = ends[h + 1] - Taken
  BY <1>2, <1>3, LengthIsRight DEF IInv
<1>5. Taken \in Nat /\ ends[h + 1] \in Nat
  <2>1. h \in 0..Packets /\ h + 1 \in 0..Packets
    BY <1>4, PacketsAssumption DEF PacketsAssumption, IInv, TypeOK, Kept
  <2> QED
    BY <2>1, StreamFacts, MaxStreamAssumption DEF IInv, TypeOK, Taken, MaxStreamAssumption
<1>6. received < ends[h + 1]
  BY <1>2, <1>3, <1>4, <1>5 DEF IInv, Kept
<1>7. TypeOK' /\ Kept' /\ Framed'
  BY <1>1 DEF IInv, TypeOK, BufferTypeOK, ReaderStates, Kept, Taken, Unread, Framed,
              Stretch, buffer
<1>8. Room'
  BY <1>1 DEF IInv, Room, Space, CanGrow, buffer
<1>9. NothingWaits' /\ GivenBack'
  BY <1>1, <1>4, <1>6 DEF NothingWaits, GivenBack, Unread, buffer
<1> QED
  BY <1>7, <1>8, <1>9 DEF IInv

\* Adjust moves what is in use and nothing else.
LEMMA PacketsDoneKeeps == IInv /\ PacketsDone => IInv'
<1> SUFFICES ASSUME IInv, PacketsDone PROVE IInv'
  OBVIOUS
<1> DEFINE h == Len(handled)
<1>1. /\ pc = "packets" /\ pc' = "idle" /\ 0 \in PacketLengths
      /\ UNCHANGED <<ends, received, handled>>
      /\ data' = [i \in 0..(size - 1) |->
                    IF i < Unread THEN data[read_index + i] ELSE data[i]]
      /\ write_index' = Unread /\ read_index' = 0 /\ size' = size
  BY DEF PacketsDone, Adjust
<1>2. /\ size \in Nat \ {0} /\ write_index \in 0..size /\ read_index \in 0..write_index
      /\ data \in [0..(size - 1) -> Nat]
      /\ Unread \in Nat /\ Unread <= write_index
      /\ Header \in Nat /\ Header > 0
  BY HeaderAssumption DEF IInv, TypeOK, BufferTypeOK, HeaderAssumption, Unread
<1>3. data' \in [0..(size - 1) -> Nat]
  <2>1. \A i \in 0..(size - 1) : i < Unread => read_index + i \in 0..(size - 1)
    BY <1>2 DEF Unread
  <2>2. \A i \in 0..(size - 1) :
          (IF i < Unread THEN data[read_index + i] ELSE data[i]) \in Nat
    BY <2>1, <1>2
  <2> QED
    BY <2>2, <1>1
<1>4. TypeOK'
  <2>1. size' \in Nat \ {0} /\ read_index' \in 0..write_index' /\ write_index' \in 0..size'
    BY <1>1, <1>2
  <2>2. data' \in [0..(size' - 1) -> Nat]
    BY <1>1, <1>3
  <2> QED
    BY <2>1, <2>2, <1>1 DEF IInv, TypeOK, BufferTypeOK, ReaderStates
<1>5. Kept'
  <2>1. Unread' = Unread /\ Taken' = Taken
    BY <1>1, <1>2 DEF Unread, Taken
  <2>2. ASSUME NEW i \in 0..(Unread - 1)
        PROVE  data'[0 + i] = Taken + 1 + i
    <3>1. i \in 0..(size - 1) /\ i < Unread /\ 0 + i = i
      BY <1>2
    <3> QED
      BY <3>1, <1>1 DEF IInv, Kept
  <2> QED
    BY <2>1, <2>2, <1>1 DEF IInv, Kept
<1>6. Framed'
  BY <1>1 DEF IInv, Framed, Stretch
<1>7. Room'
  BY <1>1, <1>2 DEF IInv, Room, Space, CanGrow
<1>8. NothingWaits'
  <2> SUFFICES ASSUME h < Packets PROVE received < ends[h + 1]
    BY <1>1 DEF NothingWaits
  <2>1. /\ h \in 0..Packets /\ h + 1 \in 1..Packets /\ h + 1 \in 0..Packets
        /\ (h + 1) - 1 = h
    BY PacketsAssumption DEF PacketsAssumption, IInv, TypeOK
  <2>2. ends[h + 1] - ends[h] \in Lengths /\ ends[h] \in Nat /\ ends[h + 1] \in Nat
    BY <2>1, StreamFacts, MaxStreamAssumption DEF IInv, TypeOK, MaxStreamAssumption
  <2>3. ends[h + 1] - ends[h] >= Header
    BY <2>2, LengthsAssumption DEF LengthsAssumption
  <2>4. Unread < Header
    <3> SUFFICES ASSUME Unread >= Header PROVE FALSE
      BY <1>2
    <3>1. PacketLengths = {ends[h + 1] - Taken}
      BY LengthIsRight DEF IInv
    <3> QED
      BY <3>1, <2>2, <2>3, <1>1, <1>2 DEF Taken
  <2> QED
    BY <2>2, <2>3, <2>4, <1>2 DEF IInv, Kept, Taken
<1>9. GivenBack'
  BY <1>1 DEF GivenBack
<1> QED
  BY <1>4, <1>5, <1>6, <1>7, <1>8, <1>9 DEF IInv

LEMMA StepIInv == IInv /\ [Next]_vars => IInv'
<1> SUFFICES ASSUME IInv, [Next]_vars PROVE IInv'
  OBVIOUS
<1>1. CASE RecvFinished \/ PacketFails
  BY <1>1 DEF RecvFinished, PacketFails, IInv, TypeOK, BufferTypeOK, ReaderStates,
              Kept, Taken, Unread, Framed, Stretch, Room, NothingWaits, GivenBack, buffer
<1>2. CASE UNCHANGED vars
  BY <1>2 DEF vars, buffer, IInv, TypeOK, BufferTypeOK, ReaderStates, Kept, Taken, Unread,
              Framed, Stretch, Room, Space, CanGrow, NothingWaits, GivenBack
<1> QED
  BY <1>1, <1>2, RecvDataKeeps, GrowIfFullKeeps, PacketKeeps, PacketPartialKeeps,
     PacketsDoneKeeps DEF Next

LEMMA Invariant == Spec => []IInv
<1>1. Init => IInv
  BY InitIInv
<1>2. IInv /\ [Next]_vars => IInv'
  BY StepIInv
<1> QED
  BY <1>1, <1>2, PTL DEF Spec

\* The variables keep their types; the indices never leave the block.
THEOREM TypeCorrect == Spec => []TypeOK
<1>1. IInv => TypeOK
  BY DEF IInv
<1> QED
  BY <1>1, Invariant, PTL

\* ProcessData is given the peer's packets, each whole, once and in order.
THEOREM PacketsAreFramed == Spec => []Framed
<1>1. IInv => Framed
  BY DEF IInv
<1> QED
  BY <1>1, Invariant, PTL

\* HandleRead leaves no complete packet in the buffer.
THEOREM NoPacketWaits == Spec => []NothingWaits
<1>1. IInv => NothingWaits
  BY DEF IInv
<1> QED
  BY <1>1, Invariant, PTL

\* Recv is never called without room while memory lasts.
THEOREM RecvHasRoom == Spec => []RoomToRecv
<1>1. IInv => RoomToRecv
  BY DEF IInv, Room, RoomToRecv
<1> QED
  BY <1>1, Invariant, PTL

\* Only an incomplete packet keeps handled ones in the buffer.
THEOREM RoomIsGivenBack == Spec => []GivenBack
<1>1. IInv => GivenBack
  BY DEF IInv
<1> QED
  BY <1>1, Invariant, PTL

=============================================================================
