-------------------------- MODULE PacketWriterProofs --------------------------
(***************************************************************************)
(* Proofs about PacketWriter, for every buffer size, every length of the   *)
(* messages and every way send cuts them up.                               *)
(***************************************************************************)
EXTENDS PacketWriter, SequenceTheorems, TLAPS

(***************************************************************************)
(* What was sent and what is in use of the buffer are two neighbouring     *)
(* stretches of what was stored.  Grow, Adjust, Store and ReadDone all     *)
(* have to keep this.                                                      *)
(***************************************************************************)
Kept ==
  /\ put = Len(wire) + Unread
  /\ wire = Stretch(0, Len(wire))
  /\ Front(Unread) = Stretch(Len(wire), Unread)

\* A message that Buffer::Write is given is within the bounds.
Asked == pc = "write" => len \in Lengths /\ put + len <= MaxPut

\* Nothing that was sent is left in the buffer outside HandleWrite.
AtRest == pc # "adjust" => read_index = 0

IInv ==
  /\ TypeOK
  /\ Kept
  /\ Asked
  /\ AtRest
  /\ WatchedWhileWaiting

-----------------------------------------------------------------------------

\* Two neighbouring stretches make one.
LEMMA StretchConcat ==
  ASSUME NEW k \in Nat, NEW m \in Nat, NEW n \in Nat
  PROVE  Stretch(k, m) \o Stretch(k + m, n) = Stretch(k, m + n)
<1>1. /\ Stretch(k, m) \in Seq(Nat) /\ Len(Stretch(k, m)) = m
      /\ Stretch(k + m, n) \in Seq(Nat) /\ Len(Stretch(k + m, n)) = n
      /\ Stretch(k, m + n) \in Seq(Nat) /\ Len(Stretch(k, m + n)) = m + n
  BY DEF Stretch
<1>2. /\ Stretch(k, m) \o Stretch(k + m, n) \in Seq(Nat)
      /\ Len(Stretch(k, m) \o Stretch(k + m, n)) = m + n
  BY <1>1, ConcatProperties
<1>3. ASSUME NEW i \in 1..(m + n)
      PROVE  (Stretch(k, m) \o Stretch(k + m, n))[i] = Stretch(k, m + n)[i]
  <2>1. (Stretch(k, m) \o Stretch(k + m, n))[i]
          = IF i <= m THEN Stretch(k, m)[i] ELSE Stretch(k + m, n)[i - m]
    BY <1>1, ConcatProperties
  <2>2. CASE i <= m
    BY <2>1, <2>2 DEF Stretch
  <2>3. CASE ~(i <= m)
    <3>1. i - m \in 1..n
      BY <2>3
    <3> QED
      BY <2>1, <2>3, <3>1 DEF Stretch
  <2> QED
    BY <2>2, <2>3
<1> QED
  BY <1>1, <1>2, <1>3, SeqEqual

\* The first m of a stretch, and what follows them.
LEMMA StretchCut ==
  ASSUME NEW k \in Nat, NEW n \in Nat, NEW m \in 0..n
  PROVE  /\ SubSeq(Stretch(k, n), 1, m) = Stretch(k, m)
         /\ SubSeq(Stretch(k, n), m + 1, n) = Stretch(k + m, n - m)
<1>1. /\ Stretch(k, n) \in Seq(Nat) /\ Len(Stretch(k, n)) = n
  BY DEF Stretch
<1>2. SubSeq(Stretch(k, n), 1, m) = Stretch(k, m)
  <2>1. SubSeq(Stretch(k, n), 1, m) = [i \in 1..m |-> Stretch(k, n)[i]]
    BY <1>1
  <2> QED
    BY <2>1 DEF Stretch
<1>3. SubSeq(Stretch(k, n), m + 1, n) = Stretch(k + m, n - m)
  <2>1. SubSeq(Stretch(k, n), m + 1, n) = [i \in 1..(n - m) |-> Stretch(k, n)[m + i]]
    BY <1>1
  <2>2. \A i \in 1..(n - m) : m + i \in 1..n /\ k + (m + i) = (k + m) + i
    OBVIOUS
  <2> QED
    BY <2>1, <2>2 DEF Stretch
<1> QED
  BY <1>2, <1>3

\* What the type invariant says of the indices.
LEMMA Indices ==
  ASSUME TypeOK
  PROVE  /\ size \in Nat \ {0} /\ write_index \in 0..size
         /\ read_index \in 0..write_index
         /\ Unread \in Nat /\ read_index + Unread = write_index
         /\ data \in [0..(size - 1) -> Nat]
         /\ Len(wire) \in Nat
<1>1. Len(wire) \in Nat
  BY LenProperties DEF TypeOK
<1> QED
  BY <1>1 DEF TypeOK, BufferTypeOK, Unread

\* The front of the buffer, byte by byte, is the next stretch.
LEMMA FrontIs ==
  ASSUME TypeOK, Kept
  PROVE  /\ \A i \in 1..Unread : data[read_index + i - 1] = Len(wire) + i
         /\ \A n \in 0..Unread : Front(n) = Stretch(Len(wire), n)
<1>1. ASSUME NEW i \in 1..Unread
      PROVE  data[read_index + i - 1] = Len(wire) + i
  <2>1. Front(Unread)[i] = Stretch(Len(wire), Unread)[i]
    BY DEF Kept
  <2> QED
    BY <2>1 DEF Front, Stretch
<1>2. ASSUME NEW n \in 0..Unread
      PROVE  Front(n) = Stretch(Len(wire), n)
  <2>1. \A i \in 1..n : i \in 1..Unread
    BY Indices
  <2> QED
    BY <2>1, <1>1 DEF Front, Stretch
<1> QED
  BY <1>1, <1>2

-----------------------------------------------------------------------------

LEMMA InitIInv == Init => IInv
<1> SUFFICES ASSUME Init PROVE IInv
  OBVIOUS
<1> USE InitSizeAssumption, MaxPutAssumption
    DEF InitSizeAssumption, MaxPutAssumption
<1>1. BufferTypeOK /\ Unread = 0 /\ read_index = 0
  BY DEF Init, InitBuffer, BufferTypeOK, NoByte, Unread
<1>2. wire = <<>> /\ Len(wire) = 0 /\ wire \in Seq(Nat)
  BY DEF Init
<1>3. TypeOK
  <2>1. put \in 0..MaxPut /\ len \in Lengths \cup {0}
    BY DEF Init
  <2>2. watching \in BOOLEAN /\ removed \in BOOLEAN /\ vain \in BOOLEAN
    BY DEF Init
  <2>3. pc \in WriterStates
    BY DEF Init, WriterStates
  <2> QED
    BY <1>1, <1>2, <2>1, <2>2, <2>3 DEF TypeOK
<1>4. Kept
  <2>1. Stretch(0, 0) = <<>> /\ Front(0) = <<>>
    BY DEF Stretch, Front
  <2> QED
    BY <2>1, <1>1, <1>2 DEF Init, Kept
<1> QED
  BY <1>1, <1>3, <1>4 DEF Init, IInv, Asked, AtRest, WatchedWhileWaiting

\* A doubled block holds what it held.
LEMMA WriteGrowsKeeps ==
  ASSUME IInv, WriteGrows
  PROVE  IInv' /\ UNCHANGED <<put, Front(Unread), wire>>
<1>1. /\ size' = 2 * size
      /\ data' = [i \in 0..(2 * size - 1) |-> IF i < size THEN data[i] ELSE NoByte]
      /\ UNCHANGED <<read_index, write_index>>
      /\ UNCHANGED <<put, len, watching, removed, pc, wire, vain>>
  BY DEF WriteGrows, Grow
<1>2. /\ size \in Nat \ {0} /\ write_index \in 0..size /\ read_index \in 0..write_index
      /\ Unread \in Nat /\ read_index + Unread = write_index
      /\ data \in [0..(size - 1) -> Nat]
  BY Indices DEF IInv
<1>3. TypeOK'
  BY <1>1, <1>2 DEF IInv, TypeOK, BufferTypeOK, NoByte
<1>4. Unread' = Unread
  BY <1>1 DEF Unread
<1>5. Front(Unread)' = Front(Unread)
  <2>1. \A i \in 1..Unread : data'[read_index + i - 1] = data[read_index + i - 1]
    <3> SUFFICES ASSUME NEW i \in 1..Unread
                 PROVE  data'[read_index + i - 1] = data[read_index + i - 1]
      OBVIOUS
    <3>1. read_index + i - 1 \in 0..(size - 1)
      BY <1>2
    <3> QED
      BY <3>1, <1>1, <1>2
  <2> QED
    BY <2>1, <1>1, <1>4 DEF Front
<1>6. Kept'
  BY <1>1, <1>4, <1>5 DEF IInv, Kept
<1> QED
  BY <1>1, <1>3, <1>4, <1>5, <1>6 DEF IInv, Asked, AtRest, WatchedWhileWaiting

\* The message is the next stretch, stored behind what is in use.
LEMMA WriteStoresKeeps ==
  ASSUME IInv, WriteStores
  PROVE  /\ IInv'
         /\ len \in 0..MaxPut /\ put + len <= MaxPut /\ put' = put + len
         /\ Front(Unread)' = Front(Unread) \o Stretch(put, len)
         /\ wire' = wire
<1>1. /\ data' = [i \in 0..(size - 1) |->
                    IF i \in write_index..(write_index + len - 1)
                      THEN Stretch(put, len)[i - write_index + 1] ELSE data[i]]
      /\ write_index' = write_index + len
      /\ UNCHANGED <<size, read_index, len, wire>>
      /\ vain' = (vain \/ len = 0)
      /\ put' = put + len /\ watching' = TRUE /\ removed' = FALSE
      /\ pc = "write" /\ pc' = "idle" /\ Space >= len
  BY DEF WriteStores, Store, RegisterWrite
<1>2. /\ size \in Nat \ {0} /\ write_index \in 0..size /\ read_index \in 0..write_index
      /\ Unread \in Nat /\ read_index + Unread = write_index
      /\ data \in [0..(size - 1) -> Nat] /\ Len(wire) \in Nat
  BY Indices DEF IInv
<1>3. /\ len \in Nat /\ put + len <= MaxPut /\ put \in Nat
      /\ len \in 0..MaxPut /\ len \in Lengths
  <2>1. len \in Lengths /\ put + len <= MaxPut
    BY <1>1 DEF IInv, Asked
  <2>2. len \in Nat
    BY <2>1, LengthsAssumption DEF LengthsAssumption
  <2>3. put \in 0..MaxPut
    BY DEF IInv, TypeOK
  <2> QED
    BY <2>1, <2>2, <2>3, MaxPutAssumption DEF MaxPutAssumption
<1>4. write_index + len <= size
  BY <1>1, <1>2, <1>3 DEF Space
<1>5. \A i \in 0..(size - 1) :
        data'[i] = IF i \in write_index..(write_index + len - 1)
                     THEN put + (i - write_index + 1) ELSE data[i]
  <2> SUFFICES ASSUME NEW i \in 0..(size - 1)
               PROVE  data'[i] = IF i \in write_index..(write_index + len - 1)
                                   THEN put + (i - write_index + 1) ELSE data[i]
    OBVIOUS
  <2>1. data'[i] = IF i \in write_index..(write_index + len - 1)
                     THEN Stretch(put, len)[i - write_index + 1] ELSE data[i]
    BY <1>1
  <2>2. i \in write_index..(write_index + len - 1) => i - write_index + 1 \in 1..len
    BY <1>2, <1>3
  <2> QED
    BY <2>1, <2>2 DEF Stretch
<1>6. data' \in [0..(size - 1) -> Nat]
  <2>1. data' = [i \in 0..(size - 1) |-> data'[i]]
    BY <1>1
  <2>2. \A i \in 0..(size - 1) : data'[i] \in Nat
    BY <1>2, <1>3, <1>5
  <2> QED
    BY <2>1, <2>2
<1>7. TypeOK'
  <2>1. BufferTypeOK'
    <3>1. /\ write_index + len \in 0..size /\ read_index \in 0..(write_index + len)
      BY <1>2, <1>3, <1>4
    <3>2. size' = size /\ read_index' = read_index /\ write_index' = write_index + len
      BY <1>1
    <3> QED
      BY <3>1, <3>2, <1>2, <1>6 DEF BufferTypeOK
  <2>2. put' \in 0..MaxPut
    BY <1>1, <1>3, MaxPutAssumption DEF MaxPutAssumption
  <2>3. watching' \in BOOLEAN /\ removed' \in BOOLEAN /\ pc' \in WriterStates
    BY <1>1 DEF WriterStates
  <2>4. len' \in Lengths \cup {0} /\ wire' \in Seq(Nat)
    BY <1>1 DEF IInv, TypeOK
  <2>5. vain' \in BOOLEAN
    BY <1>1
  <2> QED
    BY <2>1, <2>2, <2>3, <2>4, <2>5 DEF TypeOK
<1>8. Unread' = Unread + len
  BY <1>1, <1>2, <1>3 DEF Unread
<1>9. Front(Unread)' = Stretch(Len(wire), Unread + len)
  <2>1. ASSUME NEW i \in 1..(Unread + len)
        PROVE  data'[read_index + i - 1] = Len(wire) + i
    <3> DEFINE j == read_index + i - 1
    <3>1. j \in 0..(size - 1)
      BY <1>2, <1>3, <1>4
    <3>2. CASE i <= Unread
      <4>1. j \notin write_index..(write_index + len - 1)
        BY <3>2, <1>2, <1>3
      <4>2. data'[j] = data[j]
        BY <4>1, <3>1, <1>5
      <4>3. data[read_index + i - 1] = Len(wire) + i
        <5>1. i \in 1..Unread
          BY <3>2, <1>2
        <5> HIDE DEF j
        <5> QED
          BY <5>1, FrontIs DEF IInv
      <4> QED
        BY <4>2, <4>3
    <3>3. CASE ~(i <= Unread)
      <4>1. j \in write_index..(write_index + len - 1)
        BY <3>3, <1>2, <1>3
      <4>2. data'[j] = put + (j - write_index + 1)
        BY <4>1, <3>1, <1>5
      <4>3. put = Len(wire) + Unread
        BY DEF IInv, Kept
      <4>4. j = read_index + i - 1 /\ i \in Nat
        BY <1>2, <1>3
      <4> HIDE DEF j
      <4>5. put + (j - write_index + 1) = Len(wire) + i
        BY <4>3, <4>4, <1>2, <1>3
      <4> QED
        BY <4>2, <4>5 DEF j
    <3> QED
      BY <3>2, <3>3
  <2> QED
    BY <2>1, <1>1, <1>8 DEF Front, Stretch
<1>10. Kept'
  BY <1>1, <1>2, <1>3, <1>8, <1>9 DEF IInv, Kept
<1>11. Front(Unread)' = Front(Unread) \o Stretch(put, len)
  <2>1. Front(Unread) = Stretch(Len(wire), Unread) /\ put = Len(wire) + Unread
    BY DEF IInv, Kept
  <2>2. len \in Nat /\ Unread \in Nat /\ Len(wire) \in Nat
    BY <1>2, <1>3
  <2>3. Stretch(Len(wire), Unread) \o Stretch(Len(wire) + Unread, len)
          = Stretch(Len(wire), Unread + len)
    BY <2>2, StretchConcat
  <2> QED
    BY <2>1, <2>3, <1>9
<1>12. Asked' /\ AtRest'
  BY <1>1 DEF IInv, Asked, AtRest
<1>13. WatchedWhileWaiting'
  <2>1. len = 0 \/ Unread' > 0
    BY <1>2, <1>3, <1>8
  <2> QED
    BY <2>1, <1>1, Zenon DEF WatchedWhileWaiting
<1> QED
  BY <1>1, <1>3, <1>7, <1>10, <1>11, <1>12, <1>13 DEF IInv

\* send takes the first n of what waits.
LEMMA SendSomeKeeps ==
  ASSUME IInv, NEW n \in 1..MaxPut, SendSome(n)
  PROVE  /\ IInv'
         /\ n <= Unread
         /\ wire' = wire \o Front(n)
         /\ Front(n) = SubSeq(Front(Unread), 1, n)
         /\ Front(Unread)' = SubSeq(Front(Unread), n + 1, Unread)
<1>1. /\ read_index' = read_index + n
      /\ UNCHANGED <<size, write_index, data>>
      /\ UNCHANGED <<put, len, removed, vain>>
      /\ watching /\ watching' = (n < Unread)
      /\ pc = "idle" /\ pc' = "adjust"
      /\ n <= Unread /\ wire' = wire \o Front(n)
  BY DEF SendSome, ReadDone
<1>2. /\ size \in Nat \ {0} /\ write_index \in 0..size /\ read_index \in 0..write_index
      /\ Unread \in Nat /\ read_index + Unread = write_index
      /\ data \in [0..(size - 1) -> Nat] /\ Len(wire) \in Nat
      /\ n \in Nat /\ n \in 0..Unread
  BY <1>1, Indices, MaxPutAssumption DEF IInv, MaxPutAssumption
<1>3. /\ Front(Unread) = Stretch(Len(wire), Unread)
      /\ Front(n) = Stretch(Len(wire), n)
      /\ wire = Stretch(0, Len(wire))
      /\ put = Len(wire) + Unread
  <2>1. Front(n) = Stretch(Len(wire), n)
    BY <1>2, FrontIs DEF IInv
  <2> QED
    BY <2>1 DEF IInv, Kept
<1>4. Unread' = Unread - n
  BY <1>1, <1>2 DEF Unread
<1>5. wire' = Stretch(0, Len(wire) + n)
  <2>1. Stretch(0, Len(wire)) \o Stretch(0 + Len(wire), n) = Stretch(0, Len(wire) + n)
    BY <1>2, StretchConcat
  <2>2. 0 + Len(wire) = Len(wire)
    BY <1>2
  <2>3. wire' = Stretch(0, Len(wire)) \o Stretch(Len(wire), n)
    BY <1>1, <1>3
  <2> QED
    BY <2>1, <2>2, <2>3
<1>6. wire' \in Seq(Nat) /\ Len(wire') = Len(wire) + n
  <2>1. Len(wire) + n \in Nat
    BY <1>2
  <2> QED
    BY <2>1, <1>5 DEF Stretch
<1>7. Front(Unread)' = Stretch(Len(wire) + n, Unread - n)
  <2>1. ASSUME NEW i \in 1..(Unread - n)
        PROVE  data[(read_index + n) + i - 1] = (Len(wire) + n) + i
    <3>1. n + i \in 1..Unread
      BY <1>2
    <3>2. data[read_index + (n + i) - 1] = Len(wire) + (n + i)
      BY <3>1, FrontIs DEF IInv
    <3>3. /\ read_index + (n + i) - 1 = (read_index + n) + i - 1
          /\ Len(wire) + (n + i) = (Len(wire) + n) + i
      BY <1>2
    <3> QED
      BY <3>2, <3>3
  <2> QED
    BY <2>1, <1>1, <1>4 DEF Front, Stretch
<1>8. /\ Front(n) = SubSeq(Front(Unread), 1, n)
      /\ Front(Unread)' = SubSeq(Front(Unread), n + 1, Unread)
  <2>1. /\ SubSeq(Stretch(Len(wire), Unread), 1, n) = Stretch(Len(wire), n)
        /\ SubSeq(Stretch(Len(wire), Unread), n + 1, Unread)
             = Stretch(Len(wire) + n, Unread - n)
    BY <1>2, StretchCut
  <2> QED
    BY <2>1, <1>3, <1>7
<1>9. TypeOK'
  <2>1. BufferTypeOK'
    <3>1. read_index + n \in 0..write_index
      BY <1>1, <1>2
    <3> QED
      BY <3>1, <1>1, <1>2 DEF BufferTypeOK
  <2>2. watching' \in BOOLEAN /\ pc' \in WriterStates
    BY <1>1 DEF WriterStates
  <2>3. /\ put' \in 0..MaxPut /\ len' \in Lengths \cup {0}
        /\ removed' \in BOOLEAN /\ vain' \in BOOLEAN
    BY <1>1 DEF IInv, TypeOK
  <2> QED
    BY <2>1, <2>2, <2>3, <1>6 DEF TypeOK
<1>10. Kept'
  <2>1. put' = Len(wire') + Unread'
    <3>1. put' = Len(wire) + Unread
      BY <1>1, <1>3
    <3>2. Len(wire) + Unread = (Len(wire) + n) + (Unread - n)
      BY <1>2
    <3> QED
      BY <3>1, <3>2, <1>4, <1>6
  <2> QED
    BY <2>1, <1>4, <1>5, <1>6, <1>7 DEF Kept
<1>11. Asked' /\ AtRest'
  BY <1>1 DEF Asked, AtRest
<1>12. WatchedWhileWaiting'
  <2>1. Unread' > 0 <=> n < Unread
    BY <1>2, <1>4
  <2> QED
    BY <2>1, <1>1 DEF WatchedWhileWaiting
<1> QED
  BY <1>1, <1>8, <1>9, <1>10, <1>11, <1>12 DEF IInv

\* memmove takes what is in use to the front, whatever it overlaps.
LEMMA AdjustKeeps ==
  ASSUME IInv, AdjustAfterSend
  PROVE  IInv' /\ UNCHANGED <<put, Front(Unread), wire>>
<1>1. /\ data' = [i \in 0..(size - 1) |->
                    IF i < Unread THEN data[read_index + i] ELSE data[i]]
      /\ write_index' = Unread /\ read_index' = 0
      /\ size' = size
      /\ UNCHANGED <<put, len, watching, removed, wire, vain>>
      /\ pc' = "idle"
  BY DEF AdjustAfterSend, Adjust
<1>2. /\ size \in Nat \ {0} /\ write_index \in 0..size /\ read_index \in 0..write_index
      /\ Unread \in Nat /\ read_index + Unread = write_index
      /\ data \in [0..(size - 1) -> Nat]
  BY Indices DEF IInv
<1>3. Unread' = Unread
  BY <1>1, <1>2 DEF Unread
<1>4. TypeOK'
  <2>1. data' \in [0..(size - 1) -> Nat]
    <3>1. \A i \in 0..(size - 1) : i < Unread => read_index + i \in 0..(size - 1)
      BY <1>2
    <3> QED
      BY <3>1, <1>1, <1>2
  <2>2. BufferTypeOK'
    <3>1. Unread \in 0..size /\ 0 \in 0..Unread
      BY <1>2
    <3> QED
      BY <3>1, <2>1, <1>1, <1>2 DEF BufferTypeOK
  <2> QED
    BY <2>2, <1>1 DEF IInv, TypeOK, WriterStates
<1>5. Front(Unread)' = Front(Unread)
  <2>1. ASSUME NEW i \in 1..Unread
        PROVE  data'[0 + i - 1] = data[read_index + i - 1]
    <3>1. /\ i - 1 \in 0..(size - 1) /\ i - 1 < Unread
          /\ 0 + i - 1 = i - 1 /\ read_index + (i - 1) = read_index + i - 1
      BY <1>2
    <3>2. data'[i - 1] = data[read_index + (i - 1)]
      BY <3>1, <1>1
    <3> QED
      BY <3>1, <3>2
  <2> QED
    BY <2>1, <1>1, <1>3 DEF Front
<1>6. Kept'
  BY <1>1, <1>3, <1>5 DEF IInv, Kept
<1>7. Asked' /\ AtRest' /\ WatchedWhileWaiting'
  BY <1>1, <1>3 DEF IInv, Asked, AtRest, WatchedWhileWaiting
<1> QED
  BY <1>1, <1>3, <1>4, <1>5, <1>6, <1>7 DEF IInv

\* The steps that leave the buffer and what was sent alone.
LEMMA OthersKeep ==
  ASSUME IInv,
         \/ \E n \in Lengths : WriteInLoop(n)
         \/ WriteDrops \/ SendFails \/ UNCHANGED vars
  PROVE  IInv' /\ UNCHANGED <<put, Front(Unread), wire>>
<1>1. UNCHANGED <<buffer, put, wire>>
  BY DEF WriteInLoop, WriteDrops, SendFails, vars
<1>2. UNCHANGED <<size, read_index, write_index, data>>
  BY <1>1 DEF buffer
<1>3. Unread' = Unread
  BY <1>2 DEF Unread
<1>4. Front(Unread)' = Front(Unread)
  BY <1>2, <1>3 DEF Front
<1>5. Kept'
  BY <1>1, <1>3, <1>4 DEF IInv, Kept
<1>6. BufferTypeOK'
  BY <1>2 DEF IInv, TypeOK, BufferTypeOK
<1>7. ASSUME NEW n \in Lengths, WriteInLoop(n)
      PROVE  TypeOK' /\ Asked' /\ AtRest' /\ WatchedWhileWaiting'
  <2>1. /\ pc = "idle" /\ pc' = "write" /\ len' = n /\ put + n <= MaxPut
        /\ UNCHANGED <<watching, removed, vain>>
    BY <1>7 DEF WriteInLoop
  <2>2. TypeOK'
    BY <2>1, <1>1, <1>6 DEF IInv, TypeOK, WriterStates
  <2> QED
    BY <2>1, <2>2, <1>1, <1>2, <1>3
       DEF IInv, Asked, AtRest, WatchedWhileWaiting
<1>8. CASE WriteDrops
  <2>1. /\ watching' = TRUE /\ removed' = FALSE /\ vain' = TRUE
        /\ pc = "write" /\ pc' = "idle" /\ len' = len
    BY <1>8 DEF WriteDrops, RegisterWrite
  <2>2. TypeOK'
    BY <2>1, <1>1, <1>6 DEF IInv, TypeOK, WriterStates
  <2>3. Asked' /\ AtRest'
    BY <2>1, <1>2 DEF IInv, Asked, AtRest
  <2>4. WatchedWhileWaiting'
    BY <2>1 DEF WatchedWhileWaiting
  <2> QED
    BY <2>2, <2>3, <2>4, <1>1, <1>4, <1>5 DEF IInv
<1>9. CASE SendFails
  <2>1. /\ watching' = FALSE /\ removed' = TRUE
        /\ pc = "idle" /\ UNCHANGED <<pc, len, vain>>
    BY <1>9 DEF SendFails
  <2>2. TypeOK'
    BY <2>1, <1>1, <1>6 DEF IInv, TypeOK
  <2>3. Asked' /\ AtRest'
    BY <2>1, <1>2 DEF IInv, Asked, AtRest
  <2>4. WatchedWhileWaiting'
    BY <2>1 DEF WatchedWhileWaiting
  <2> QED
    BY <2>2, <2>3, <2>4, <1>1, <1>4, <1>5 DEF IInv
<1>10. CASE UNCHANGED vars
  <2>1. UNCHANGED <<len, watching, removed, pc, vain>>
    BY <1>10 DEF vars
  <2>2. TypeOK'
    BY <2>1, <1>1, <1>6 DEF IInv, TypeOK
  <2>3. Asked' /\ AtRest'
    BY <2>1, <1>1, <1>2 DEF IInv, Asked, AtRest
  <2>4. WatchedWhileWaiting'
    BY <2>1, <1>3 DEF IInv, WatchedWhileWaiting
  <2> QED
    BY <2>2, <2>3, <2>4, <1>1, <1>4, <1>5 DEF IInv
<1> QED
  BY <1>1, <1>4, <1>5, <1>7, <1>8, <1>9, <1>10 DEF IInv

-----------------------------------------------------------------------------

LEMMA StepKeeps == IInv /\ [Next]_vars => IInv'
<1> SUFFICES ASSUME IInv, [Next]_vars PROVE IInv'
  OBVIOUS
<1>1. CASE \/ \E n \in Lengths : WriteInLoop(n)
           \/ WriteDrops \/ SendFails \/ UNCHANGED vars
  BY <1>1, OthersKeep
<1>2. CASE WriteGrows
  BY <1>2, WriteGrowsKeeps
<1>3. CASE WriteStores
  BY <1>3, WriteStoresKeeps
<1>4. CASE \E n \in 1..MaxPut : SendSome(n)
  BY <1>4, SendSomeKeeps
<1>5. CASE AdjustAfterSend
  BY <1>5, AdjustKeeps
<1> QED
  BY <1>1, <1>2, <1>3, <1>4, <1>5 DEF Next, HandleWrite

\* The inductive invariant holds throughout.
THEOREM Invariant == Spec => []IInv
  BY InitIInv, StepKeeps, PTL DEF Spec

\* The indices of the write buffer stay in order and inside the block.
THEOREM TypeCorrect == Spec => []TypeOK
<1>1. IInv => TypeOK
  BY DEF IInv
<1> QED
  BY <1>1, Invariant, PTL

(***************************************************************************)
(* HandleWrite and WriteInLoop keep EPOLLOUT and the buffer in step: what  *)
(* waits is watched, and nothing else is unless a message had nothing to store.  *)
(***************************************************************************)
THEOREM WaitingIsWatched == Spec => []WatchedWhileWaiting
<1>1. IInv => WatchedWhileWaiting
  BY DEF IInv
<1> QED
  BY <1>1, Invariant, PTL

(***************************************************************************)
(* The write buffer, growing and moving, is a queue of bytes: WriteStores  *)
(* puts, SendSome takes, and every other step is invisible.                *)
(***************************************************************************)
THEOREM Refinement == Spec => ImplementsQueue
<1>1. Init => Queue!Init
  <2> SUFFICES ASSUME Init PROVE Queue!Init
    OBVIOUS
  <2>1. Front(Unread) = <<>>
    <3>1. Unread = 0
      BY DEF Init, InitBuffer, Unread
    <3> QED
      BY <3>1 DEF Front
  <2> QED
    BY <2>1 DEF Init, Queue!Init
<1>2. IInv /\ [Next]_vars => [Queue!Next]_Queue!vars
  <2> SUFFICES ASSUME IInv, [Next]_vars PROVE [Queue!Next]_Queue!vars
    OBVIOUS
  <2>1. CASE \/ \E n \in Lengths : WriteInLoop(n)
             \/ WriteDrops \/ SendFails \/ UNCHANGED vars
    BY <2>1, OthersKeep DEF Queue!vars
  <2>2. CASE WriteGrows
    BY <2>2, WriteGrowsKeeps DEF Queue!vars
  <2>3. CASE AdjustAfterSend
    BY <2>3, AdjustKeeps DEF Queue!vars
  <2>4. CASE WriteStores
    <3>1. len \in 0..MaxPut /\ Queue!Put(len)
      BY <2>4, WriteStoresKeeps DEF Queue!Put, Queue!Stretch, Stretch
    <3>2. CASE len = 0
      <4>1. Stretch(put, len) = <<>>
        BY <3>2 DEF Stretch
      <4>2. Front(Unread) \in Seq(Nat)
        <5>1. Len(wire) \in Nat /\ Unread \in Nat
          BY Indices DEF IInv
        <5>2. Stretch(Len(wire), Unread) \in Seq(Nat)
          BY <5>1 DEF Stretch
        <5> QED
          BY <5>2 DEF IInv, Kept
      <4>3. put' = put /\ wire' = wire
        <5>1. put \in Nat /\ put' = put + 0 /\ wire' = wire
          BY <3>2, <2>4, Indices DEF IInv, TypeOK, WriteStores
        <5> QED
          BY <5>1
      <4>4. Front(Unread)' = Front(Unread) \o <<>>
        BY <4>1, <3>2, <2>4, WriteStoresKeeps
      <4>5. Front(Unread) \o <<>> = Front(Unread)
        BY <4>2
      <4> QED
        BY <4>3, <4>4, <4>5, Zenon DEF Queue!vars
    <3>3. CASE len # 0
      BY <3>1, <3>3 DEF Queue!Next
    <3> QED
      BY <3>2, <3>3
  <2>5. ASSUME NEW n \in 1..MaxPut, SendSome(n)
        PROVE  Queue!Take(n)
    <3>1. Len(Front(Unread)) = Unread
      BY Indices DEF IInv, Front
    <3>2. put' = put
      BY <2>5 DEF SendSome
    <3> QED
      BY <3>1, <3>2, <2>5, SendSomeKeeps DEF Queue!Take
  <2> QED
    BY <2>1, <2>2, <2>3, <2>4, <2>5 DEF Next, HandleWrite, Queue!Next
<1> QED
  BY <1>1, <1>2, Invariant, PTL DEF Spec, ImplementsQueue, Queue!Spec

\* What was sent and what waits is what was stored, once and in order.
THEOREM BytesInOrder == Spec => []SentInOrder
<1>1. IInv => SentInOrder
  <2> SUFFICES ASSUME IInv PROVE SentInOrder
    OBVIOUS
  <2>1. Len(wire) \in Nat /\ Unread \in Nat
    BY Indices DEF IInv
  <2>2. wire \o Front(Unread) = Stretch(0, put)
    <3>1. Stretch(0, Len(wire)) \o Stretch(0 + Len(wire), Unread)
            = Stretch(0, Len(wire) + Unread)
      BY <2>1, StretchConcat
    <3>2. 0 + Len(wire) = Len(wire)
      BY <2>1
    <3> QED
      BY <3>1, <3>2 DEF IInv, Kept
  <2> QED
    BY <2>2 DEF SentInOrder, Queue!SentInOrder, Queue!Stretch, Stretch
<1> QED
  BY <1>1, Invariant, PTL

(***************************************************************************)
(* A message is dropped only when it and what waits exceed the largest     *)
(* block: Adjust has given back the room of what went out before.          *)
(***************************************************************************)
THEOREM DropsAreForced == Spec => DropsOnlyWhenFull
<1> DEFINE Forced == pc = "write" /\ pc' = "idle" /\ put' < put + len =>
                       2 * size > MaxSize /\ Unread + len > size
<1>1. ASSUME IInv, [Next]_vars PROVE Forced
  <2> SUFFICES ASSUME pc = "write", pc' = "idle", put' < put + len
               PROVE  2 * size > MaxSize /\ Unread + len > size
    OBVIOUS
  <2>1. ~WriteStores
    <3> SUFFICES ASSUME WriteStores PROVE FALSE
      OBVIOUS
    <3>1. len \in 0..MaxPut /\ put' = put + len /\ put \in 0..MaxPut
      BY <1>1, WriteStoresKeeps DEF IInv, TypeOK
    <3> QED
      BY <3>1, MaxPutAssumption DEF MaxPutAssumption
  <2>2. WriteDrops
    BY <1>1, <2>1
       DEF Next, HandleWrite, WriteInLoop, WriteGrows, SendSome, AdjustAfterSend,
           SendFails, vars
  <2>3. Space < len /\ ~CanGrow /\ read_index = 0
    BY <1>1, <2>2 DEF WriteDrops, IInv, AtRest
  <2>4. /\ size \in Nat /\ write_index \in Nat /\ len \in Nat
    BY <1>1, Indices, LengthsAssumption DEF LengthsAssumption, IInv, TypeOK
  <2> QED
    BY <2>3, <2>4, MaxSizeAssumption
       DEF Space, CanGrow, Unread, MaxSizeAssumption
<1>2. IInv /\ [Next]_vars => [Forced]_vars
  BY <1>1
<1> QED
  BY <1>2, Invariant, PTL DEF Spec, DropsOnlyWhenFull

=============================================================================
