-------------------------------- MODULE Buffer --------------------------------
(***************************************************************************)
(* The Buffer that TcpSession reads into and writes from (buffer.h,        *)
(* buffer.cpp): a block of memory whose part from read_index_ up to        *)
(* write_index_ is in use.  Each member function is an action on the four  *)
(* variables; the modules that use a buffer join them with their own.      *)
(*                                                                         *)
(* A byte is a natural number, by which the modules that use a buffer tell *)
(* one byte from another.  Sizes are 32 bits wide in the code.  realloc is *)
(* taken to fail before a doubling overflows (MaxSizeAssumption).          *)
(***************************************************************************)
EXTENDS Integers, Sequences

CONSTANTS
  InitSize,  \* the size the constructor is given
  MaxSize    \* the largest block that realloc gives

ASSUME InitSizeAssumption == InitSize \in Nat \ {0}
ASSUME MaxSizeAssumption == MaxSize \in Nat /\ MaxSize <= 2147483647

\* What malloc and realloc leave in new memory: no byte that was stored.
NoByte == 0

VARIABLES
  size,         \* Buffer::size_
  read_index,   \* Buffer::read_index_
  write_index,  \* Buffer::write_index_
  data          \* the block at Buffer::data_

buffer == <<size, read_index, write_index, data>>

InitBuffer ==
  /\ size = InitSize
  /\ read_index = 0 /\ write_index = 0
  /\ data = [i \in 0..(InitSize - 1) |-> NoByte]

\* Buffer::Space, and Buffer::Len.
Space == size - write_index
Unread == write_index - read_index

\* The first n bytes at StartReadIndex.
Front(n) == [i \in 1..n |-> data[read_index + i - 1]]

\* The n bytes that come after the first k of a stream.
Stretch(k, n) == [i \in 1..n |-> k + i]

\* Buffer::Grow returns whether realloc found a block of twice the size.
CanGrow == 2 * size <= MaxSize

\* A faulty Grow: malloc for realloc, so what was there is lost.
GrowAnew ==
  IF CanGrow
    THEN /\ size' = 2 * size
         /\ data' = [i \in 0..(2 * size - 1) |-> NoByte]
         /\ UNCHANGED <<read_index, write_index>>
    ELSE UNCHANGED buffer

Grow ==
  IF CanGrow
    THEN /\ size' = 2 * size
         /\ data' = [i \in 0..(2 * size - 1) |-> IF i < size THEN data[i] ELSE NoByte]
         /\ UNCHANGED <<read_index, write_index>>
    ELSE UNCHANGED buffer

\* A faulty Adjust: the data is left where it is.
AdjustNothing == UNCHANGED buffer

\* Buffer::Adjust moves what is in use to the front.  With nothing in use the
\* memmove is left out and both indices become 0, as they do here.
Adjust ==
  /\ data' = [i \in 0..(size - 1) |->
                IF i < Unread THEN data[read_index + i] ELSE data[i]]
  /\ write_index' = Unread
  /\ read_index' = 0
  /\ UNCHANGED size

\* n bytes are stored at StartWriteIndex, and WriteDone.
Store(byte, n) ==
  /\ data' = [i \in 0..(size - 1) |->
                IF i \in write_index..(write_index + n - 1)
                  THEN byte[i - write_index + 1] ELSE data[i]]
  /\ write_index' = write_index + n
  /\ UNCHANGED <<size, read_index>>

ReadDone(n) ==
  /\ read_index' = read_index + n
  /\ UNCHANGED <<size, write_index, data>>

BufferTypeOK ==
  /\ size \in Nat \ {0}
  /\ read_index \in 0..write_index
  /\ write_index \in 0..size
  /\ data \in [0..(size - 1) -> Nat]

=============================================================================
