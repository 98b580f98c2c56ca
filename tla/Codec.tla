-------------------------------- MODULE Codec --------------------------------
(***************************************************************************)
(* The packet header of common_parse.h and its two codecs: EncodePhdr and  *)
(* DecodePhdr, which take the numbers apart, and push_pack_head and        *)
(* pop_pack_head, which turn them to network order in place, on a host of  *)
(* either byte order.                                                      *)
(*                                                                         *)
(* A buffer is a function from places to values of type char, which is     *)
(* signed: -128 to 127.  A conversion to char wraps, and reading through a *)
(* pointer to unsigned char wraps back.  A uint64_t is the pair of its     *)
(* halves, the high one first.                                             *)
(***************************************************************************)
EXTENDS Integers

CONSTANT LittleEndian  \* the byte order of the host, TRUE or FALSE

\* What the bytes of a uint32_t count, and how many there are.
P1 == 256
P2 == P1 * P1
P3 == P2 * P1
P4 == P2 * P2

Chars == -128..127
Uint32s == 0..(P4 - 1)
Uint64s == Uint32s \X Uint32s
PHDR == [len : Uint32s, cmd : Uint32s, uid : Uint64s, sid : Uint32s]

\* The conversions of a byte to char and, through a pointer, back.
Char(n) == IF n < 128 THEN n ELSE n - P1
Byte(c) == IF c < 0 THEN c + P1 ELSE c

\* char((n >> k) & 0xFF), where p is 2^k.
Shifted(n, p) == Char((n \div p) % P1)

EncodeUint32(n) == <<Shifted(n, P3), Shifted(n, P2), Shifted(n, P1), Shifted(n, 1)>>

\* The bits that | puts together are disjoint.
DecodeUint32(b, a) ==
  (Byte(b[a]) * P3) + (Byte(b[a + 1]) * P2) + (Byte(b[a + 2]) * P1) + Byte(b[a + 3])

EncodeUint64(n) ==
  <<Shifted(n[1], P3), Shifted(n[1], P2), Shifted(n[1], P1), Shifted(n[1], 1),
    Shifted(n[2], P3), Shifted(n[2], P2), Shifted(n[2], P1), Shifted(n[2], 1)>>

DecodeUint64(b, a) == <<DecodeUint32(b, a), DecodeUint32(b, a + 4)>>

\* The buffer b with the n chars w from place a on.
Put(b, a, n, w) == [i \in DOMAIN b |-> IF i \in a..(a + n - 1) THEN w[i - a + 1] ELSE b[i]]

EncodePhdr(h, b, a) ==
  Put(Put(Put(Put(b, a, 4, EncodeUint32(h.len)), a + 4, 4, EncodeUint32(h.cmd)),
          a + 8, 8, EncodeUint64(h.uid)), a + 16, 4, EncodeUint32(h.sid))

DecodePhdr(b, a) ==
  [len |-> DecodeUint32(b, a), cmd |-> DecodeUint32(b, a + 4),
   uid |-> DecodeUint64(b, a + 8), sid |-> DecodeUint32(b, a + 16)]

-----------------------------------------------------------------------------

\* The number whose bytes are those of n the other way round.
Swap32(n) ==
  ((n % P1) * P3) + (((n \div P1) % P1) * P2) + (((n \div P2) % P1) * P1) + ((n \div P3) % P1)

\* htonl and htobe64, which ntohl and be64toh undo by doing the same.
htonl(n) == IF LittleEndian THEN Swap32(n) ELSE n
htobe64(n) == IF LittleEndian THEN <<Swap32(n[2]), Swap32(n[1])>> ELSE n

\* What the host keeps in memory for a number.
Stored4(n) ==
  IF LittleEndian
  THEN <<Shifted(n, 1), Shifted(n, P1), Shifted(n, P2), Shifted(n, P3)>>
  ELSE EncodeUint32(n)

Stored8(n) ==
  IF LittleEndian
  THEN <<Shifted(n[2], 1), Shifted(n[2], P1), Shifted(n[2], P2), Shifted(n[2], P3),
         Shifted(n[1], 1), Shifted(n[1], P1), Shifted(n[1], P2), Shifted(n[1], P3)>>
  ELSE EncodeUint64(n)

\* The number that the host finds in memory.
Loaded4(b, a) ==
  IF LittleEndian
  THEN (Byte(b[a + 3]) * P3) + (Byte(b[a + 2]) * P2) + (Byte(b[a + 1]) * P1) + Byte(b[a])
  ELSE DecodeUint32(b, a)

Loaded8(b, a) ==
  IF LittleEndian THEN <<Loaded4(b, a + 4), Loaded4(b, a)>> ELSE DecodeUint64(b, a)

push_pack_head(b, a, h) ==
  Put(Put(Put(Put(b, a, 4, Stored4(htonl(h.len))), a + 4, 4, Stored4(htonl(h.cmd))),
          a + 8, 8, Stored8(htobe64(h.uid))), a + 16, 4, Stored4(htonl(h.sid)))

pop_pack_head(b, a) ==
  [len |-> htonl(Loaded4(b, a)), cmd |-> htonl(Loaded4(b, a + 4)),
   uid |-> htobe64(Loaded8(b, a + 8)), sid |-> htonl(Loaded4(b, a + 16))]

=============================================================================
