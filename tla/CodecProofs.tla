----------------------------- MODULE CodecProofs -----------------------------
(***************************************************************************)
(* The two codecs of the packet header write the same chars, read the same *)
(* header, and reading undoes writing, for every header, every buffer and  *)
(* both byte orders.                                                       *)
(***************************************************************************)
EXTENDS Codec, TLAPS

\* A byte that becomes a char and is read back is unchanged.
LEMMA CharByte == ASSUME NEW n \in 0..(P1 - 1) PROVE Char(n) \in Chars /\ Byte(Char(n)) = n
  BY SMT DEF Char, Byte, Chars, P1

\* A char that is read as a byte and written back is unchanged.
LEMMA ByteChar == ASSUME NEW c \in Chars PROVE Byte(c) \in 0..(P1 - 1) /\ Char(Byte(c)) = c
  BY SMT DEF Char, Byte, Chars, P1

\* Uint32s is a range of natural numbers.
LEMMA Uint32Range ==
  \A n : n \in Uint32s <=> n \in Nat /\ n < P4
<1>1. P4 \in Int
  BY SMT DEF P1, P2, P4
<1> QED BY <1>1, SMT DEF Uint32s

\* The bytes of a number, one after the other, and what they add up to.
LEMMA Digits ==
  ASSUME NEW n \in Uint32s
  PROVE  /\ (n \div P3) % P1 \in 0..(P1 - 1)
         /\ (n \div P2) % P1 \in 0..(P1 - 1)
         /\ (n \div P1) % P1 \in 0..(P1 - 1)
         /\ (n \div 1) % P1 \in 0..(P1 - 1)
         /\ (n \div 1) % P1 = n % P1
         /\ n = (((n \div P3) % P1) * P3) + (((n \div P2) % P1) * P2)
                  + (((n \div P1) % P1) * P1) + (n % P1)
<1>1. n \in Nat /\ n < P4
  BY Uint32Range
<1>2. n = ((n \div P1) * P1) + (n % P1)
  BY <1>1, SMT DEF P1
<1>3. n \div P1 = ((n \div P2) * P1) + ((n \div P1) % P1)
  BY <1>1, SMT DEF P1, P2
<1>4. n \div P2 = ((n \div P3) * P1) + ((n \div P2) % P1)
  BY <1>1, SMT DEF P1, P2, P3
<1>5. n \div P3 \in Nat /\ n \div P3 < P1
  BY <1>1, SMT DEF P1, P2, P3, P4
<1>6. (n \div P3) % P1 = n \div P3
  BY <1>5, SMT DEF P1
<1>7. /\ n \div P1 \in Nat /\ n \div P2 \in Nat /\ n \div 1 = n
      /\ n % P1 \in 0..(P1 - 1)
      /\ (n \div P1) % P1 \in 0..(P1 - 1)
      /\ (n \div P2) % P1 \in 0..(P1 - 1)
  BY <1>1, SMT DEF P1, P2
<1>8. n = (((n \div P3) % P1) * P3) + (((n \div P2) % P1) * P2)
            + (((n \div P1) % P1) * P1) + (n % P1)
  <2> DEFINE q1 == n \div P1  q2 == n \div P2  q3 == n \div P3
             d0 == n % P1  d1 == q1 % P1  d2 == q2 % P1
  <2>1. n = (q1 * P1) + d0 /\ q1 = (q2 * P1) + d1 /\ q2 = (q3 * P1) + d2
    BY <1>2, <1>3, <1>4
  <2>2. q3 \in Int /\ d0 \in Int /\ d1 \in Int /\ d2 \in Int
    BY <1>5, <1>7, SMT DEF P1
  <2> HIDE DEF q1, q2, q3, d0, d1, d2
  <2>3. n = (q3 * P3) + (d2 * P2) + (d1 * P1) + d0
    BY <2>1, <2>2, SMT DEF P1, P2, P3
  <2> QED BY <2>3, <1>6 DEF q1, q2, q3, d0, d1, d2
<1>9. (n \div 1) % P1 = n % P1
  BY <1>7
<1>10. (n \div P3) % P1 \in 0..(P1 - 1)
  BY <1>5, <1>6, SMT DEF P1
<1> QED BY <1>7, <1>8, <1>9, <1>10

\* The number with the given bytes.
Joined(b3, b2, b1, b0) == (b3 * P3) + (b2 * P2) + (b1 * P1) + b0

\* The bytes of that number.
LEMMA Join ==
  ASSUME NEW b3 \in 0..(P1 - 1), NEW b2 \in 0..(P1 - 1),
         NEW b1 \in 0..(P1 - 1), NEW b0 \in 0..(P1 - 1)
  PROVE  LET n == Joined(b3, b2, b1, b0) IN
         /\ n \in Uint32s
         /\ (n \div P3) % P1 = b3 /\ (n \div P2) % P1 = b2
         /\ (n \div P1) % P1 = b1 /\ n % P1 = b0 /\ (n \div 1) % P1 = b0
<1> DEFINE n == Joined(b3, b2, b1, b0)
<1>0. n = (b3 * P3) + (b2 * P2) + (b1 * P1) + b0
  BY DEF Joined
<1> HIDE DEF n
<1>1. n \in Nat /\ n < P4
  BY <1>0, SMT DEF P1, P2, P3, P4
<1>2. n \div P3 = b3
  BY <1>0, SMT DEF P1, P2, P3
<1>3. n \div P2 = (b3 * P1) + b2
  BY <1>0, SMT DEF P1, P2, P3
<1>4. n \div P1 = (b3 * P2) + (b2 * P1) + b1
  BY <1>0, SMT DEF P1, P2, P3
<1>5. n \div 1 = n /\ n % P1 = b0
  BY <1>0, SMT DEF P1, P2, P3
<1>6. (n \div P2) % P1 = b2
  BY <1>3, SMT DEF P1
<1>7. (n \div P1) % P1 = b1
  BY <1>4, SMT DEF P1, P2
<1>8. b3 % P1 = b3
  BY SMT DEF P1
<1> QED BY Uint32Range, <1>1, <1>2, <1>5, <1>6, <1>7, <1>8, Zenon DEF n

-----------------------------------------------------------------------------

\* The four chars of a number from place a of a buffer on.
Holds4(b, a, n) ==
  /\ b[a] = Shifted(n, P3) /\ b[a + 1] = Shifted(n, P2)
  /\ b[a + 2] = Shifted(n, P1) /\ b[a + 3] = Shifted(n, 1)

(***************************************************************************)
(* DecodeUint32 gives the number back that EncodeUint32 has written.       *)
(***************************************************************************)
THEOREM Uint32RoundTrip ==
  ASSUME NEW n \in Uint32s, NEW b, NEW a, Holds4(b, a, n)
  PROVE  DecodeUint32(b, a) = n
<1>1. /\ Byte(b[a]) = (n \div P3) % P1 /\ Byte(b[a + 1]) = (n \div P2) % P1
      /\ Byte(b[a + 2]) = (n \div P1) % P1 /\ Byte(b[a + 3]) = n % P1
  BY Digits, CharByte, Zenon DEF Holds4, Shifted
<1> QED BY <1>1, Digits, Zenon DEF DecodeUint32

(***************************************************************************)
(* EncodeUint32 writes back the chars that DecodeUint32 has read: no two   *)
(* headers on the wire stand for the same numbers.                         *)
(***************************************************************************)
THEOREM Uint32Onto ==
  ASSUME NEW b, NEW a,
         b[a] \in Chars, b[a + 1] \in Chars, b[a + 2] \in Chars, b[a + 3] \in Chars
  PROVE  DecodeUint32(b, a) \in Uint32s /\ Holds4(b, a, DecodeUint32(b, a))
<1> DEFINE n == DecodeUint32(b, a)
<1>1. /\ n \in Uint32s
      /\ (n \div P3) % P1 = Byte(b[a]) /\ (n \div P2) % P1 = Byte(b[a + 1])
      /\ (n \div P1) % P1 = Byte(b[a + 2]) /\ (n \div 1) % P1 = Byte(b[a + 3])
  <2>1. n = Joined(Byte(b[a]), Byte(b[a + 1]), Byte(b[a + 2]), Byte(b[a + 3]))
    BY Zenon DEF DecodeUint32, Joined
  <2> HIDE DEF n
  <2> QED BY <2>1, ByteChar, Join
<1> QED BY <1>1, ByteChar, Zenon DEF Holds4, Shifted

\* Swapping the bytes of a number turns its chars round.
LEMMA Swapped ==
  ASSUME NEW n \in Uint32s
  PROVE  /\ Swap32(n) \in Uint32s
         /\ Shifted(Swap32(n), P3) = Shifted(n, 1)
         /\ Shifted(Swap32(n), P2) = Shifted(n, P1)
         /\ Shifted(Swap32(n), P1) = Shifted(n, P2)
         /\ Shifted(Swap32(n), 1) = Shifted(n, P3)
<1>1. /\ n % P1 \in 0..(P1 - 1) /\ (n \div P1) % P1 \in 0..(P1 - 1)
      /\ (n \div P2) % P1 \in 0..(P1 - 1) /\ (n \div P3) % P1 \in 0..(P1 - 1)
      /\ (n \div 1) % P1 = n % P1
  BY Digits, Zenon
<1>2. Swap32(n) = Joined(n % P1, (n \div P1) % P1, (n \div P2) % P1, (n \div P3) % P1)
  BY Zenon DEF Swap32, Joined
<1>3. /\ Swap32(n) \in Uint32s
      /\ (Swap32(n) \div P3) % P1 = n % P1 /\ (Swap32(n) \div P2) % P1 = (n \div P1) % P1
      /\ (Swap32(n) \div P1) % P1 = (n \div P2) % P1
      /\ (Swap32(n) \div 1) % P1 = (n \div P3) % P1
  BY <1>1, <1>2, Join
<1> QED BY <1>1, <1>3, Zenon DEF Shifted

\* What htonl leaves in memory is what EncodeUint32 writes.
LEMMA StoredIsEncoded == \A n \in Uint32s : Stored4(htonl(n)) = EncodeUint32(n)
  BY Swapped, Zenon DEF Stored4, htonl, EncodeUint32

\* What htobe64 leaves in memory is what EncodeUint64 writes.
LEMMA StoredIsEncoded8 == \A n \in Uint64s : Stored8(htobe64(n)) = EncodeUint64(n)
<1> SUFFICES ASSUME NEW n \in Uint64s PROVE Stored8(htobe64(n)) = EncodeUint64(n)
  OBVIOUS
<1>1. n[1] \in Uint32s /\ n[2] \in Uint32s
  BY DEF Uint64s
<1>2. CASE LittleEndian
  <2> DEFINE h == <<Swap32(n[2]), Swap32(n[1])>>
  <2>1. htobe64(n) = h /\ h[1] = Swap32(n[2]) /\ h[2] = Swap32(n[1])
    BY <1>2 DEF htobe64
  <2> HIDE DEF h
  <2> QED BY <1>1, <1>2, <2>1, Swapped, Zenon DEF Stored8, EncodeUint64
<1>3. CASE ~ LittleEndian
  BY <1>3 DEF Stored8, htobe64, EncodeUint64
<1> QED BY <1>2, <1>3

(***************************************************************************)
(* push_pack_head and EncodePhdr leave the same buffer.                    *)
(***************************************************************************)
THEOREM SameBytes ==
  ASSUME NEW h \in PHDR, NEW b, NEW a
  PROVE  push_pack_head(b, a, h) = EncodePhdr(h, b, a)
<1>1. h.len \in Uint32s /\ h.cmd \in Uint32s /\ h.uid \in Uint64s /\ h.sid \in Uint32s
  BY DEF PHDR
<1> QED BY <1>1, StoredIsEncoded, StoredIsEncoded8, Zenon DEF push_pack_head, EncodePhdr

\* Place i of a buffer and the next three hold chars.
HasChars(b, i) == b[i] \in Chars /\ b[i + 1] \in Chars /\ b[i + 2] \in Chars /\ b[i + 3] \in Chars

\* What ntohl makes of a number in memory is what DecodeUint32 reads.
LEMMA LoadedIsDecoded ==
  ASSUME NEW b, NEW a, HasChars(b, a)
  PROVE  htonl(Loaded4(b, a)) = DecodeUint32(b, a) /\ DecodeUint32(b, a) \in Uint32s
<1>1. /\ Byte(b[a]) \in 0..(P1 - 1) /\ Byte(b[a + 1]) \in 0..(P1 - 1)
      /\ Byte(b[a + 2]) \in 0..(P1 - 1) /\ Byte(b[a + 3]) \in 0..(P1 - 1)
  BY ByteChar, Zenon DEF HasChars
<1>2. DecodeUint32(b, a) = Joined(Byte(b[a]), Byte(b[a + 1]), Byte(b[a + 2]), Byte(b[a + 3]))
  BY Zenon DEF DecodeUint32, Joined
<1>3. DecodeUint32(b, a) \in Uint32s
  BY <1>1, <1>2, Join
<1>4. CASE LittleEndian
  <2> DEFINE n == Joined(Byte(b[a + 3]), Byte(b[a + 2]), Byte(b[a + 1]), Byte(b[a]))
  <2>1. /\ (n \div P3) % P1 = Byte(b[a + 3]) /\ (n \div P2) % P1 = Byte(b[a + 2])
        /\ (n \div P1) % P1 = Byte(b[a + 1]) /\ n % P1 = Byte(b[a])
    BY <1>1, Join
  <2>2. Loaded4(b, a) = n
    BY <1>4, Zenon DEF Loaded4, Joined
  <2> HIDE DEF n
  <2>3. Swap32(n) = Joined(n % P1, (n \div P1) % P1, (n \div P2) % P1, (n \div P3) % P1)
    BY Zenon DEF Swap32, Joined
  <2> QED BY <1>2, <1>3, <1>4, <2>1, <2>2, <2>3, Zenon DEF htonl
<1>5. CASE ~ LittleEndian
  BY <1>3, <1>5, Zenon DEF htonl, Loaded4
<1> QED BY <1>4, <1>5

(***************************************************************************)
(* pop_pack_head and DecodePhdr read the same header, whatever is there.   *)
(***************************************************************************)
THEOREM SameHeader ==
  ASSUME NEW b, NEW a \in Int, \A i \in a..(a + 19) : b[i] \in Chars
  PROVE  pop_pack_head(b, a) = DecodePhdr(b, a) /\ DecodePhdr(b, a) \in PHDR
<1>1. /\ HasChars(b, a) /\ HasChars(b, a + 4) /\ HasChars(b, a + 8)
      /\ HasChars(b, a + 8 + 4) /\ HasChars(b, a + 16)
  BY SMT DEF HasChars
<1>2. htobe64(Loaded8(b, a + 8)) = DecodeUint64(b, a + 8)
  <2>1. CASE LittleEndian
    <3> DEFINE w == <<Loaded4(b, a + 8 + 4), Loaded4(b, a + 8)>>
    <3>1. Loaded8(b, a + 8) = w /\ w[1] = Loaded4(b, a + 8 + 4) /\ w[2] = Loaded4(b, a + 8)
      BY <2>1 DEF Loaded8
    <3> HIDE DEF w
    <3>2. htobe64(w) = <<htonl(w[2]), htonl(w[1])>>
      BY <2>1, Zenon DEF htobe64, htonl
    <3> QED BY <1>1, <3>1, <3>2, LoadedIsDecoded, Zenon DEF DecodeUint64
  <2>2. CASE ~ LittleEndian
    BY <2>2, Zenon DEF htobe64, Loaded8
  <2> QED BY <2>1, <2>2
<1>3. pop_pack_head(b, a) = DecodePhdr(b, a)
  BY <1>1, <1>2, LoadedIsDecoded, Zenon DEF pop_pack_head, DecodePhdr
<1>4. DecodePhdr(b, a) \in PHDR
  BY <1>1, LoadedIsDecoded DEF DecodePhdr, DecodeUint64, PHDR, Uint64s
<1> QED BY <1>3, <1>4

(***************************************************************************)
(* DecodePhdr gives the header back that EncodePhdr has written, and the   *)
(* rest of the buffer is as it was.                                        *)
(***************************************************************************)
THEOREM PhdrRoundTrip ==
  ASSUME NEW h \in PHDR, NEW b, NEW a \in Int, a..(a + 19) \subseteq DOMAIN b
  PROVE  /\ DecodePhdr(EncodePhdr(h, b, a), a) = h
         /\ \A i \in DOMAIN b \ (a..(a + 19)) : EncodePhdr(h, b, a)[i] = b[i]
<1> DEFINE b1 == Put(b, a, 4, EncodeUint32(h.len))
           b2 == Put(b1, a + 4, 4, EncodeUint32(h.cmd))
           b3 == Put(b2, a + 8, 8, EncodeUint64(h.uid))
           b4 == Put(b3, a + 16, 4, EncodeUint32(h.sid))
<1>1. EncodePhdr(h, b, a) = b4
  BY Zenon DEF EncodePhdr
<1>2. /\ DOMAIN b1 = DOMAIN b
      /\ \A i \in DOMAIN b :
           b1[i] = IF i \in a..(a + 4 - 1) THEN EncodeUint32(h.len)[i - a + 1] ELSE b[i]
  BY DEF Put
<1> HIDE DEF b1
<1>2a. /\ DOMAIN b2 = DOMAIN b1
       /\ \A i \in DOMAIN b1 :
            b2[i] = IF i \in (a + 4)..(a + 4 + 4 - 1)
                    THEN EncodeUint32(h.cmd)[i - (a + 4) + 1] ELSE b1[i]
  BY DEF Put
<1> HIDE DEF b2
<1>2b. /\ DOMAIN b3 = DOMAIN b2
       /\ \A i \in DOMAIN b2 :
            b3[i] = IF i \in (a + 8)..(a + 8 + 8 - 1)
                    THEN EncodeUint64(h.uid)[i - (a + 8) + 1] ELSE b2[i]
  BY DEF Put
<1> HIDE DEF b3
<1>2c. \A i \in DOMAIN b3 :
         b4[i] = IF i \in (a + 16)..(a + 16 + 4 - 1)
                 THEN EncodeUint32(h.sid)[i - (a + 16) + 1] ELSE b3[i]
  BY DEF Put
<1> HIDE DEF b4
<1>3. \A i \in DOMAIN b \ (a..(a + 19)) : b4[i] = b[i]
  BY <1>2, <1>2a, <1>2b, <1>2c, SMT
<1>4. /\ \A k \in 0..3 : a + k \in DOMAIN b /\ b4[a + k] = EncodeUint32(h.len)[k + 1]
      /\ \A k \in 0..3 : a + 4 + k \in DOMAIN b /\ b4[a + 4 + k] = EncodeUint32(h.cmd)[k + 1]
      /\ \A k \in 0..7 : a + 8 + k \in DOMAIN b /\ b4[a + 8 + k] = EncodeUint64(h.uid)[k + 1]
      /\ \A k \in 0..3 : a + 16 + k \in DOMAIN b /\ b4[a + 16 + k] = EncodeUint32(h.sid)[k + 1]
  BY <1>2, <1>2a, <1>2b, <1>2c, SMT
<1>5. /\ Holds4(b4, a, h.len) /\ Holds4(b4, a + 4, h.cmd) /\ Holds4(b4, a + 16, h.sid)
      /\ Holds4(b4, a + 8, h.uid[1]) /\ Holds4(b4, a + 8 + 4, h.uid[2])
  BY <1>4 DEF Holds4, EncodeUint32, EncodeUint64
<1>6. h.len \in Uint32s /\ h.cmd \in Uint32s /\ h.uid[1] \in Uint32s /\ h.uid[2] \in Uint32s
      /\ h.sid \in Uint32s
  BY DEF PHDR, Uint64s
<1>7. DecodePhdr(b4, a) =
        [len |-> h.len, cmd |-> h.cmd, uid |-> <<h.uid[1], h.uid[2]>>, sid |-> h.sid]
  <2>1. /\ DecodeUint32(b4, a) = h.len /\ DecodeUint32(b4, a + 4) = h.cmd
        /\ DecodeUint32(b4, a + 16) = h.sid /\ DecodeUint32(b4, a + 8) = h.uid[1]
        /\ DecodeUint32(b4, a + 8 + 4) = h.uid[2]
    BY <1>5, <1>6, Uint32RoundTrip
  <2> QED BY <2>1, Zenon DEF DecodePhdr, DecodeUint64
<1>8. h = [len |-> h.len, cmd |-> h.cmd, uid |-> <<h.uid[1], h.uid[2]>>, sid |-> h.sid]
  BY DEF PHDR, Uint64s
<1> QED BY <1>1, <1>3, <1>7, <1>8

=============================================================================
