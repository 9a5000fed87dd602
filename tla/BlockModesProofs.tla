-------------------------- MODULE BlockModesProofs --------------------------
(***************************************************************************)
(* Decryption undoes encryption, for every block cipher, block size, mode  *)
(* of operation, padding, IV and accepted message: theorems about          *)
(* BlockModes.  The inductive invariant IInv relates the blocks a run has  *)
(* produced and the values it carried to the plaintext.                    *)
(***************************************************************************)
EXTENDS BlockModes, SequenceTheorems, FiniteSetTheorems, WellFoundedInduction, TLAPS

Bytes == Seq(Byte)

-----------------------------------------------------------------------------
(***************************************************************************)
(* Arithmetic of blocks.                                                   *)
(***************************************************************************)

\* Multiplication by the block size keeps order.
LEMMA TimesMonotone ==
    ASSUME NEW a \in Nat, NEW b \in Nat, a <= b
    PROVE  a * B <= b * B /\ a * B \in Nat
  <1>1. PICK d \in Nat : b = a + d
    <2>1. b - a \in Nat /\ b = a + (b - a)
      OBVIOUS
    <2> QED  BY <2>1
  <1>2. b * B = a * B + d * B /\ d * B >= 0 /\ a * B >= 0
    BY <1>1, SizeAssumption
  <1> QED  BY <1>2, SizeAssumption

\* In a whole number of blocks a block that has begun is whole.
LEMMA BlocksAreWhole ==
    ASSUME NEW n \in Nat, n % B = 0, NEW i \in Nat, i * B < n
    PROVE  (i + 1) * B <= n
  <1>1. PICK q \in Nat : n = q * B
    <2>1. n = B * (n \div B) + (n % B) /\ n \div B \in Nat
      BY SizeAssumption
    <2> DEFINE d == n \div B
    <2> HIDE DEF d
    <2>2. d \in Nat /\ n = d * B
      BY <2>1, SizeAssumption DEF d
    <2> QED  BY <2>2
  <1>2. i + 1 <= q
    <2>1. SUFFICES ASSUME q <= i PROVE FALSE
      BY <1>1
    <2>2. q * B <= i * B
      BY <2>1, TimesMonotone
    <2> QED  BY <2>2, <1>1, SizeAssumption
  <1> QED  BY <1>2, <1>1, TimesMonotone

\* A multiple of the block size leaves no remainder.
LEMMA MultipleIsAligned ==
    ASSUME NEW q \in Nat, NEW n \in Nat, n = q * B
    PROVE  n % B = 0
  <1>1. n = B * (n \div B) + (n % B) /\ n \div B \in Nat /\ n % B \in 0..(B - 1)
    BY SizeAssumption
  <1> DEFINE d == n \div B
  <1>2. CASE q <= d
    <2>1. q * B <= d * B  BY <1>1, <1>2, TimesMonotone
    <2> QED  BY <2>1, <1>1, SizeAssumption
  <1>3. CASE d + 1 <= q
    <2>1. (d + 1) * B <= q * B  BY <1>1, <1>3, TimesMonotone
    <2> QED  BY <2>1, <1>1, SizeAssumption
  <1> QED  BY <1>1, <1>2, <1>3

-----------------------------------------------------------------------------
(***************************************************************************)
(* Blocks as sequences of bytes.                                           *)
(***************************************************************************)

\* A block is a string of as many bytes as the block size.
LEMMA BlockIsBytes ==
    \A x : x \in Block <=> x \in Bytes /\ Len(x) = B
  <1> SUFFICES ASSUME NEW x PROVE x \in Block <=> x \in Bytes /\ Len(x) = B
    OBVIOUS
  <1>1. ASSUME x \in Block PROVE x \in Bytes /\ Len(x) = B
    <2>1. x \in Bytes
      BY <1>1, SeqDef, SizeAssumption DEF Block, Bytes
    <2>2. DOMAIN x = 1..B /\ DOMAIN x = 1..Len(x) /\ Len(x) \in Nat
      BY <1>1, <2>1, LenProperties DEF Block, Bytes
    <2> QED  BY <2>1, <2>2, SizeAssumption
  <1>2. ASSUME x \in Bytes, Len(x) = B PROVE x \in Block
    BY <1>2, LenProperties DEF Block, Bytes
  <1> QED  BY <1>1, <1>2

\* A string of bytes given position by position.
LEMMA BytesByPosition ==
    ASSUME NEW n \in Nat, NEW x \in [1..n -> Byte]
    PROVE  x \in Bytes /\ Len(x) = n
  <1>1. x \in Bytes
    BY SeqDef DEF Bytes
  <1>2. DOMAIN x = 1..n /\ DOMAIN x = 1..Len(x) /\ Len(x) \in Nat
    BY <1>1, LenProperties DEF Bytes
  <1> QED  BY <1>1, <1>2

\* The bytes of block i: all of them, or what is left of the last one.
LEMMA BlockAtBytes ==
    ASSUME NEW s \in Bytes, NEW i \in Nat, i * B < Len(s)
    PROVE  /\ BlockAt(s, i) \in Bytes
           /\ Len(BlockAt(s, i)) = IF (i + 1) * B <= Len(s) THEN B ELSE Len(s) - i * B
           /\ Len(BlockAt(s, i)) \in 1..B
           /\ \A p \in 1..Len(BlockAt(s, i)) : BlockAt(s, i)[p] = s[i * B + p]
  <1> DEFINE lo == i * B + 1
             hi == IF (i + 1) * B <= Len(s) THEN (i + 1) * B ELSE Len(s)
  <1>1. i * B \in Nat /\ (i + 1) * B = i * B + B /\ Len(s) \in Nat
    BY TimesMonotone, LenProperties, SizeAssumption DEF Bytes
  <1>2. lo \in Int /\ hi \in Int /\ lo >= 1 /\ lo <= hi /\ hi <= Len(s)
    BY <1>1, SizeAssumption
  <1>3. \A p \in lo..hi : s[p] \in Byte
    BY <1>2, ElementOfSeq DEF Bytes
  <1> HIDE DEF lo, hi
  <1>4. /\ SubSeq(s, lo, hi) \in Bytes
        /\ Len(SubSeq(s, lo, hi)) = hi - lo + 1
        /\ \A p \in 1..(hi - lo + 1) : SubSeq(s, lo, hi)[p] = s[lo + p - 1]
    BY <1>2, <1>3, SubSeqProperties DEF Bytes
  <1>5. BlockAt(s, i) = SubSeq(s, lo, hi)
    BY DEF BlockAt, lo, hi
  <1>6. hi - lo + 1 = IF (i + 1) * B <= Len(s) THEN B ELSE Len(s) - i * B
    <2>1. CASE (i + 1) * B <= Len(s)
      <3>1. hi = i * B + B  BY <1>1, <2>1 DEF hi
      <3> QED  BY <1>1, <2>1, <3>1, SizeAssumption DEF lo
    <2>2. CASE ~((i + 1) * B <= Len(s))
      <3>1. hi = Len(s)  BY <2>2 DEF hi
      <3> QED  BY <1>1, <2>2, <3>1 DEF lo
    <2> QED  BY <2>1, <2>2
  <1>7. hi - lo + 1 \in 1..B
    BY <1>1, <1>6, SizeAssumption
  <1>8. \A p \in 1..(hi - lo + 1) : s[lo + p - 1] = s[i * B + p]
    BY <1>1, <1>2 DEF lo
  <1> QED  BY <1>4, <1>5, <1>6, <1>7, <1>8

\* Appending to a string leaves its whole blocks as they are, and a block
\* appended to whole blocks is the next one.
LEMMA BlockAtConcat ==
    ASSUME NEW s \in Bytes, NEW t \in Bytes, NEW i \in Nat
    PROVE  /\ (i + 1) * B <= Len(s) => BlockAt(s \o t, i) = BlockAt(s, i)
           /\ Len(s) = i * B /\ Len(t) \in 1..B => BlockAt(s \o t, i) = t
  <1>1. /\ s \o t \in Bytes /\ Len(s \o t) = Len(s) + Len(t)
        /\ \A p \in 1..(Len(s) + Len(t)) : (s \o t)[p] = IF p <= Len(s) THEN s[p] ELSE t[p - Len(s)]
    BY ConcatProperties DEF Bytes
  <1>2. Len(s) \in Nat /\ Len(t) \in Nat
    BY LenProperties DEF Bytes
  <1>3. i * B \in Nat /\ (i + 1) * B = i * B + B
    BY TimesMonotone, SizeAssumption
  <1>4. ASSUME (i + 1) * B <= Len(s) PROVE BlockAt(s \o t, i) = BlockAt(s, i)
    <2>1. i * B < Len(s) /\ i * B < Len(s \o t) /\ (i + 1) * B <= Len(s \o t)
      BY <1>1, <1>2, <1>3, <1>4, SizeAssumption
    <2>2. /\ BlockAt(s, i) \in Bytes /\ Len(BlockAt(s, i)) = B
          /\ \A p \in 1..B : BlockAt(s, i)[p] = s[i * B + p]
      BY <1>4, <2>1, BlockAtBytes
    <2>3. /\ BlockAt(s \o t, i) \in Bytes /\ Len(BlockAt(s \o t, i)) = B
          /\ \A p \in 1..B : BlockAt(s \o t, i)[p] = (s \o t)[i * B + p]
      BY <1>1, <2>1, BlockAtBytes
    <2>4. \A p \in 1..B : (s \o t)[i * B + p] = s[i * B + p]
      BY <1>1, <1>2, <1>3, <1>4, SizeAssumption
    <2> QED  BY <2>2, <2>3, <2>4, SeqEqual DEF Bytes
  <1>5. ASSUME Len(s) = i * B, Len(t) \in 1..B PROVE BlockAt(s \o t, i) = t
    <2>1. i * B < Len(s \o t)
      BY <1>1, <1>2, <1>5
    <2>2. /\ BlockAt(s \o t, i) \in Bytes
          /\ Len(BlockAt(s \o t, i)) = IF (i + 1) * B <= Len(s \o t) THEN B ELSE Len(s \o t) - i * B
          /\ \A p \in 1..Len(BlockAt(s \o t, i)) : BlockAt(s \o t, i)[p] = (s \o t)[i * B + p]
      BY <1>1, <2>1, BlockAtBytes
    <2>3. Len(BlockAt(s \o t, i)) = Len(t)
      <3>1. CASE (i + 1) * B <= Len(s \o t)
        BY <3>1, <2>2, <1>1, <1>2, <1>3, <1>5, SizeAssumption
      <3>2. CASE ~((i + 1) * B <= Len(s \o t))
        BY <3>2, <2>2, <1>1, <1>2, <1>3, <1>5, SizeAssumption
      <3> QED  BY <3>1, <3>2
    <2>4. \A p \in 1..Len(t) : (s \o t)[i * B + p] = t[p]
      BY <1>1, <1>2, <1>3, <1>5
    <2> QED  BY <2>2, <2>3, <2>4, SeqEqual DEF Bytes
  <1> QED  BY <1>4, <1>5

\* The first blocks of a string, and one block more.
LEMMA FrontGrows ==
    ASSUME NEW s \in Bytes, NEW i \in Nat, i * B < Len(s)
    PROVE  Front(s, i * B) \o BlockAt(s, i) =
               Front(s, IF (i + 1) * B <= Len(s) THEN (i + 1) * B ELSE Len(s))
  <1> DEFINE m == i * B
             n == IF (i + 1) * B <= Len(s) THEN (i + 1) * B ELSE Len(s)
  <1>1. m \in Nat /\ (i + 1) * B = m + B /\ Len(s) \in Nat
    BY TimesMonotone, LenProperties, SizeAssumption DEF Bytes
  <1>2. m < n /\ n <= Len(s) /\ n \in Nat
    BY <1>1, SizeAssumption
  <1>3. BlockAt(s, i) = SubSeq(s, m + 1, n)
    BY DEF BlockAt
  <1> HIDE DEF m, n
  <1>4. \A p \in 1..Len(s) : s[p] \in Byte
    BY ElementOfSeq DEF Bytes
  <1>5. /\ SubSeq(s, 1, m) \in Bytes /\ Len(SubSeq(s, 1, m)) = m
        /\ \A p \in 1..m : SubSeq(s, 1, m)[p] = s[p]
    BY <1>1, <1>2, <1>4, SubSeqProperties DEF Bytes
  <1>6. /\ SubSeq(s, m + 1, n) \in Bytes /\ Len(SubSeq(s, m + 1, n)) = n - m
        /\ \A p \in 1..(n - m) : SubSeq(s, m + 1, n)[p] = s[m + p]
    <2>1. /\ SubSeq(s, m + 1, n) \in Seq(Byte)
          /\ Len(SubSeq(s, m + 1, n)) = IF m + 1 <= n THEN n - (m + 1) + 1 ELSE 0
          /\ \A p \in 1..(n - (m + 1) + 1) : SubSeq(s, m + 1, n)[p] = s[(m + 1) + p - 1]
      <3>1. m + 1 \in Int /\ n \in Int /\ \A p \in (m + 1)..n : s[p] \in Byte
        BY <1>1, <1>2, <1>4
      <3> QED  BY <3>1, SubSeqProperties
    <2>2. n - (m + 1) + 1 = n - m /\ \A p \in 1..(n - m) : (m + 1) + p - 1 = m + p
      BY <1>1, <1>2
    <2> QED  BY <2>1, <2>2, <1>1, <1>2 DEF Bytes
  <1>7. /\ SubSeq(s, 1, n) \in Bytes /\ Len(SubSeq(s, 1, n)) = n
        /\ \A p \in 1..n : SubSeq(s, 1, n)[p] = s[p]
    BY <1>1, <1>2, <1>4, SubSeqProperties DEF Bytes
  <1> DEFINE left == SubSeq(s, 1, m)
             right == SubSeq(s, m + 1, n)
             whole == SubSeq(s, 1, n)
  <1>8. \A p \in 1..n : (left \o right)[p] = s[p]
    <2>1. ASSUME NEW p \in 1..n, p <= m PROVE (left \o right)[p] = s[p]
      <3>1. (left \o right)[p] = left[p]
        BY <1>1, <1>2, <1>5, <1>6, <2>1, ConcatProperties DEF Bytes
      <3> QED  BY <1>1, <1>5, <2>1, <3>1
    <2>2. ASSUME NEW p \in 1..n, m < p PROVE (left \o right)[p] = s[p]
      <3>1. p - m \in 1..(n - m) /\ m + (p - m) = p /\ p \in 1..(m + (n - m))
        BY <1>1, <1>2, <2>2
      <3>2. (left \o right)[p] = right[p - m]
        <4> HIDE DEF left, right
        <4>1. left \in Bytes /\ Len(left) = m /\ right \in Bytes /\ Len(right) = n - m
          BY <1>5, <1>6 DEF left, right
        <4>2. p \in 1..(Len(left) + Len(right)) /\ ~(p <= Len(left))
          BY <1>1, <2>2, <3>1, <4>1
        <4> QED  BY <4>1, <4>2, ConcatProperties DEF Bytes
      <3> QED  BY <1>6, <3>1, <3>2
    <2> QED  BY <1>1, <1>2, <2>1, <2>2
  <1>9. left \o right \in Bytes /\ Len(left \o right) = n
    <2>1. left \o right \in Bytes /\ Len(left \o right) = Len(left) + Len(right)
      BY <1>5, <1>6, ConcatProperties DEF Bytes
    <2> QED  BY <1>1, <1>2, <1>5, <1>6, <2>1
  <1>10. left \o right = whole
    BY <1>7, <1>8, <1>9, SeqEqual DEF Bytes
  <1> QED  BY <1>3, <1>10 DEF Front, m, n

-----------------------------------------------------------------------------
(***************************************************************************)
(* The bodies of the loop.                                                 *)
(***************************************************************************)

\* The exclusive or of two strings is as long as the first, and undoes itself.
LEMMA XorUndoes ==
    ASSUME NEW a \in Bytes, NEW b \in Bytes, Len(b) = Len(a)
    PROVE  /\ XorBytes(a, b) \in Bytes /\ Len(XorBytes(a, b)) = Len(a)
           /\ XorBytes(XorBytes(a, b), b) = a
  <1>1. Len(a) \in Nat /\ \A p \in 1..Len(a) : a[p] \in Byte /\ b[p] \in Byte
    BY LenProperties, ElementOfSeq DEF Bytes
  <1>2. \A x, y \in Byte : XorByte[x][y] \in Byte /\ XorByte[XorByte[x][y]][y] = x
    BY XorAssumption
  <1>3. XorBytes(a, b) \in [1..Len(a) -> Byte] /\ \A p \in 1..Len(a) : XorBytes(a, b)[p] = XorByte[a[p]][b[p]]
    BY <1>1, <1>2 DEF XorBytes
  <1>4. XorBytes(a, b) \in Bytes /\ Len(XorBytes(a, b)) = Len(a)
    BY <1>1, <1>3, BytesByPosition
  <1>5. /\ XorBytes(XorBytes(a, b), b) \in [1..Len(a) -> Byte]
        /\ \A p \in 1..Len(a) : XorBytes(XorBytes(a, b), b)[p] = a[p]
    <2>1. XorBytes(XorBytes(a, b), b) = [p \in 1..Len(a) |-> XorByte[XorBytes(a, b)[p]][b[p]]]
      BY <1>4 DEF XorBytes
    <2>2. \A p \in 1..Len(a) : XorByte[XorBytes(a, b)[p]][b[p]] = a[p]
      BY <1>1, <1>2, <1>3
    <2> QED  BY <1>1, <2>1, <2>2
  <1>6. XorBytes(XorBytes(a, b), b) \in Bytes /\ Len(XorBytes(XorBytes(a, b), b)) = Len(a)
    BY <1>1, <1>5, BytesByPosition
  <1> QED  BY <1>4, <1>5, <1>6, SeqEqual DEF Bytes

\* The keystream, cut to a piece of a message, is as long as the piece.
LEMMA TrimBytes ==
    ASSUME NEW a \in Block, NEW in \in Bytes, Len(in) \in 1..B
    PROVE  Trim(a, in) \in Bytes /\ Len(Trim(a, in)) = Len(in)
  <1>1. a \in Bytes /\ Len(a) = B
    BY BlockIsBytes
  <1>2. \A p \in 1..Len(in) : a[p] \in Byte
    BY SizeAssumption DEF Block
  <1> QED  BY <1>2, SubSeqProperties, SizeAssumption DEF Trim, Front, Bytes

\* Masking a piece of a message twice with the same keystream restores it.
LEMMA MaskedUndoes ==
    ASSUME NEW c \in Block, NEW in \in Bytes, Len(in) \in 1..B
    PROVE  /\ Masked(in, c) \in Bytes /\ Len(Masked(in, c)) = Len(in)
           /\ Masked(Masked(in, c), c) = in
  <1>1. E[c] \in Block
    BY CipherAssumption
  <1>2. Trim(E[c], in) \in Bytes /\ Len(Trim(E[c], in)) = Len(in)
    BY <1>1, TrimBytes
  <1>3. /\ Masked(in, c) \in Bytes /\ Len(Masked(in, c)) = Len(in)
        /\ XorBytes(XorBytes(in, Trim(E[c], in)), Trim(E[c], in)) = in
    BY <1>2, XorUndoes DEF Masked
  <1>4. Trim(E[c], Masked(in, c)) = Trim(E[c], in)
    BY <1>3 DEF Trim
  <1> QED  BY <1>3, <1>4 DEF Masked

\* The next counter is a block.
LEMMA IncrementIsBlock ==
    ASSUME NEW c \in Block PROVE Increment(c) \in Block
  <1>1. \A p \in 1..B : c[p] \in Byte
    BY DEF Block
  <1>2. \A x \in Byte : (x + 1) % W \in Byte
    BY SizeAssumption DEF Byte
  <1> QED  BY <1>1, <1>2 DEF Increment, Block

\* A piece of a message a mode takes: a block, or less in a stream mode.
Piece(m, in) == in \in Bytes /\ Len(in) \in 1..B /\ (m \notin StreamModes => Len(in) = B)

\* One turn of the decrypting loop undoes one turn of the encrypting loop
\* that carried the same value, and carries the same value on.
LEMMA BodyUndoes ==
    ASSUME NEW m \in CipherModes, NEW in, Piece(m, in), NEW c \in Block
    PROVE  LET r == Body(m, "encrypt", in, c)
               d == Body(m, "decrypt", r.out, c)
           IN  /\ r.out \in Bytes /\ Len(r.out) = Len(in)
               /\ r.carry \in Bytes /\ d.carry \in Bytes
               /\ d.out = in
               /\ Len(in) = B => r.carry \in Block /\ d.carry = r.carry
  <1>1. in \in Bytes /\ Len(in) \in 1..B
    BY DEF Piece
  <1>2. c \in Bytes /\ Len(c) = B
    BY BlockIsBytes
  <1>3. CASE m \in {"single-block", "ecb"}
    <2>1. in \in Block
      BY <1>1, <1>3, BlockIsBytes DEF Piece, StreamModes
    <2>2. E[in] \in Block /\ D[E[in]] = in
      BY <2>1, CipherAssumption
    <2>3. E[in] \in Bytes /\ Len(E[in]) = B
      BY <2>2, BlockIsBytes
    <2>4. Body(m, "encrypt", in, c) = Result(E[in], c) /\ Body(m, "decrypt", E[in], c) = Result(in, c)
      BY <1>3, <2>2 DEF Body, EcbBody
    <2> QED  BY <1>1, <1>2, <2>1, <2>3, <2>4, BlockIsBytes DEF Result
  <1>4. CASE m = "cbc"
    <2>1. in \in Block /\ Len(in) = B
      BY <1>1, <1>4, BlockIsBytes DEF Piece, StreamModes
    <2>2. XorBytes(in, c) \in Bytes /\ Len(XorBytes(in, c)) = B /\ XorBytes(XorBytes(in, c), c) = in
      BY <1>1, <1>2, <2>1, XorUndoes
    <2>3. XorBytes(in, c) \in Block
      BY <2>2, BlockIsBytes
    <2>4. E[XorBytes(in, c)] \in Block /\ D[E[XorBytes(in, c)]] = XorBytes(in, c)
      BY <2>3, CipherAssumption
    <2>5. E[XorBytes(in, c)] \in Bytes /\ Len(E[XorBytes(in, c)]) = B
      BY <2>4, BlockIsBytes
    <2>6. /\ Body(m, "encrypt", in, c) = Result(E[XorBytes(in, c)], E[XorBytes(in, c)])
          /\ Body(m, "decrypt", E[XorBytes(in, c)], c) = Result(in, E[XorBytes(in, c)])
      BY <1>4, <2>2, <2>4 DEF Body, CbcBody
    <2> QED  BY <2>1, <2>4, <2>5, <2>6 DEF Result
  <1>5. CASE m \in StreamModes
    <2> DEFINE o == Masked(in, c)
    <2>1. o \in Bytes /\ Len(o) = Len(in) /\ Masked(o, c) = in
      BY <1>1, MaskedUndoes
    <2>2. Len(in) = B => o \in Block
      BY <2>1, BlockIsBytes
    <2>3. E[c] \in Block /\ Increment(c) \in Block /\ E[c] \in Bytes /\ Increment(c) \in Bytes
      BY CipherAssumption, IncrementIsBlock, BlockIsBytes
    <2> HIDE DEF o
    <2>4. CASE m = "ctr"
      <3>1. /\ Body(m, "encrypt", in, c) = Result(o, Increment(c))
            /\ Body(m, "decrypt", o, c) = Result(in, Increment(c))
        BY <2>1, <2>4 DEF Body, CtrBody, o
      <3> QED  BY <2>1, <2>3, <3>1 DEF Result
    <2>5. CASE m = "cfb"
      <3>1. Body(m, "encrypt", in, c) = Result(o, o) /\ Body(m, "decrypt", o, c) = Result(in, o)
        BY <2>1, <2>5 DEF Body, CfbBody, o
      <3> QED  BY <2>1, <2>2, <3>1 DEF Result
    <2>6. CASE m = "ofb"
      <3>1. /\ Body(m, "encrypt", in, c) = Result(o, E[c])
            /\ Body(m, "decrypt", o, c) = Result(in, E[c])
        BY <2>1, <2>6 DEF Body, OfbBody, o
      <3> QED  BY <2>1, <2>3, <3>1 DEF Result
    <2> QED  BY <1>5, <2>4, <2>5, <2>6 DEF StreamModes
  <1> QED  BY <1>3, <1>4, <1>5 DEF CipherModes, StreamModes

-----------------------------------------------------------------------------
(***************************************************************************)
(* Padding.                                                                *)
(***************************************************************************)

\* A set of positions has a last one: the sets of the positions after each
\* are well founded under inclusion.
LEMMA LargestBelow ==
    ASSUME NEW n \in Nat, NEW T, T \subseteq 1..n, T # {}
    PROVE  \E p \in T : \A q \in T : q <= p
  <1> DEFINE Up == {(p + 1)..n : p \in T}
             R == StrictSubsetOrdering(1..n)
  <1>1. Up \subseteq SUBSET (1..n) /\ Up # {}
    <2>1. \A p \in T : (p + 1)..n \subseteq 1..n
      OBVIOUS
    <2>2. Up # {}
      OBVIOUS
    <2> QED  BY <2>1, <2>2
  <1>2. IsWellFoundedOn(R, SUBSET (1..n))
    <2>1. IsFiniteSet(1..n)
      BY FS_Interval
    <2> QED  BY <2>1, FS_FiniteSubsetsOfFinite, FS_StrictSubsetOrderingWellFounded
  <1>3. PICK u \in Up : \A v \in Up : ~(<<v, u>> \in R)
    <2> HIDE DEF Up, R
    <2> QED  BY <1>1, <1>2, WFMin
  <1>4. PICK p \in T : u = (p + 1)..n
    OBVIOUS
  <1>5. ASSUME NEW q \in T, p < q PROVE FALSE
    <2>1. (q + 1)..n \in Up /\ (q + 1)..n \subseteq u /\ (q + 1)..n # u
      BY <1>4, <1>5
    <2>2. <<(q + 1)..n, u>> \in R
      BY <1>1, <2>1 DEF StrictSubsetOrdering
    <2> QED  BY <1>3, <2>1, <2>2
  <1> QED  BY <1>5

\* The last byte that is not zero is a position of the string, if there is one.
LEMMA LastNonZeroIsLast ==
    ASSUME NEW s \in Bytes
    PROVE  /\ LastNonZero(s) \in 0..Len(s)
           /\ \A p \in NonZero(s) : (\A q \in NonZero(s) : q <= p) => LastNonZero(s) = p
  <1>1. Len(s) \in Nat
    BY LenProperties DEF Bytes
  <1>2. NonZero(s) \subseteq 1..Len(s)
    BY DEF NonZero
  <1>3. CASE NonZero(s) = {}
    BY <1>1, <1>3 DEF LastNonZero
  <1>4. CASE NonZero(s) # {}
    <2>1. \E p \in NonZero(s) : \A q \in NonZero(s) : q <= p
      BY <1>1, <1>2, <1>4, LargestBelow
    <2>2. /\ LastNonZero(s) \in NonZero(s)
          /\ \A q \in NonZero(s) : q <= LastNonZero(s)
      BY <1>4, <2>1 DEF LastNonZero
    <2> QED  BY <1>1, <1>2, <2>2
  <1> QED  BY <1>3, <1>4

\* Filling up reaches the next multiple of the block size, and no further
\* multiple of it.
LEMMA FillReachesBlock ==
    ASSUME NEW n \in Nat
    PROVE  /\ FillLength(n) \in 1..B
           /\ (n + FillLength(n)) % B = 0
           /\ \A q \in Nat : n < q * B => n + FillLength(n) <= q * B
           /\ FillLength(n) % B = IF n % B = 0 THEN 0 ELSE FillLength(n)
  <1> DEFINE d == n \div B
             r == n % B
  <1>1. n = B * d + r /\ d \in Nat /\ r \in 0..(B - 1)
    BY SizeAssumption
  <1> HIDE DEF d, r
  <1>2. FillLength(n) = B - r
    BY DEF FillLength, r
  <1>3. n + FillLength(n) = (d + 1) * B
    BY <1>1, <1>2, SizeAssumption
  <1>4. FillLength(n) \in 1..B
    BY <1>1, <1>2, SizeAssumption
  <1>5. (n + FillLength(n)) % B = 0
    BY <1>1, <1>3, <1>4, MultipleIsAligned, SizeAssumption
  <1>6. ASSUME NEW q \in Nat, n < q * B PROVE n + FillLength(n) <= q * B
    <2>1. SUFFICES d + 1 <= q
      BY <1>1, <1>3, TimesMonotone
    <2>2. SUFFICES ASSUME q <= d PROVE FALSE
      BY <1>1
    <2>3. q * B <= d * B
      BY <1>1, <2>2, TimesMonotone
    <2> QED  BY <1>1, <1>6, <2>3, SizeAssumption
  <1>7. FillLength(n) % B = IF r = 0 THEN 0 ELSE FillLength(n)
    <2>1. CASE r = 0
      BY <2>1, <1>2, MultipleIsAligned, SizeAssumption
    <2>2. CASE r # 0
      <3>1. FillLength(n) \in 0..(B - 1)
        BY <1>1, <1>2, <2>2, SizeAssumption
      <3> QED  BY <2>2, <3>1, SizeAssumption
    <2> QED  BY <2>1, <2>2
  <1> QED  BY <1>4, <1>5, <1>6, <1>7 DEF r

\* A byte repeated.
LEMMA RepeatBytes ==
    ASSUME NEW b \in Byte, NEW n \in Nat
    PROVE  Repeat(b, n) \in Bytes /\ Len(Repeat(b, n)) = n /\ \A p \in 1..n : Repeat(b, n)[p] = b
  <1>1. Repeat(b, n) \in [1..n -> Byte]
    BY DEF Repeat
  <1> QED  BY <1>1, BytesByPosition DEF Repeat

\* What was appended to a string is cut off again.
LEMMA FrontOfConcat ==
    ASSUME NEW s \in Bytes, NEW t \in Bytes, NEW n \in 0..Len(s)
    PROVE  /\ Front(s \o t, n) = Front(s, n)
           /\ Front(s \o t, Len(s)) = s
           /\ Front(s, Len(s)) = s
  <1>1. Len(s) \in Nat /\ Len(t) \in Nat
    BY LenProperties DEF Bytes
  <1>2. /\ s \o t \in Bytes /\ Len(s \o t) = Len(s) + Len(t)
        /\ \A p \in 1..(Len(s) + Len(t)) : (s \o t)[p] = IF p <= Len(s) THEN s[p] ELSE t[p - Len(s)]
    BY ConcatProperties DEF Bytes
  <1>3. ASSUME NEW m \in 0..Len(s), NEW x \in Bytes, m <= Len(x)
        PROVE  /\ Front(x, m) \in Bytes /\ Len(Front(x, m)) = m
               /\ \A p \in 1..m : Front(x, m)[p] = x[p]
    <2>1. \A p \in 1..m : x[p] \in Byte
      <3>1. m \in Nat /\ Len(x) \in Nat
        BY <1>1, LenProperties DEF Bytes
      <3> QED  BY <1>3, <3>1, ElementOfSeq DEF Bytes
    <2> QED  BY <1>1, <2>1, SubSeqProperties DEF Front, Bytes
  <1>4. ASSUME NEW m \in 0..Len(s) PROVE Front(s \o t, m) = Front(s, m)
    <2>1. \A p \in 1..m : (s \o t)[p] = s[p]
      BY <1>1, <1>2
    <2>2. m <= Len(s) /\ m <= Len(s \o t)
      BY <1>1, <1>2
    <2>3. /\ Front(s \o t, m) \in Bytes /\ Len(Front(s \o t, m)) = m
          /\ \A p \in 1..m : Front(s \o t, m)[p] = (s \o t)[p]
      BY <1>2, <1>3, <2>2
    <2>4. /\ Front(s, m) \in Bytes /\ Len(Front(s, m)) = m
          /\ \A p \in 1..m : Front(s, m)[p] = s[p]
      BY <1>3, <2>2
    <2> QED  BY <2>1, <2>3, <2>4, SeqEqual DEF Bytes
  <1>5. Front(s, Len(s)) = s
    <2>1. Len(s) \in 0..Len(s) /\ Len(s) <= Len(s)
      BY <1>1
    <2>2. /\ Front(s, Len(s)) \in Bytes /\ Len(Front(s, Len(s))) = Len(s)
          /\ \A p \in 1..Len(s) : Front(s, Len(s))[p] = s[p]
      BY <1>3, <2>1
    <2> QED  BY <2>2, SeqEqual DEF Bytes
  <1> QED  BY <1>1, <1>4, <1>5

\* A string and what a step appends to it.
LEMMA AppendedBytes ==
    ASSUME NEW s \in Bytes, NEW r \in Bytes
    PROVE  /\ s \o r \in Bytes /\ Len(s \o r) = Len(s) + Len(r)
           /\ Len(s) \in Nat /\ Len(r) \in Nat
           /\ \A p \in 1..Len(s) : (s \o r)[p] = s[p]
           /\ \A p \in 1..Len(r) : (s \o r)[Len(s) + p] = r[p]
  <1>1. Len(s) \in Nat /\ Len(r) \in Nat
    BY LenProperties DEF Bytes
  <1>2. /\ s \o r \in Bytes /\ Len(s \o r) = Len(s) + Len(r)
        /\ \A p \in 1..(Len(s) + Len(r)) : (s \o r)[p] = IF p <= Len(s) THEN s[p] ELSE r[p - Len(s)]
    BY ConcatProperties DEF Bytes
  <1>3. \A p \in 1..Len(s) : (s \o r)[p] = s[p]
    BY <1>1, <1>2
  <1>4. ASSUME NEW p \in 1..Len(r) PROVE (s \o r)[Len(s) + p] = r[p]
    <2>1. Len(s) + p \in 1..(Len(s) + Len(r)) /\ ~(Len(s) + p <= Len(s)) /\ Len(s) + p - Len(s) = p
      BY <1>1
    <2> QED  BY <1>2, <2>1
  <1> QED  BY <1>1, <1>2, <1>3, <1>4

\* PKCS#7 padding is well formed and comes off again.
LEMMA Pkcs7Undoes ==
    ASSUME NEW s \in Bytes
    PROVE  /\ Pkcs7Pad(s) \in Bytes /\ Len(Pkcs7Pad(s)) = Len(s) + FillLength(Len(s))
           /\ ~Pkcs7Malformed(Pkcs7Pad(s)) /\ Pkcs7Unpad(Pkcs7Pad(s)) = s
  <1> DEFINE f == FillLength(Len(s))
             r == Repeat(f, f)
  <1>1. Len(s) \in Nat /\ f \in 1..B
    BY LenProperties, FillReachesBlock DEF Bytes
  <1> HIDE DEF f
  <1>2. f \in Byte /\ f \in Nat
    BY <1>1, SizeAssumption DEF Byte
  <1>3. r \in Bytes /\ Len(r) = f /\ \A p \in 1..f : r[p] = f
    BY <1>2, RepeatBytes
  <1>4. Pkcs7Pad(s) = s \o r
    BY DEF Pkcs7Pad, f
  <1> HIDE DEF r
  <1>5. /\ s \o r \in Bytes /\ Len(s \o r) = Len(s) + f
        /\ \A p \in 1..f : (s \o r)[Len(s) + p] = f
    <2>1. /\ s \o r \in Bytes /\ Len(s \o r) = Len(s) + Len(r)
          /\ \A p \in 1..Len(r) : (s \o r)[Len(s) + p] = r[p]
      BY <1>3, AppendedBytes
    <2> QED  BY <1>3, <2>1
  <1>6. \A p \in (Len(s) + 1)..(Len(s) + f) : (s \o r)[p] = f
    <2> SUFFICES ASSUME NEW p \in (Len(s) + 1)..(Len(s) + f) PROVE (s \o r)[p] = f
      OBVIOUS
    <2>1. p - Len(s) \in 1..f /\ Len(s) + (p - Len(s)) = p
      BY <1>1
    <2> QED  BY <1>5, <2>1
  <1>7. (s \o r)[Len(s \o r)] = f
    BY <1>1, <1>5, <1>6
  <1>8. Len(s \o r) - f = Len(s)
    BY <1>1, <1>5
  <1>9. ~Pkcs7Malformed(s \o r)
    <2>1. \A p \in (Len(s \o r) - f + 1)..Len(s \o r) : (s \o r)[p] = f
      BY <1>5, <1>6, <1>8
    <2> QED  BY <1>1, <1>7, <2>1 DEF Pkcs7Malformed
  <1>10. Pkcs7Unpad(s \o r) = s
    <2>1. Pkcs7Unpad(s \o r) = Front(s \o r, Len(s))
      BY <1>7, <1>8 DEF Pkcs7Unpad
    <2> QED  BY <1>1, <1>3, <2>1, FrontOfConcat
  <1> QED  BY <1>4, <1>5, <1>9, <1>10 DEF f

\* Zero padding comes off with the zeros the message ended with.
LEMMA ZeroPadUndoes ==
    ASSUME NEW s \in Bytes
    PROVE  /\ ZeroPad(s) \in Bytes /\ Len(ZeroPad(s)) = Len(s) + (FillLength(Len(s)) % B)
           /\ ZeroUnpad(ZeroPad(s)) = ZeroUnpad(s)
  <1> DEFINE f == FillLength(Len(s)) % B
             r == Repeat(0, f)
  <1>1. Len(s) \in Nat /\ f \in Nat
    <2>1. Len(s) \in Nat
      BY LenProperties DEF Bytes
    <2>2. FillLength(Len(s)) \in 1..B
      BY <2>1, FillReachesBlock
    <2> QED  BY <2>1, <2>2, SizeAssumption
  <1> HIDE DEF f
  <1>2. 0 \in Byte
    BY SizeAssumption DEF Byte
  <1>3. r \in Bytes /\ Len(r) = f /\ \A p \in 1..f : r[p] = 0
    BY <1>1, <1>2, RepeatBytes
  <1>4. ZeroPad(s) = s \o r
    BY DEF ZeroPad, f
  <1> HIDE DEF r
  <1>5. /\ s \o r \in Bytes /\ Len(s \o r) = Len(s) + f
        /\ \A p \in 1..Len(s) : (s \o r)[p] = s[p]
        /\ \A p \in 1..f : (s \o r)[Len(s) + p] = 0
    <2>1. /\ s \o r \in Bytes /\ Len(s \o r) = Len(s) + Len(r)
          /\ \A p \in 1..Len(s) : (s \o r)[p] = s[p]
          /\ \A p \in 1..Len(r) : (s \o r)[Len(s) + p] = r[p]
      BY <1>3, AppendedBytes
    <2> QED  BY <1>3, <2>1
  <1>6. NonZero(s \o r) = NonZero(s)
    <2>1. ASSUME NEW p \in 1..(Len(s) + f), p \notin 1..Len(s) PROVE (s \o r)[p] = 0
      <3>1. p - Len(s) \in 1..f /\ Len(s) + (p - Len(s)) = p
        BY <1>1, <2>1
      <3> QED  BY <1>5, <3>1
    <2>2. 1..Len(s) \subseteq 1..(Len(s) + f)
      BY <1>1
    <2> QED  BY <1>5, <2>1, <2>2 DEF NonZero
  <1>7. LastNonZero(s \o r) = LastNonZero(s)
    BY <1>6 DEF LastNonZero
  <1>8. LastNonZero(s) \in 0..Len(s)
    BY LastNonZeroIsLast
  <1>9. ZeroUnpad(s \o r) = ZeroUnpad(s)
    BY <1>3, <1>7, <1>8, FrontOfConcat DEF ZeroUnpad
  <1> QED  BY <1>4, <1>5, <1>9 DEF f

\* ISO/IEC 7816-4 padding is well formed and comes off again.
LEMMA Iso7816Undoes ==
    ASSUME NEW s \in Bytes
    PROVE  /\ Iso7816Pad(s) \in Bytes /\ Len(Iso7816Pad(s)) = Len(s) + FillLength(Len(s))
           /\ ~Iso7816Malformed(Iso7816Pad(s)) /\ Iso7816Unpad(Iso7816Pad(s)) = s
  <1> DEFINE f == FillLength(Len(s))
             z == Repeat(0, f - 1)
             u == <<Mark>>
             r == u \o z
  <1>1. Len(s) \in Nat /\ f \in 1..B /\ f - 1 \in Nat
    <2>1. Len(s) \in Nat
      BY LenProperties DEF Bytes
    <2>2. f \in 1..B
      BY <2>1, FillReachesBlock
    <2> QED  BY <2>1, <2>2, SizeAssumption
  <1> HIDE DEF f
  <1>2. 0 \in Byte /\ Mark \in Byte /\ Mark # 0
    BY SizeAssumption DEF Byte
  <1>3. z \in Bytes /\ Len(z) = f - 1 /\ \A p \in 1..(f - 1) : z[p] = 0
    BY <1>1, <1>2, RepeatBytes
  <1> HIDE DEF z
  <1>4. u \in Bytes /\ Len(u) = 1 /\ u[1] = Mark
    BY <1>2 DEF Bytes
  <1> HIDE DEF u
  <1>5. /\ r \in Bytes /\ Len(r) = f /\ r[1] = Mark
        /\ \A p \in 1..(f - 1) : r[1 + p] = 0
    <2>1. /\ r \in Bytes /\ Len(r) = 1 + (f - 1)
          /\ \A p \in 1..1 : r[p] = u[p]
          /\ \A p \in 1..(f - 1) : r[1 + p] = z[p]
      <3>1. /\ r \in Bytes /\ Len(r) = Len(u) + Len(z)
            /\ \A p \in 1..Len(u) : r[p] = u[p]
            /\ \A p \in 1..Len(z) : r[Len(u) + p] = z[p]
        BY <1>3, <1>4, AppendedBytes
      <3> HIDE DEF r
      <3> QED  BY <1>3, <1>4, <3>1
    <2>2. 1 \in 1..1 /\ 1 + (f - 1) = f
      BY <1>1
    <2> QED  BY <1>3, <1>4, <2>1, <2>2
  <1> HIDE DEF r
  <1>6. /\ s \o r \in Bytes /\ Len(s \o r) = Len(s) + f
        /\ \A p \in 1..f : (s \o r)[Len(s) + p] = r[p]
    BY <1>5, AppendedBytes
  <1>7. (s \o r)[Len(s) + 1] = Mark
    BY <1>1, <1>5, <1>6
  <1>8. ASSUME NEW p \in NonZero(s \o r) PROVE p <= Len(s) + 1
    <2>1. p \in 1..(Len(s) + f) /\ (s \o r)[p] # 0
      BY <1>6 DEF NonZero
    <2>2. SUFFICES ASSUME Len(s) + 1 < p PROVE FALSE
      BY <1>1, <2>1
    <2>3. p - Len(s) \in 1..f /\ Len(s) + (p - Len(s)) = p
      BY <1>1, <2>1, <2>2
    <2>4. (s \o r)[p] = r[p - Len(s)]
      BY <1>6, <2>3
    <2>5. p - Len(s) - 1 \in 1..(f - 1) /\ 1 + (p - Len(s) - 1) = p - Len(s)
      BY <1>1, <2>1, <2>2
    <2>6. r[p - Len(s)] = 0
      BY <1>5, <2>5
    <2> QED  BY <2>1, <2>4, <2>6
  <1>9. LastNonZero(s \o r) = Len(s) + 1
    <2>1. Len(s) + 1 \in NonZero(s \o r)
      BY <1>1, <1>2, <1>6, <1>7 DEF NonZero
    <2> QED  BY <1>6, <1>8, <2>1, LastNonZeroIsLast
  <1>10. ~Iso7816Malformed(s \o r)
    <2>1. ~(Len(s) + 1 < Len(s \o r) - B + 1)
      BY <1>1, <1>6, SizeAssumption
    <2> QED  BY <1>7, <1>9, <2>1 DEF Iso7816Malformed
  <1>11. Iso7816Unpad(s \o r) = s
    <2>1. Len(s) + 1 - 1 = Len(s)
      BY <1>1
    <2> QED  BY <1>1, <1>5, <1>9, <2>1, FrontOfConcat DEF Iso7816Unpad
  <1>12. Iso7816Pad(s) = s \o r
    <2>1. Iso7816Pad(s) = s \o u \o z
      BY DEF Iso7816Pad, f, u, z
    <2>2. (s \o u) \o z = s \o (u \o z)
      BY <1>3, <1>4, ConcatAssociative DEF Bytes
    <2> QED  BY <2>1, <2>2 DEF r
  <1> QED  BY <1>6, <1>10, <1>11, <1>12 DEF f

\* What the input field accepts is padded to something it takes back, which
\* the unpad step takes off again.
LEMMA PaddingUndoes ==
    ASSUME NEW t \in Tasks, NEW s \in Bytes, Accepts(t, "encrypt", s)
    PROVE  /\ Padded(t, s) \in Bytes /\ Len(Padded(t, s)) \in Nat /\ Len(s) <= Len(Padded(t, s))
           /\ t.mode \in StreamModes => Padded(t, s) = s
           /\ t.mode \notin StreamModes => Len(Padded(t, s)) % B = 0
           /\ \A x : Len(x) = Len(Padded(t, s)) => Accepts(t, "decrypt", x)
           /\ ~UnpadThrows(t, Padded(t, s))
           /\ Unpadded(t, Padded(t, s)) = IF Scheme(t) = "zero-pad" THEN ZeroUnpad(s) ELSE s
  <1> DEFINE P == Padded(t, s)
             blocks == IF t.mode = "single-block" THEN 1 ELSE MaxBlocks
             top == blocks * B
             f == FillLength(Len(s))
  <1>1. /\ t.mode \in CipherModes /\ t.scheme \in Schemes
        /\ Len(s) \in Nat /\ blocks \in Nat
        /\ top = IF t.mode = "single-block" THEN B ELSE MaxBlocks * B
    BY LenProperties, SizeAssumption DEF Tasks, Bytes
  <1>2. top \in Nat /\ top % B = 0
    <2> HIDE DEF blocks
    <2>1. top \in Nat
      BY <1>1, SizeAssumption
    <2> QED  BY <1>1, <2>1, MultipleIsAligned
  <1>3. InputLimits(t, "decrypt") = IF t.mode \in StreamModes THEN Limits(1, top) ELSE Limits(B, top)
    BY <1>1 DEF InputLimits
  <1> HIDE DEF blocks
  <1>4. CASE t.mode \in StreamModes
    <2>1. Scheme(t) = "none" /\ P = s
      BY <1>4 DEF Scheme, Padded
    <2>2. InputLimits(t, "encrypt") = Limits(1, top)
      BY <1>1, <1>4 DEF InputLimits
    <2>3. \A x : Len(x) = Len(s) => Accepts(t, "decrypt", x)
      BY <1>1, <1>3, <1>4, <2>2 DEF Accepts, Limits, StreamModes
    <2> QED  BY <1>1, <1>4, <2>1, <2>3 DEF UnpadThrows, Unpadded
  <1>5. ASSUME t.mode \notin StreamModes,
               P \in Bytes, Len(P) \in Nat, Len(P) % B = 0, 0 < Len(P), Len(P) <= top
        PROVE  \A x : Len(x) = Len(P) => Accepts(t, "decrypt", x)
    <2>1. B <= Len(P)
      <3>1. 0 \in Nat /\ 0 * B < Len(P) /\ (0 + 1) * B = B
        BY <1>5, SizeAssumption
      <3> QED  BY <1>5, <3>1, BlocksAreWhole
    <2> QED  BY <1>1, <1>3, <1>5, <2>1 DEF Accepts, Limits
  <1>6. CASE t.mode \notin StreamModes /\ t.scheme = "none"
    <2>1. Scheme(t) = "none" /\ P = s
      BY <1>6 DEF Scheme, Padded
    <2>2. InputLimits(t, "encrypt") = Limits(B, top)
      BY <1>1, <1>6 DEF InputLimits
    <2>3. B <= Len(s) /\ Len(s) <= top /\ (t.mode \in {"ecb", "cbc"} => Len(s) % B = 0)
      BY <1>6, <2>2 DEF Accepts, Limits
    <2>4. Len(s) % B = 0
      <3>1. CASE t.mode = "single-block"
        BY <1>1, <1>2, <2>3, <3>1, SizeAssumption
      <3> QED  BY <1>1, <1>6, <2>3, <3>1 DEF CipherModes, StreamModes
    <2>5. 0 < Len(s)
      BY <1>1, <2>3, SizeAssumption
    <2> QED  BY <1>1, <1>5, <1>6, <2>1, <2>3, <2>4, <2>5 DEF UnpadThrows, Unpadded
  <1>7. f \in 1..B /\ (Len(s) + f) % B = 0 /\ (Len(s) < top => Len(s) + f <= top)
    BY <1>1, FillReachesBlock
  <1>8. CASE t.mode \notin StreamModes /\ t.scheme \in {"pkcs7", "iso7816-4"}
    <2>1. Scheme(t) = t.scheme
      BY <1>8 DEF Scheme
    <2>2. InputLimits(t, "encrypt") = Limits(0, top - 1)
      BY <1>1, <1>8 DEF InputLimits
    <2>3. Len(s) < top
      BY <1>1, <1>2, <2>2 DEF Accepts, Limits
    <2> HIDE DEF f, top
    <2>4. P = IF t.scheme = "pkcs7" THEN Pkcs7Pad(s) ELSE Iso7816Pad(s)
      BY <1>8, <2>1 DEF Padded
    <2>5. P \in Bytes /\ Len(P) = Len(s) + f
      BY <2>4, Pkcs7Undoes, Iso7816Undoes DEF f
    <2>6. Len(P) \in Nat /\ Len(P) % B = 0 /\ 0 < Len(P) /\ Len(P) <= top /\ Len(s) <= Len(P)
      BY <1>1, <1>7, <2>3, <2>5, SizeAssumption
    <2>7. Whole(P)
      BY <2>6 DEF Whole
    <2>8. ~UnpadThrows(t, P) /\ Unpadded(t, P) = s
      <3>1. CASE t.scheme = "pkcs7"
        BY <2>1, <2>4, <2>7, <3>1, Pkcs7Undoes DEF UnpadThrows, Unpadded
      <3>2. CASE t.scheme = "iso7816-4"
        BY <2>1, <2>4, <2>7, <3>2, Iso7816Undoes DEF UnpadThrows, Unpadded
      <3> QED  BY <1>8, <3>1, <3>2
    <2> HIDE DEF P
    <2>9. \A x : Len(x) = Len(P) => Accepts(t, "decrypt", x)
      BY <1>5, <1>8, <2>5, <2>6
    <2> QED  BY <1>8, <2>1, <2>5, <2>6, <2>8, <2>9 DEF P
  <1>9. CASE t.mode \notin StreamModes /\ t.scheme = "zero-pad"
    <2>1. Scheme(t) = "zero-pad" /\ P = ZeroPad(s)
      BY <1>9 DEF Scheme, Padded
    <2>2. InputLimits(t, "encrypt") = Limits(1, top)
      BY <1>1, <1>9 DEF InputLimits
    <2>3. 0 < Len(s) /\ Len(s) <= top
      BY <1>1, <1>2, <2>2 DEF Accepts, Limits
    <2>4. P \in Bytes /\ Len(P) = Len(s) + (f % B) /\ ZeroUnpad(P) = ZeroUnpad(s)
      BY <2>1, ZeroPadUndoes
    <2>5. f % B = IF Len(s) % B = 0 THEN 0 ELSE f
      BY <1>1, FillReachesBlock
    <2> HIDE DEF f, top, P
    <2>6. Len(P) \in Nat /\ Len(P) % B = 0 /\ 0 < Len(P) /\ Len(P) <= top /\ Len(s) <= Len(P)
      <3>1. CASE Len(s) % B = 0
        BY <1>1, <2>3, <2>4, <2>5, <3>1
      <3>2. CASE Len(s) % B # 0
        <4>1. Len(s) < top
          BY <1>1, <1>2, <2>3, <3>2
        <4> QED  BY <1>1, <1>7, <2>4, <2>5, <3>2, <4>1, SizeAssumption
      <3> QED  BY <3>1, <3>2
    <2>7. Whole(P)
      BY <2>6 DEF Whole
    <2>8. ~UnpadThrows(t, P) /\ Unpadded(t, P) = ZeroUnpad(s)
      BY <2>1, <2>4, <2>7 DEF UnpadThrows, Unpadded
    <2>9. \A x : Len(x) = Len(P) => Accepts(t, "decrypt", x)
      BY <1>5, <1>9, <2>4, <2>6 DEF P
    <2> QED  BY <1>9, <2>1, <2>4, <2>6, <2>8, <2>9 DEF P
  <1> QED  BY <1>1, <1>4, <1>6, <1>8, <1>9 DEF Schemes

-----------------------------------------------------------------------------
(***************************************************************************)
(* The inductive invariant.                                                *)
(***************************************************************************)

\* The padded plaintext, what is left of it after n blocks, and the turn of
\* the encrypting loop that consumed block j.
P == Padded(task, task.plain)
Consumed(n) == IF n * B <= Len(P) THEN n * B ELSE Len(P)
Turn(j) == Body(task.mode, "encrypt", BlockAt(P, j), forth[j + 1])

\* The first n blocks of c are those the encrypting loop made.
Linked(c, n) == \A j \in 0..(n - 1) : BlockAt(c, j) = Turn(j).out

\* The carried values start at the IV and each is what the turn before it
\* carried on.
Chained ==
    /\ Len(forth) > 0 => forth[1] = task.iv
    /\ \A j \in 1..(Len(forth) - 1) : (j * B <= Len(P)) /\ forth[j + 1] = Turn(j - 1).carry

Encrypting ==
    /\ text = task.plain /\ pc \in {"start", "loop"}
    /\ pc = "start" => forth = <<>>
    /\ pc = "loop" =>
         /\ source = P /\ k = Len(forth) /\ Len(out) = Consumed(k) /\ Linked(out, k)
         /\ k * B <= Len(P) =>
              chain \in Block /\ chain = IF k = 0 THEN task.iv ELSE Turn(k - 1).carry

Decrypting ==
    /\ pc \in {"start", "loop", "done"}
    /\ Len(text) = Len(P) /\ Linked(text, Len(forth)) /\ Len(P) <= Len(forth) * B
    /\ pc = "loop" =>
         /\ source = text /\ k <= Len(forth) /\ out = Front(P, Consumed(k))
         /\ k < Len(forth) => chain = forth[k + 1]
    /\ pc = "done" => out = Recovered

IInv ==
    /\ TypeOK /\ Accepts(task, "encrypt", task.plain) /\ Chained
    /\ dir = "encrypt" => Encrypting
    /\ dir = "decrypt" => Decrypting

\* What the lemmas say of the plaintext of a run.
LEMMA PlaintextFits ==
    ASSUME TypeOK, Accepts(task, "encrypt", task.plain)
    PROVE  /\ task.mode \in CipherModes /\ task.iv \in Block /\ task.plain \in Bytes
           /\ P \in Bytes /\ Len(P) \in Nat /\ Len(task.plain) <= Len(P)
           /\ task.mode \in StreamModes => P = task.plain
           /\ task.mode \notin StreamModes => Len(P) % B = 0
           /\ \A x : Len(x) = Len(P) => Accepts(task, "decrypt", x)
           /\ ~UnpadThrows(task, P) /\ Unpadded(task, P) = Recovered
           /\ forth \in Seq(Block) /\ Len(forth) \in Nat
           /\ \A j \in 1..Len(forth) : forth[j] \in Block
  <1>1. /\ task \in Tasks /\ task.mode \in CipherModes
        /\ task.iv \in Block /\ task.plain \in Bytes
    BY InputAssumption DEF TypeOK, Tasks, Bytes
  <1>2. /\ forth \in Seq(Block) /\ Len(forth) \in Nat
        /\ \A j \in 1..Len(forth) : forth[j] \in Block
    BY LenProperties, ElementOfSeq DEF TypeOK
  <1> QED  BY <1>1, <1>2, PaddingUndoes DEF P, Recovered

\* A block the loop takes from the padded plaintext is a piece its mode takes.
LEMMA BlockIsPiece ==
    ASSUME TypeOK, Accepts(task, "encrypt", task.plain), NEW i \in Nat, i * B < Len(P)
    PROVE  /\ Piece(task.mode, BlockAt(P, i))
           /\ Len(BlockAt(P, i)) = IF (i + 1) * B <= Len(P) THEN B ELSE Len(P) - i * B
           /\ Consumed(i) = i * B
           /\ Consumed(i + 1) = i * B + Len(BlockAt(P, i))
  <1>1. P \in Bytes /\ Len(P) \in Nat /\ (task.mode \notin StreamModes => Len(P) % B = 0)
    BY PlaintextFits
  <1>2. i * B \in Nat /\ (i + 1) * B = i * B + B
    BY TimesMonotone, SizeAssumption
  <1>3. /\ BlockAt(P, i) \in Bytes /\ Len(BlockAt(P, i)) \in 1..B
        /\ Len(BlockAt(P, i)) = IF (i + 1) * B <= Len(P) THEN B ELSE Len(P) - i * B
    BY <1>1, BlockAtBytes
  <1>4. task.mode \notin StreamModes => Len(BlockAt(P, i)) = B
    BY <1>1, <1>3, BlocksAreWhole
  <1>5. Consumed(i) = i * B
    BY <1>1, <1>2 DEF Consumed
  <1>6. Consumed(i + 1) = i * B + Len(BlockAt(P, i))
    <2> DEFINE x == i * B
               y == (i + 1) * B
               l == Len(BlockAt(P, i))
    <2>1. /\ Consumed(i + 1) = IF y <= Len(P) THEN y ELSE Len(P)
          /\ x \in Nat /\ y = x + B /\ l = IF y <= Len(P) THEN B ELSE Len(P) - x
      BY <1>2, <1>3 DEF Consumed
    <2> HIDE DEF x, y, l
    <2>2. Consumed(i + 1) = x + l
      BY <1>1, <2>1, SizeAssumption
    <2> QED  BY <2>2 DEF x, l
  <1> QED  BY <1>3, <1>4, <1>5, <1>6 DEF Piece

\* The invariant holds at first.
LEMMA InitIInv == Init => IInv
  <1> SUFFICES ASSUME Init PROVE IInv
    OBVIOUS
  <1>1. task \in Tasks /\ Accepts(task, "encrypt", task.plain)
    BY DEF Init
  <1>2. task.iv \in Bytes /\ task.plain \in Bytes
    BY <1>1, InputAssumption, BlockIsBytes DEF Tasks, Bytes
  <1>3. TypeOK
    BY <1>1, <1>2 DEF Init, TypeOK, Bytes
  <1>4. Chained
    BY DEF Init, Chained
  <1>5. Encrypting
    BY DEF Init, Encrypting
  <1> QED  BY <1>1, <1>3, <1>4, <1>5 DEF IInv, Init

\* Starting a run keeps the invariant.
LEMMA StartStep == IInv /\ Start => IInv'
  <1> SUFFICES ASSUME IInv, Start PROVE IInv'
    OBVIOUS
  <1>1. TypeOK /\ Accepts(task, "encrypt", task.plain) /\ Chained
    BY DEF IInv
  <1>2. /\ P \in Bytes /\ Len(P) \in Nat /\ task.iv \in Block
        /\ task.mode \notin StreamModes => Len(P) % B = 0
        /\ \A x : Len(x) = Len(P) => Accepts(task, "decrypt", x)
        /\ Len(forth) \in Nat
    BY <1>1, PlaintextFits
  <1>3. /\ UNCHANGED <<task, dir, text, forth>>
        /\ k' = 0 /\ chain' = task.iv /\ out' = <<>>
        /\ P' = P /\ \A n : Consumed(n)' = Consumed(n)
        /\ Chained' = Chained /\ \A c, n : Linked(c, n)' = Linked(c, n)
    BY DEF Start, P, Consumed, Chained, Linked, Turn
  <1>4. Consumed(0) = 0 /\ 0 * B = 0
    BY <1>2, SizeAssumption DEF Consumed
  <1>5. chain' \in Bytes
    BY <1>2, <1>3, BlockIsBytes
  <1>6. CASE dir = "encrypt"
    <2>1. text = task.plain /\ forth = <<>>
      BY <1>6 DEF IInv, Encrypting, Start
    <2>2. source' = P
      BY <1>6, <2>1 DEF Start, P
    <2>3. pc' = "loop"
      BY <1>1, <1>2, <1>6, <2>1, <2>2 DEF Start
    <2>4. TypeOK'
      BY <1>1, <1>2, <1>3, <1>5, <2>2, <2>3 DEF TypeOK, Bytes
    <2>5. Linked(<<>>, 0)
      BY DEF Linked
    <2>6. Encrypting'
      BY <1>2, <1>3, <1>4, <2>1, <2>2, <2>3, <2>5 DEF Encrypting
    <2> QED  BY <1>1, <1>3, <1>6, <2>4, <2>6 DEF IInv
  <1>7. CASE dir = "decrypt"
    <2>1. /\ Len(text) = Len(P) /\ Linked(text, Len(forth)) /\ Len(P) <= Len(forth) * B
          /\ text \in Bytes
      BY <1>1, <1>7 DEF IInv, Decrypting, TypeOK, Bytes
    <2>2. source' = text
      BY <1>7 DEF Start
    <2>3. pc' = "loop"
      BY <1>2, <1>7, <2>1, <2>2 DEF Start
    <2>4. TypeOK'
      BY <1>1, <1>3, <1>5, <2>1, <2>2, <2>3 DEF TypeOK, Bytes
    <2>5. Front(P, 0) = <<>>
      BY DEF Front
    <2>6. Decrypting'
      BY <1>1, <1>2, <1>3, <1>4, <2>1, <2>2, <2>3, <2>5 DEF Decrypting, Chained
    <2> QED  BY <1>1, <1>3, <1>7, <2>4, <2>6 DEF IInv
  <1> QED  BY <1>1, <1>6, <1>7 DEF TypeOK

\* A turn of the encrypting loop keeps the invariant.
LEMMA EncryptStep == IInv /\ Iterate /\ dir = "encrypt" => IInv'
  <1> SUFFICES ASSUME IInv, Iterate, dir = "encrypt" PROVE IInv'
    OBVIOUS
  <1> DEFINE in == BlockAt(P, k)
             r == Body(task.mode, "encrypt", in, chain)
  <1>1. /\ TypeOK /\ Accepts(task, "encrypt", task.plain) /\ Chained
        /\ pc = "loop" /\ source = P /\ k = Len(forth) /\ Len(out) = Consumed(k) /\ Linked(out, k)
        /\ k * B < Len(P) /\ k \in Nat
    BY DEF IInv, Iterate, Encrypting, TypeOK
  <1>2. /\ P \in Bytes /\ Len(P) \in Nat /\ task.mode \in CipherModes
        /\ forth \in Seq(Block) /\ k * B \in Nat
    BY <1>1, PlaintextFits, TimesMonotone
  <1>3. chain \in Block /\ chain = IF k = 0 THEN task.iv ELSE Turn(k - 1).carry
    BY <1>1, <1>2 DEF IInv, Encrypting
  <1>0. PICK n \in Nat : n = k
    BY <1>1
  <1>4. /\ Piece(task.mode, in) /\ Consumed(k) = k * B /\ Consumed(k + 1) = k * B + Len(in)
        /\ (k + 1) * B <= Len(P) => Len(in) = B
        /\ in \in Bytes /\ Len(in) \in 1..B
    BY <1>1, BlockIsPiece DEF Piece
  <1>5. /\ r.out \in Bytes /\ Len(r.out) = Len(in) /\ r.carry \in Bytes
        /\ Len(in) = B => r.carry \in Block
    BY <1>2, <1>3, <1>4, BodyUndoes
  <1>6. /\ out' = out \o r.out /\ chain' = r.carry /\ k' = k + 1 /\ forth' = Append(forth, chain)
        /\ UNCHANGED <<task, dir, text, pc, source>> /\ P' = P
        /\ \A i : Consumed(i)' = Consumed(i)
    BY <1>1 DEF Iterate, P, Consumed
  <1> HIDE DEF r, in
  <1>7. /\ forth' \in Seq(Block) /\ Len(forth') = k + 1 /\ forth'[k + 1] = chain
        /\ \A j \in 1..k : forth'[j] = forth[j]
    BY <1>1, <1>2, <1>3, <1>6, AppendProperties
  <1>8. out \in Bytes /\ Len(out) = k * B
    BY <1>1, <1>4 DEF TypeOK, Bytes
  <1>9. out' \in Bytes /\ Len(out') = k * B + Len(in)
    BY <1>5, <1>6, <1>8, ConcatProperties DEF Bytes
  <1>10. \A j \in 0..(k - 1) : Turn(j)' = Turn(j)
    <2> SUFFICES ASSUME NEW j \in 0..(k - 1) PROVE Turn(j)' = Turn(j)
      OBVIOUS
    <2>1. forth'[j + 1] = forth[j + 1]
      BY <1>1, <1>7
    <2> QED  BY <1>6, <2>1 DEF Turn
  <1>11. Turn(n)' = r
    <2>1. forth'[n + 1] = chain
      BY <1>0, <1>7
    <2> QED  BY <1>0, <1>6, <2>1 DEF Turn, r, in
  <1>12. Linked(out, n + 1)'
    <2>0. n + 1 - 1 = k
      BY <1>0, <1>1
    <2> SUFFICES ASSUME NEW j \in 0..k PROVE BlockAt(out', j) = Turn(j)'.out
      BY <2>0 DEF Linked
    <2>1. CASE j < k
      <3>1. (j + 1) * B <= Len(out)
        BY <1>1, <1>8, <2>1, TimesMonotone
      <3>2. BlockAt(out', j) = BlockAt(out, j)
        BY <1>5, <1>6, <1>8, <3>1, BlockAtConcat
      <3>3. j \in 0..(k - 1) /\ BlockAt(out, j) = Turn(j).out
        BY <1>1, <2>1 DEF Linked
      <3> QED  BY <1>10, <3>2, <3>3
    <2>2. CASE j = k
      <3>1. BlockAt(out', k) = r.out
        BY <1>1, <1>4, <1>5, <1>6, <1>8, BlockAtConcat
      <3>2. j = n
        BY <1>0, <2>2
      <3> QED  BY <1>11, <2>2, <3>1, <3>2
    <2> QED  BY <1>1, <2>1, <2>2
  <1>13. Chained'
    <2>1. forth'[1] = task.iv
      <3>1. CASE k = 0
        BY <1>3, <1>7, <3>1
      <3>2. CASE k # 0
        BY <1>1, <1>7, <3>2 DEF Chained
      <3> QED  BY <3>1, <3>2
    <2>2. ASSUME NEW j \in 1..k PROVE j * B <= Len(P) /\ forth'[j + 1] = Turn(j - 1)'.carry
      <3>1. Turn(j - 1)' = Turn(j - 1)
        <4>1. j - 1 \in 0..(k - 1)
          BY <1>1
        <4> QED  BY <1>10, <4>1
      <3>2. CASE j = k
        BY <1>1, <1>2, <1>3, <1>7, <3>1, <3>2
      <3>3. CASE j < k
        <4>1. j \in 1..(Len(forth) - 1) /\ j + 1 \in 1..k
          BY <1>1, <3>3
        <4>2. j * B <= Len(P) /\ forth[j + 1] = Turn(j - 1).carry
          BY <1>1, <4>1 DEF Chained
        <4> QED  BY <1>7, <3>1, <4>1, <4>2
      <3> QED  BY <1>1, <3>2, <3>3
    <2> QED  BY <1>1, <1>6, <1>7, <2>1, <2>2 DEF Chained
  <1>14. Encrypting'
    <2>1. (k + 1) * B <= Len(P) => chain' \in Block /\ chain' = Turn(n)'.carry
      BY <1>4, <1>5, <1>6, <1>11
    <2>2. text' = task'.plain /\ pc' = "loop" /\ source' = P'
      BY <1>1, <1>6 DEF IInv, Encrypting
    <2>3. k' = n + 1 /\ k' = Len(forth') /\ Len(out') = Consumed(n + 1)' /\ Linked(out, n + 1)'
      <3>1. k' = n + 1
        BY <1>0, <1>6
      <3>2. Len(out') = Consumed(k + 1) /\ Consumed(n + 1)' = Consumed(n + 1)
        BY <1>4, <1>6, <1>9
      <3> QED  BY <1>0, <1>6, <1>7, <1>12, <3>1, <3>2
    <2>4. k' # 0 /\ k' - 1 = n
      BY <1>0, <1>1, <1>6
    <2>5. k' * B <= Len(P') => chain' \in Block /\ chain' = Turn(n)'.carry
      BY <1>0, <1>6, <2>1
    <2> QED  BY <2>2, <2>3, <2>4, <2>5 DEF Encrypting
  <1>15. TypeOK'
    BY <1>1, <1>5, <1>6, <1>7, <1>9 DEF TypeOK, Bytes
  <1> QED  BY <1>1, <1>6, <1>13, <1>14, <1>15 DEF IInv

\* A turn of the decrypting loop keeps the invariant.
LEMMA DecryptStep == IInv /\ Iterate /\ dir = "decrypt" => IInv'
  <1> SUFFICES ASSUME IInv, Iterate, dir = "decrypt" PROVE IInv'
    OBVIOUS
  <1> DEFINE in == BlockAt(P, k)
             r == Body(task.mode, "encrypt", in, chain)
             d == Body(task.mode, "decrypt", BlockAt(text, k), chain)
  <1>1. /\ TypeOK /\ Accepts(task, "encrypt", task.plain) /\ Chained
        /\ pc = "loop" /\ source = text /\ k <= Len(forth) /\ out = Front(P, Consumed(k))
        /\ k < Len(forth) => chain = forth[k + 1]
        /\ Len(text) = Len(P) /\ Linked(text, Len(forth)) /\ Len(P) <= Len(forth) * B
        /\ k * B < Len(P) /\ k \in Nat
    BY DEF IInv, Iterate, Decrypting, TypeOK
  <1>2. /\ P \in Bytes /\ Len(P) \in Nat /\ task.mode \in CipherModes
        /\ Len(forth) \in Nat /\ \A j \in 1..Len(forth) : forth[j] \in Block
        /\ k * B \in Nat
    BY <1>1, PlaintextFits, TimesMonotone
  <1>3. k < Len(forth)
    <2>1. SUFFICES ASSUME Len(forth) <= k PROVE FALSE
      BY <1>1, <1>2
    <2>2. Len(forth) * B <= k * B /\ Len(forth) * B \in Nat
      BY <1>1, <1>2, <2>1, TimesMonotone
    <2> QED  BY <1>1, <1>2, <2>2
  <1>4. chain \in Block /\ chain = forth[k + 1]
    BY <1>1, <1>2, <1>3
  <1>5. /\ Piece(task.mode, in) /\ Consumed(k) = k * B /\ Consumed(k + 1) = k * B + Len(in)
        /\ (k + 1) * B <= Len(P) => Len(in) = B
    BY <1>1, BlockIsPiece
  <1>6. Turn(k) = r
    BY <1>4 DEF Turn
  <1>7. BlockAt(text, k) = r.out
    BY <1>1, <1>2, <1>3, <1>6 DEF Linked
  <1>8. d.out = in /\ d.carry \in Bytes /\ (Len(in) = B => d.carry = r.carry)
    BY <1>2, <1>4, <1>5, <1>7, BodyUndoes
  <1>9. /\ out' = out \o d.out /\ chain' = d.carry /\ k' = k + 1
        /\ UNCHANGED <<task, dir, text, pc, source, forth>> /\ P' = P
        /\ \A n : Consumed(n)' = Consumed(n)
        /\ Chained' = Chained /\ Linked(text, Len(forth))' = Linked(text, Len(forth))
    BY <1>1 DEF Iterate, P, Consumed, Chained, Linked, Turn
  <1>10. out' = Front(P, Consumed(k + 1))
    <2>1. out' = Front(P, k * B) \o in
      BY <1>1, <1>5, <1>8, <1>9
    <2>2. Consumed(k + 1) = IF (k + 1) * B <= Len(P) THEN (k + 1) * B ELSE Len(P)
      BY DEF Consumed
    <2> QED  BY <1>1, <1>2, <2>1, <2>2, FrontGrows
  <1>11. ASSUME k + 1 < Len(forth) PROVE chain' = forth[k + 2]
    <2>1. k + 1 \in 1..(Len(forth) - 1) /\ (k + 1) - 1 = k /\ (k + 1) + 1 = k + 2
      BY <1>1, <1>2, <1>11
    <2>2. (k + 1) * B <= Len(P) /\ forth[k + 2] = Turn(k).carry
      BY <1>1, <2>1 DEF Chained
    <2> QED  BY <1>5, <1>6, <1>8, <1>9, <2>2
  <1> HIDE DEF in, r, d
  <1>12. Decrypting'
    <2>1. k + 1 <= Len(forth) /\ (k + 1) + 1 = k + 2
      BY <1>1, <1>2, <1>3
    <2> QED  BY <1>1, <1>9, <1>10, <1>11, <2>1 DEF Decrypting
  <1>13. TypeOK'
    <2>1. out' \in Bytes
      <3>1. out \in Bytes /\ in \in Bytes
        BY <1>1, <1>5 DEF TypeOK, Bytes, Piece
      <3> QED  BY <1>8, <1>9, <3>1, ConcatProperties DEF Bytes
    <2> QED  BY <1>1, <1>8, <1>9, <2>1 DEF TypeOK, Bytes
  <1> QED  BY <1>1, <1>9, <1>12, <1>13 DEF IInv

\* Turning the direction round keeps the invariant: the loop is over, so its
\* output is as long as what it consumed.
LEMMA FlipStep == IInv /\ Flip => IInv'
  <1> SUFFICES ASSUME IInv, Flip PROVE IInv'
    OBVIOUS
  <1>1. /\ TypeOK /\ Accepts(task, "encrypt", task.plain) /\ Chained
        /\ source = P /\ k = Len(forth) /\ Len(out) = Consumed(k) /\ Linked(out, k)
        /\ Len(P) <= k * B /\ k \in Nat
    BY DEF IInv, Flip, Encrypting, TypeOK
  <1>2. Len(P) \in Nat /\ Len(forth) \in Nat /\ k * B \in Nat
    BY <1>1, PlaintextFits, TimesMonotone
  <1>3. /\ text' = out /\ dir' = "decrypt" /\ pc' = "start"
        /\ UNCHANGED <<task, source, k, chain, out, forth>> /\ P' = P /\ Chained' = Chained
        /\ Linked(out, Len(forth))' = Linked(out, Len(forth))
    BY DEF Flip, P, Chained, Linked, Turn
  <1>4. Len(out) = Len(P)
    BY <1>1, <1>2 DEF Consumed
  <1>5. Decrypting'
    <2>1. Linked(text, Len(forth))' = Linked(out, Len(forth))'
      BY <1>3 DEF Linked
    <2> QED  BY <1>1, <1>3, <1>4, <2>1 DEF Decrypting
  <1>6. TypeOK'
    BY <1>1, <1>3 DEF TypeOK
  <1> QED  BY <1>1, <1>3, <1>5, <1>6 DEF IInv

\* The unpad step of the second run keeps the invariant: its input is the
\* padded plaintext.
LEMMA FinishStep == IInv /\ Finish => IInv'
  <1> SUFFICES ASSUME IInv, Finish PROVE IInv'
    OBVIOUS
  <1>1. /\ TypeOK /\ Accepts(task, "encrypt", task.plain) /\ Chained
        /\ dir = "decrypt" /\ source = text /\ out = Front(P, Consumed(k))
        /\ Len(text) = Len(P) /\ Linked(text, Len(forth)) /\ Len(P) <= Len(forth) * B
        /\ Len(P) <= k * B /\ k \in Nat
    BY DEF IInv, Finish, Decrypting, TypeOK
  <1>2. /\ P \in Bytes /\ Len(P) \in Nat /\ task.plain \in Bytes
        /\ ~UnpadThrows(task, P) /\ Unpadded(task, P) = Recovered
    BY <1>1, PlaintextFits
  <1>3. out = P
    <2>1. k * B \in Nat
      BY <1>1, TimesMonotone
    <2>2. Consumed(k) = Len(P)
      BY <1>1, <1>2, <2>1 DEF Consumed
    <2> QED  BY <1>1, <1>2, <2>2, FrontOfConcat
  <1>4. /\ pc' = "done" /\ out' = Recovered
        /\ UNCHANGED <<task, dir, text, source, k, chain, forth>>
        /\ P' = P /\ Chained' = Chained /\ Recovered' = Recovered
        /\ Linked(text, Len(forth))' = Linked(text, Len(forth))
    BY <1>2, <1>3 DEF Finish, P, Chained, Linked, Turn, Recovered
  <1>5. Recovered \in Bytes
    <2>1. ZeroUnpad(task.plain) \in Bytes
      <3>1. LastNonZero(task.plain) \in 0..Len(task.plain) /\ Len(task.plain) \in Nat
        BY <1>2, LastNonZeroIsLast, LenProperties DEF Bytes
      <3>2. \A p \in 1..LastNonZero(task.plain) : task.plain[p] \in Byte
        BY <1>2, <3>1, ElementOfSeq DEF Bytes
      <3> QED  BY <3>1, <3>2, SubSeqProperties DEF ZeroUnpad, Front, Bytes
    <2> QED  BY <1>2, <2>1 DEF Recovered
  <1>6. Decrypting'
    BY <1>1, <1>4 DEF Decrypting
  <1>7. TypeOK'
    BY <1>1, <1>4, <1>5 DEF TypeOK, Bytes
  <1> QED  BY <1>1, <1>4, <1>6, <1>7 DEF IInv

\* Every step keeps the invariant.
LEMMA NextIInv == IInv /\ [Next]_vars => IInv'
  <1> SUFFICES ASSUME IInv, [Next]_vars PROVE IInv'
    OBVIOUS
  <1>1. CASE Start
    BY <1>1, StartStep
  <1>2. CASE Iterate
    <2>1. dir \in {"encrypt", "decrypt"}
      BY DEF IInv, TypeOK
    <2> QED  BY <1>2, <2>1, EncryptStep, DecryptStep
  <1>3. CASE Flip
    BY <1>3, FlipStep
  <1>4. CASE Finish
    BY <1>4, FinishStep
  <1>5. CASE UNCHANGED vars
    BY <1>5 DEF vars, IInv, TypeOK, Chained, Encrypting, Decrypting, Linked, Turn, Consumed, P, Recovered
  <1> QED  BY <1>1, <1>2, <1>3, <1>4, <1>5 DEF Next

\* The invariant holds throughout.
LEMMA AlwaysIInv == Spec => []IInv
  BY InitIInv, NextIInv, PTL DEF Spec

-----------------------------------------------------------------------------
(***************************************************************************)
(* Counters.  Increment runs through all the blocks before one returns: it  *)
(* turns them like the wheels of an odometer.                              *)
(***************************************************************************)

\* A set of integers that has a and the next of each of its members below b
\* has everything from a to b.
LEMMA Climb ==
    ASSUME NEW a \in Int, NEW b \in Int, NEW T, a \in T,
           \A q \in a..b : q \in T /\ q < b => q + 1 \in T
    PROVE  a..b \subseteq T
  <1> SUFFICES ASSUME NEW z \in a..b PROVE z \in T
    OBVIOUS
  <1> DEFINE n == (b - a) + 1
             D1 == {d \in 1..n : \A e \in 1..d : (a + e) - 1 \in T}
  <1>1. n \in Nat /\ D1 \subseteq 1..n /\ 1 \in D1
    OBVIOUS
  <1>2. PICK d \in D1 : \A q \in D1 : q <= d
    <2> HIDE DEF n, D1
    <2>1. D1 # {}
      BY <1>1
    <2> QED  BY <1>1, <2>1, LargestBelow
  <1>3. d = n
    <2>1. SUFFICES ASSUME d < n PROVE FALSE
      BY <1>1, <1>2
    <2>2. d \in 1..n /\ \A e \in 1..d : (a + e) - 1 \in T
      BY <1>2
    <2>3. (a + d) - 1 \in T
      BY <2>2
    <2>4. (a + d) - 1 \in a..b /\ (a + d) - 1 < b
      BY <2>1, <2>2
    <2>5. ((a + d) - 1) + 1 \in T
      BY <2>3, <2>4
    <2>6. \A e \in 1..(d + 1) : (a + e) - 1 \in T
      <3> SUFFICES ASSUME NEW e \in 1..(d + 1) PROVE (a + e) - 1 \in T
        OBVIOUS
      <3>1. CASE e <= d
        BY <3>1, <2>2
      <3>2. CASE e = d + 1
        <4>1. (a + e) - 1 = ((a + d) - 1) + 1
          BY <3>2, <2>2
        <4> QED  BY <4>1, <2>5
      <3> QED  BY <3>1, <3>2, <2>2
    <2>7. d + 1 \in D1
      BY <2>1, <2>2, <2>6
    <2> HIDE DEF n, D1
    <2>8. d + 1 <= d
      BY <1>2, <2>7
    <2> QED  BY <1>1, <2>8
  <1>4. (z - a) + 1 \in 1..n /\ (a + ((z - a) + 1)) - 1 = z
    OBVIOUS
  <1>5. \A e \in 1..n : (a + e) - 1 \in T
    BY <1>2, <1>3
  <1> QED  BY <1>4, <1>5

\* Block c as far as position p, v at p, and w behind it.
Wheel(c, p, v, w) == [q \in 1..B |-> IF q < p THEN c[q] ELSE IF q = p THEN v ELSE w]

\* Behind p there are only zeros.
Rest(c, p) == \A q \in (p + 1)..B : c[q] = 0

\* The blocks that agree with a member of S up to p, when that member has only
\* zeros behind p, are members of S.
Filled(S, p) ==
    \A c \in S : Rest(c, p) => \A d \in Block : (\A q \in 1..p : d[q] = c[q]) => d \in S

\* A wheel is a block of bytes.
LEMMA WheelIsBlock ==
    ASSUME NEW c \in Block, NEW p \in 1..B, NEW v \in Byte, NEW w \in Byte
    PROVE  /\ Wheel(c, p, v, w) \in Block
           /\ \A q \in 1..B : Wheel(c, p, v, w)[q] = IF q < p THEN c[q] ELSE IF q = p THEN v ELSE w
  BY DEF Wheel, Block

\* When everything behind p is at its last value, p turns by one and what is
\* behind it starts again.
LEMMA WheelTurns ==
    ASSUME NEW c \in Block, NEW p \in 1..B, NEW v \in Byte
    PROVE  Increment(Wheel(c, p, v, W - 1)) =
               IF v < W - 1 THEN Wheel(c, p, v + 1, 0) ELSE Increment(Wheel(c, p, W - 1, W - 1))
  <1>1. v <= W - 1 /\ v \in Nat /\ W - 1 \in Byte /\ 0 \in Byte
    BY SizeAssumption DEF Byte
  <1>2. CASE v = W - 1
    BY <1>2, SizeAssumption
  <1>3. ASSUME v < W - 1 PROVE Increment(Wheel(c, p, v, W - 1)) = Wheel(c, p, v + 1, 0)
    <2>1. PICK d : d = Wheel(c, p, v, W - 1)
      OBVIOUS
    <2>2. \A q \in 1..B : d[q] = IF q < p THEN c[q] ELSE IF q = p THEN v ELSE W - 1
      BY <2>1 DEF Wheel
    <2>3. v + 1 \in Byte /\ (v + 1) % W = v + 1 /\ ((W - 1) + 1) % W = 0
      BY <1>1, <1>3, SizeAssumption DEF Byte
    <2>4. ASSUME NEW q \in 1..B
          PROVE  (IF \A r \in (q + 1)..B : d[r] = W - 1 THEN (d[q] + 1) % W ELSE d[q])
                    = IF q < p THEN c[q] ELSE IF q = p THEN v + 1 ELSE 0
      <3>1. CASE q < p
        <4>1. p \in (q + 1)..B /\ d[p] # W - 1 /\ d[q] = c[q]
          BY <1>1, <1>3, <2>2, <3>1
        <4> QED  BY <3>1, <4>1
      <3>2. CASE q >= p
        <4>1. \A r \in (q + 1)..B : d[r] = W - 1
          BY <2>2, <3>2
        <4>2. CASE q = p
          BY <4>1, <4>2, <2>2, <2>3
        <4>3. CASE q > p
          BY <4>1, <4>3, <2>2, <2>3
        <4> QED  BY <3>2, <4>2, <4>3
      <3> QED  BY <3>1, <3>2
    <2> QED  BY <2>1, <2>4 DEF Increment, Wheel
  <1> QED  BY <1>1, <1>2, <1>3, SizeAssumption

\* After the last value of p everything from p on starts again.
LEMMA WheelWraps ==
    ASSUME NEW c \in Block, NEW p \in 1..B
    PROVE  Rest(Increment(Wheel(c, p, W - 1, W - 1)), p - 1)
  <1>1. W - 1 \in Byte /\ ((W - 1) + 1) % W = 0
    BY SizeAssumption DEF Byte
  <1>2. PICK d : d = Wheel(c, p, W - 1, W - 1)
    OBVIOUS
  <1>3. \A q \in p..B : d[q] = W - 1
    BY <1>1, <1>2, WheelIsBlock
  <1>4. ASSUME NEW q \in ((p - 1) + 1)..B PROVE Increment(d)[q] = 0
    <2>1. q \in 1..B /\ d[q] = W - 1 /\ \A r \in (q + 1)..B : d[r] = W - 1
      BY <1>3
    <2> QED  BY <1>1, <2>1 DEF Increment
  <1> QED  BY <1>2, <1>4 DEF Rest

\* A wheel at p climbs from its value to every later one.
LEMMA WheelClimbs ==
    ASSUME NEW S, S \subseteq Block, \A c \in S : Increment(c) \in S,
           NEW p \in 1..B, Filled(S, p),
           NEW c \in Block, NEW u \in Byte, Wheel(c, p, u, 0) \in S
    PROVE  /\ \A v \in u..(W - 1) : Wheel(c, p, v, 0) \in S
           /\ Wheel(c, p, W - 1, W - 1) \in S
  <1> DEFINE T == {v \in Byte : Wheel(c, p, v, 0) \in S}
  <1>1. 0 \in Byte /\ W - 1 \in Byte /\ u \in Int /\ W - 1 \in Int /\ u..(W - 1) \subseteq Byte
    BY SizeAssumption DEF Byte
  <1>2. ASSUME NEW v \in Byte, Wheel(c, p, v, 0) \in S PROVE Wheel(c, p, v, W - 1) \in S
    <2>1. PICK x : x = Wheel(c, p, v, 0)
      OBVIOUS
    <2>2. PICK y : y = Wheel(c, p, v, W - 1)
      OBVIOUS
    <2>3. \A q \in 1..B : x[q] = IF q < p THEN c[q] ELSE IF q = p THEN v ELSE 0
      BY <2>1 DEF Wheel
    <2>4. y \in Block /\ \A q \in 1..B : y[q] = IF q < p THEN c[q] ELSE IF q = p THEN v ELSE W - 1
      BY <1>1, <2>2 DEF Wheel, Block
    <2>5. Rest(x, p) /\ x \in S
      BY <1>2, <2>1, <2>3 DEF Rest
    <2>6. \A q \in 1..p : y[q] = x[q]
      BY <2>3, <2>4, SizeAssumption
    <2> QED  BY <2>2, <2>4, <2>5, <2>6 DEF Filled
  <1>3. ASSUME NEW v \in u..(W - 1), v \in T, v < W - 1 PROVE v + 1 \in T
    <2>1. v \in Byte /\ Wheel(c, p, v, 0) \in S
      BY <1>3
    <2>2. Wheel(c, p, v, W - 1) \in S
      BY <1>2, <2>1
    <2>3. Wheel(c, p, v + 1, 0) \in S
      BY <1>3, <2>1, <2>2, WheelTurns
    <2>4. v + 1 \in Byte
      BY <1>3, <2>1, SizeAssumption DEF Byte
    <2> QED  BY <2>3, <2>4
  <1>4. u \in T
    OBVIOUS
  <1>5. u..(W - 1) \subseteq T
    <2> HIDE DEF T
    <2>1. PICK top \in Int : top = W - 1
      BY <1>1
    <2>2. \A q \in u..top : q \in T /\ q < top => q + 1 \in T
      BY <1>3, <2>1
    <2>3. u..top \subseteq T
      BY <1>1, <1>4, <2>2, Climb
    <2> QED  BY <2>1, <2>3
  <1>6. \A v \in u..(W - 1) : Wheel(c, p, v, 0) \in S
    BY <1>5
  <1>7. W - 1 \in u..(W - 1)
    BY SizeAssumption DEF Byte
  <1> QED  BY <1>1, <1>2, <1>6, <1>7

\* What holds behind p holds behind p - 1: the wheel at p takes every value.
LEMMA FilledNext ==
    ASSUME NEW S, S \subseteq Block, \A c \in S : Increment(c) \in S,
           NEW p \in 1..B, Filled(S, p)
    PROVE  Filled(S, p - 1)
  <1> SUFFICES ASSUME NEW c \in S, Rest(c, p - 1),
                      NEW d \in Block, \A q \in 1..(p - 1) : d[q] = c[q]
               PROVE  d \in S
    BY DEF Filled
  <1>1. 0 \in Byte /\ c \in Block /\ p \in Nat
    BY SizeAssumption DEF Byte
  <1>2. Wheel(c, p, 0, 0) = c
    <2>1. \A q \in 1..B : c[q] = IF q < p THEN c[q] ELSE IF q = p THEN 0 ELSE 0
      BY <1>1 DEF Rest
    <2> QED  BY <1>1, <2>1 DEF Wheel, Block
  <1>3. PICK v \in Byte : v = d[p]
    BY DEF Block
  <1>4. PICK x : x = Wheel(c, p, v, 0)
    OBVIOUS
  <1>5. x \in S
    <2>1. \A w \in 0..(W - 1) : Wheel(c, p, w, 0) \in S
      BY <1>1, <1>2, WheelClimbs
    <2> QED  BY <1>4, <2>1 DEF Byte
  <1>6. \A q \in 1..B : x[q] = IF q < p THEN c[q] ELSE IF q = p THEN v ELSE 0
    BY <1>4 DEF Wheel
  <1>7. Rest(x, p)
    BY <1>6 DEF Rest
  <1>8. \A q \in 1..p : d[q] = x[q]
    BY <1>3, <1>6, SizeAssumption
  <1> QED  BY <1>5, <1>7, <1>8 DEF Filled

\* Some member has only zeros behind p - 1 when one has behind p: the wheel at
\* p reaches its last value and starts again.
LEMMA RestNext ==
    ASSUME NEW S, S \subseteq Block, \A c \in S : Increment(c) \in S,
           NEW p \in 1..B, Filled(S, p), \E c \in S : Rest(c, p)
    PROVE  \E c \in S : Rest(c, p - 1)
  <1>1. PICK c \in S : Rest(c, p)
    OBVIOUS
  <1>2. c \in Block /\ c[p] \in Byte
    BY DEF Block
  <1>3. Wheel(c, p, c[p], 0) = c
    <2>1. \A q \in 1..B : c[q] = IF q < p THEN c[q] ELSE IF q = p THEN c[p] ELSE 0
      BY <1>1 DEF Rest
    <2> QED  BY <1>2, <2>1 DEF Wheel, Block
  <1>4. Wheel(c, p, W - 1, W - 1) \in S
    <2>1. PICK u \in Byte : u = c[p]
      BY <1>2
    <2>2. Wheel(c, p, u, 0) \in S
      BY <1>3, <2>1
    <2> QED  BY <1>2, <2>2, WheelClimbs
  <1>5. Rest(Increment(Wheel(c, p, W - 1, W - 1)), p - 1)
    BY <1>2, WheelWraps
  <1> QED  BY <1>4, <1>5

\* The counters that follow one another from a block are all the blocks there
\* are before the first of them returns.
LEMMA CounterVisitsAll ==
    ASSUME NEW S, S \subseteq Block, S # {}, \A c \in S : Increment(c) \in S
    PROVE  S = Block
  <1> DEFINE T == {i \in 0..B : Filled(S, B - i) /\ \E c \in S : Rest(c, B - i)}
  <1>1. 0 \in T
    <2>1. Filled(S, B)
      <3> SUFFICES ASSUME NEW c \in S, NEW d \in Block, \A q \in 1..B : d[q] = c[q] PROVE d \in S
        BY DEF Filled
      <3>1. c = [q \in 1..B |-> c[q]] /\ d = [q \in 1..B |-> d[q]]
        BY DEF Block
      <3>2. d = c
        <4> HIDE DEF T
        <4> QED  BY <3>1
      <3> QED  BY <3>2
    <2>2. \A c \in S : Rest(c, B)
      BY SizeAssumption DEF Rest
    <2>3. B - 0 = B /\ 0 \in 0..B
      BY SizeAssumption
    <2> QED  BY <2>1, <2>2, <2>3
  <1>2. ASSUME NEW i \in 0..B, i \in T, i < B PROVE i + 1 \in T
    <2>1. PICK p \in 1..B : p = B - i
      BY <1>2, SizeAssumption
    <2>2. p - 1 = B - (i + 1) /\ i + 1 \in 0..B
      BY <1>2, <2>1, SizeAssumption
    <2>3. Filled(S, p) /\ \E c \in S : Rest(c, p)
      BY <1>2, <2>1
    <2>4. Filled(S, p - 1)
      BY <2>3, FilledNext
    <2>5. \E c \in S : Rest(c, p - 1)
      BY <2>3, RestNext
    <2> QED  BY <2>2, <2>4, <2>5
  <1>3. 0..B \subseteq T
    <2> HIDE DEF T
    <2>1. 0 \in Int /\ B \in Int
      BY SizeAssumption
    <2> QED  BY <1>1, <1>2, <2>1, Climb
  <1>4. Filled(S, 0) /\ \E c \in S : Rest(c, 0)
    <2>1. B \in 0..B /\ B - B = 0
      BY SizeAssumption
    <2> QED  BY <1>3, <2>1
  <1>5. Block \subseteq S
    BY <1>4 DEF Filled
  <1> QED  BY <1>5

\* Among the counters of a message none comes twice: they would be all there
\* are, and there are more than a message has blocks.
LEMMA CountersAreDifferent ==
    ASSUME NEW f \in Seq(Block), Len(f) <= MaxBlocks + 1,
           \A i \in 1..(Len(f) - 1) : f[i + 1] = Increment(f[i]),
           NEW i \in 1..Len(f), NEW j \in 1..Len(f), i < j
    PROVE  f[i] # f[j]
  <1> SUFFICES ASSUME f[i] = f[j] PROVE FALSE
    OBVIOUS
  <1>1. Len(f) \in Nat /\ \A a \in 1..Len(f) : f[a] \in Block
    BY LenProperties, ElementOfSeq
  <1> DEFINE n == j - i
             g == [a \in 1..n |-> f[(i + a) - 1]]
             S == {g[a] : a \in 1..n}
  <1>2. n \in Nat \ {0} /\ n <= MaxBlocks
    BY <1>1, SizeAssumption
  <1>3. \A a \in 1..n : (i + a) - 1 \in 1..Len(f) /\ g[a] = f[(i + a) - 1]
    BY <1>1
  <1>4. \A a \in 1..n : Increment(g[a]) \in S
    <2> SUFFICES ASSUME NEW a \in 1..n PROVE Increment(g[a]) \in S
      OBVIOUS
    <2>1. PICK b \in 1..(Len(f) - 1) : b = (i + a) - 1
      BY <1>1
    <2>2. Increment(g[a]) = f[b + 1]
      BY <1>3, <2>1
    <2>3. CASE a < n
      <3>1. a + 1 \in 1..n /\ g[a + 1] = f[b + 1]
        BY <1>2, <1>3, <2>1, <2>3
      <3> QED  BY <2>2, <3>1
    <2>4. CASE a = n
      <3>1. b + 1 = j /\ 1 \in 1..n /\ (i + 1) - 1 = i
        BY <1>2, <2>1, <2>4
      <3>2. g[1] = f[i]
        BY <1>3, <3>1
      <3> QED  BY <2>2, <3>1, <3>2
    <2> QED  BY <1>2, <2>3, <2>4
  <1>5. S \subseteq Block /\ S # {}
    <2>1. 1 \in 1..n
      BY <1>2
    <2>2. \A a \in 1..n : g[a] \in Block
      BY <1>1, <1>3
    <2> HIDE DEF g, n
    <2> QED  BY <2>1, <2>2
  <1>6. S = Block
    <2>1. \A c \in S : Increment(c) \in S
      BY <1>4
    <2> HIDE DEF S, g, n
    <2> QED  BY <1>5, <2>1, CounterVisitsAll
  <1>7. Cardinality(Block) <= n
    <2>1. g \in Surjection(1..n, Block)
      BY <1>1, <1>3, <1>6 DEF Surjection
    <2>2. IsFiniteSet(1..n) /\ Cardinality(1..n) = n
      <3> HIDE DEF n
      <3> QED  BY <1>2, FS_Interval
    <2>3. Cardinality(Block) <= Cardinality(1..n)
      <3> HIDE DEF n, g
      <3> QED  BY <2>1, <2>2, FS_Surjection
    <2> QED  BY <2>2, <2>3
  <1>8. IsFiniteSet(Block) /\ Cardinality(Block) \in Nat
    <2>1. g \in Surjection(1..n, Block)
      BY <1>1, <1>3, <1>6 DEF Surjection
    <2>2. IsFiniteSet(1..n)
      <3> HIDE DEF n
      <3> QED  BY <1>2, FS_Interval
    <2> HIDE DEF n, g
    <2>3. IsFiniteSet(Block)
      BY <2>1, <2>2, FS_Surjection
    <2> QED  BY <2>3, FS_CardinalityType
  <1> QED  BY <1>2, <1>7, <1>8, CounterAssumption, SizeAssumption

\* The invariant lists the counters of a run in counter mode one after another,
\* no more than one beyond the blocks of the longest message.
LEMMA CountersFollow ==
    ASSUME IInv, task.mode = "ctr"
    PROVE  /\ forth \in Seq(Block) /\ Len(forth) <= MaxBlocks + 1
           /\ \A i \in 1..(Len(forth) - 1) : forth[i + 1] = Increment(forth[i])
  <1>1. /\ TypeOK /\ Accepts(task, "encrypt", task.plain) /\ Chained
        /\ forth \in Seq(Block) /\ Len(forth) \in Nat /\ P = task.plain
    BY PlaintextFits DEF IInv, StreamModes
  <1>2. Len(P) \in Nat /\ Len(P) <= MaxBlocks * B
    <2>1. Len(task.plain) <= MaxBlocks * B
      BY <1>1 DEF Accepts, InputLimits, Limits, StreamModes
    <2> QED  BY <1>1, <2>1, PlaintextFits
  <1>3. Len(forth) <= MaxBlocks + 1
    <2>1. SUFFICES ASSUME MaxBlocks + 1 < Len(forth) PROVE FALSE
      BY <1>1, SizeAssumption
    <2>2. (MaxBlocks + 1) \in 1..(Len(forth) - 1) /\ MaxBlocks + 1 \in Nat
      BY <1>1, <2>1, SizeAssumption
    <2>3. (MaxBlocks + 1) * B <= Len(P)
      BY <1>1, <2>2 DEF Chained
    <2>4. (MaxBlocks + 1) * B = MaxBlocks * B + B /\ MaxBlocks * B \in Nat
      BY SizeAssumption, TimesMonotone
    <2> QED  BY <1>2, <2>3, <2>4, SizeAssumption
  <1>4. ASSUME NEW i \in 1..(Len(forth) - 1) PROVE forth[i + 1] = Increment(forth[i])
    <2>1. forth[i + 1] = Turn(i - 1).carry /\ (i - 1) + 1 = i
      BY <1>1 DEF Chained
    <2>2. Turn(i - 1).carry = Increment(forth[i])
      BY <2>1 DEF Turn, Body, CtrBody, Result
    <2> QED  BY <2>1, <2>2
  <1> QED  BY <1>1, <1>3, <1>4

-----------------------------------------------------------------------------
(***************************************************************************)
(* The theorems.                                                           *)
(***************************************************************************)

\* Every value of a run stays of its type, for every cipher and message.
THEOREM TypeCorrect == Spec => []TypeOK
  <1>1. IInv => TypeOK
    BY DEF IInv
  <1> QED  BY <1>1, AlwaysIInv, PTL

\* Decrypting what was encrypted gives the message back, for every invertible
\* block cipher, block size, mode of operation, padding, IV and accepted
\* message.
THEOREM DecryptionRecovers == Spec => []RoundTrip
  <1>1. IInv => RoundTrip
    BY DEF IInv, Encrypting, Decrypting, TypeOK, RoundTrip
  <1> QED  BY <1>1, AlwaysIInv, PTL

\* No step of either run throws: what the field accepts is padded to whole
\* blocks, and what comes out is accepted again and carries a valid pad.
THEOREM RunsSucceed == Spec => []NeverFails
  <1>1. IInv => NeverFails
    BY DEF IInv, Encrypting, Decrypting, TypeOK, NeverFails
  <1> QED  BY <1>1, AlwaysIInv, PTL

\* A stream mode keeps the length of its message; the other modes produce
\* whole blocks, no fewer bytes than they were given.
THEOREM LengthIsKept == Spec => []LengthKept
  <1>1. IInv => LengthKept
    BY PlaintextFits DEF IInv, Decrypting, LengthKept
  <1> QED  BY <1>1, AlwaysIInv, PTL

\* The decrypting loop meets every block with the value the encrypting loop
\* carried into it.
THEOREM CarriesRepeat == Spec => []CarriesAgree
  <1>1. IInv => CarriesAgree
    BY DEF IInv, Decrypting, CarriesAgree
  <1> QED  BY <1>1, AlwaysIInv, PTL

\* In counter mode no two blocks of a message meet the same counter, for every
\* IV, however near to the wrap of the counter it starts.
THEOREM CountersNeverRepeat == Spec => []CountersDiffer
  <1>1. IInv => CountersDiffer
    <2> SUFFICES ASSUME IInv, task.mode = "ctr",
                        NEW i \in 1..Len(forth), NEW j \in 1..Len(forth), i # j
                 PROVE  forth[i] # forth[j]
      BY DEF CountersDiffer
    <2>1. /\ forth \in Seq(Block) /\ Len(forth) <= MaxBlocks + 1
          /\ \A m \in 1..(Len(forth) - 1) : forth[m + 1] = Increment(forth[m])
      BY CountersFollow
    <2>2. i < j \/ j < i
      OBVIOUS
    <2>3. CASE i < j
      BY <2>1, <2>3, CountersAreDifferent
    <2>4. CASE j < i
      BY <2>1, <2>4, CountersAreDifferent
    <2> QED  BY <2>2, <2>3, <2>4
  <1> QED  BY <1>1, AlwaysIInv, PTL

\* Together: for every block cipher that can be inverted, every block size,
\* mode, padding, IV and accepted message, both runs go through, no counter
\* masks two blocks, and the message is back at the end.
THEOREM ModeCorrect == Spec => []ModeIsCorrect
  BY TypeCorrect, RunsSucceed, LengthIsKept, CarriesRepeat, CountersNeverRepeat,
     DecryptionRecovers, PTL
     DEF ModeIsCorrect

=============================================================================
