----------------------------- MODULE KeyedCiphers -----------------------------
(***************************************************************************)
(* The block ciphers as they are drawn: AES, Serpent, DES, Speck 32/64,    *)
(* Blowfish and Twofish, with key schedules built of steps that each make  *)
(* one group of words, and the rounds of both directions.                  *)
(*                                                                         *)
(* Beside them stand the repository's second accounts of them: the         *)
(* executors that make a whole key schedule in one step (documents of      *)
(* before the schedules were drawn still run them), the form of Serpent    *)
(* that works on words instead of nibbles, and the functions on 32-bit     *)
(* numbers the oracles of the tests run.                                   *)
(***************************************************************************)
EXTENDS Bytes, CipherTables

-----------------------------------------------------------------------------
(***************************************************************************)
(* AES and Serpent.                                                        *)
(***************************************************************************)

Counting(m, n) == [i \in 1..(n - m + 1) |-> m + i - 1]
KeyWord(s, j) == Part(s, 4 * j, 4)

-----------------------------------------------------------------------------
(***************************************************************************)
(* AES, the drawn schedule: group g makes the next nk words, the last one  *)
(* as many as the rounds still want.                                       *)
(***************************************************************************)

\* Beyond the ten constants of the table, each is the double of the one before.
RconByte(g) ==
    IF g < Len(AES_RCON) THEN AES_RCON[g + 1]
    ELSE FoldLeft(LAMBDA v, i : Xtime(v), AES_RCON[Len(AES_RCON)], Counting(Len(AES_RCON), g))

RotWord(word) == Permute(word, <<1, 2, 3, 0>>)
SubWord(word) == ByteSubstitute(word, AES_SBOX)

AesGenerated(nk, rounds) == (4 * (rounds + 1)) - nk
AesGroups(nk, rounds) == (AesGenerated(nk, rounds) + nk - 1) \div nk
AesWordsInGroup(nk, rounds, g) == Min({nk, AesGenerated(nk, rounds) - (nk * (g - 1))})

AesGroup(prev, nk, g, count) ==
    LET temp == XorRows(SubWord(RotWord(KeyWord(prev, nk - 1))), <<RconByte(g), 0, 0, 0>>)
        Left(ws, j) == IF nk = 8 /\ j = 4 THEN SubWord(ws[j]) ELSE ws[j]
    IN  Joined(FoldLeft(LAMBDA ws, j : Append(ws, XorRows(KeyWord(prev, j), Left(ws, j))),
                        <<XorRows(KeyWord(prev, 0), temp)>>, Counting(1, count - 1)))

\* The stream of words so far, and one more group: it reads the last one.
AesDerived(stream, nk, rounds, g) ==
    stream \o AesGroup(Part(stream, Len(stream) - (4 * nk), 4 * nk), nk, g, AesWordsInGroup(nk, rounds, g))
AesPublished(stream, rounds) == Row([r \in 1..rounds + 1 |-> ByteSlice(stream, 16 * (r - 1), 16)])

\* The executors.  The first knows the standard's numbers of rounds only; the
\* second, for rounds a user has duplicated, extends the table of constants.
RconExtended(n) ==
    FoldLeft(LAMBDA rcon, i : Append(rcon, Xtime(rcon[Len(rcon)])), AES_RCON, Counting(Len(AES_RCON), n))
AesExpansion(key, rounds, rcon) ==
    LET nk == Len(key) \div 4
        Temp(w, i) ==
            CASE i % nk = 0 -> XorRows(SubWord(RotWord(w[i])), <<rcon[(i \div nk) + 1], 0, 0, 0>>)
              [] nk > 6 /\ i % nk = 4 -> SubWord(w[i])
              [] OTHER -> w[i]
        words == FoldLeft(LAMBDA w, i : Append(w, XorRows(w[i + 1 - nk], Temp(w, i))),
                          Row([j \in 1..nk |-> KeyWord(key, j - 1)]), Counting(nk, (4 * rounds) + 3))
    IN  Row([r \in 1..rounds + 1 |-> Joined(SubSeq(words, (4 * r) - 3, 4 * r))])
KeyExpansionThrows(key, rounds) == rounds # (Len(key) \div 4) + 6
KeyExpansion(key, rounds) == AesExpansion(key, rounds, AES_RCON)
KeyExpansionV2(key, rounds) == AesExpansion(key, rounds, RconExtended(((4 * rounds) + 3) \div (Len(key) \div 4)))

-----------------------------------------------------------------------------
(***************************************************************************)
(* AES, the rounds.                                                        *)
(***************************************************************************)

ShiftRowsIndices(shifts) == Row([i \in 1..16 |->
    LET r == (i - 1) % 4 IN r + (4 * ((((i - 1) \div 4) + shifts[r + 1]) % 4))])

AesSubBytes(s) == ByteSubstitute(s, AES_SBOX)
AesShiftRows(s) == Permute(s, ShiftRowsIndices(AES_SHIFT_ROWS))
AesMixColumns(s) == GfMatrixMultiply(s, AES_MIX_MATRIX, AesModulus)
AesInvSubBytes(s) == ByteSubstitute(s, AES_INV_SBOX)
AesInvShiftRows(s) == Permute(s, ShiftRowsIndices(AES_INV_SHIFT_ROWS))
AesInvMixColumns(s) == GfMatrixMultiply(s, AES_INV_MIX_MATRIX, AesModulus)

\* The last round of each direction has no mixing of columns.
AesEncryptRound(s, keys, r, rounds) ==
    LET shifted == AesShiftRows(AesSubBytes(s))
    IN  XorWithAux(IF r < rounds THEN AesMixColumns(shifted) ELSE shifted, keys[r + 1])

AesDecryptRound(s, keys, n) ==
    LET bare == XorWithAux(AesInvSubBytes(AesInvShiftRows(s)), keys[n + 1])
    IN  IF n > 0 THEN AesInvMixColumns(bare) ELSE bare

-----------------------------------------------------------------------------
(***************************************************************************)
(* Serpent, bits: bit b of a row is bit b % 8 of byte b \div 8.            *)
(***************************************************************************)

SERPENT_ROUNDS == 32
SERPENT_PHI == <<158, 55, 121, 185>>

ReadBit(s, b) == BitAt(s[(b \div 8) + 1], b % 8)
BytesOfBits(Bit(_)) == Row([p \in 1..16 |-> LET At(k) == Bit((8 * (p - 1)) + k) IN
    BitSum(At) + (16 * BitSum(LAMBDA k : At(k + 4)))])

BitPermutation(s, table) == BytesOfBits(LAMBDA i : ReadBit(s, table[i]))
SumOfBits(s, table) == BytesOfBits(LAMBDA i : FoldLeft(LAMBDA bit, b : (bit + ReadBit(s, b)) % 2, 0, table[i + 1]))
LinearTransform(s) == SumOfBits(s, SERPENT_LT_TABLE)
InvLinearTransform(s) == SumOfBits(s, SERPENT_INV_LT_TABLE)

SerpentSubBytes(s, sbox) == Row([i \in 1..16 |-> sbox[(s[i] % 16) + 1] + (16 * sbox[(s[i] \div 16) + 1])])
SerpentSbox(r) == SERPENT_SBOXES[(r % 8) + 1]
\* Not typed in: computed from the forward tables when the module is loaded.
SerpentInvSbox(r) == Row([y \in 1..16 |-> (CHOOSE x \in 1..16 : SerpentSbox(r)[x] = y - 1) - 1])

\* Bit j of the four words is a number for the S-box; the words are in little-endian order.
SboxBitslice4(s, sbox) ==
    LET Nibble(j) == BitSum(LAMBDA i : ReadBit(s, (32 * i) + j))
    IN  BytesOfBits(LAMBDA b : BitAt(sbox[Nibble(b % 32) + 1], b \div 32))

(***************************************************************************)
(* Serpent, the schedule: 132 steps make a word each from four of the      *)
(* eight before it, and four words make a round key.  The drawn steps work *)
(* on words in big-endian order.                                           *)
(***************************************************************************)

Padded(key) == IF Len(key) = 32 THEN key ELSE Concat(<<key, <<1>> \o Zeros(31 - Len(key))>>)
SerpentLoaded(key) == Chunks(Padded(key), 4, Reverse)

SerpentDerived(words, j) ==
    LET Tap(p) == words[p + 1]
        mixed == Xor(<<Tap(j), Tap(j + 3), Tap(j + 5), Tap(j + 7), SERPENT_PHI, <<0, 0, 0, j>>>>)
    IN  Append(words, RotateBitsRight(mixed, 21, 32))

KeySbox(s, r) == BitPermutation(SboxBitslice4(EachRow(s, 4, Reverse), SerpentSbox(r)), SERPENT_IP)
SerpentPublished(words) ==
    Row([i \in 1..SERPENT_ROUNDS + 1 |-> KeySbox(Joined(SubSeq(words, (4 * i) + 5, (4 * i) + 8)), 36 - i)])

\* The executor: the same on numbers.
Prekeys(key) ==
    FoldLeft(LAMBDA w, j :
        LET x == XorNumbers(XorNumbers(w[j + 1], w[j + 4]), XorNumbers(w[j + 6], w[j + 8]))
        IN  Append(w, Turn(XorNumbers(XorNumbers(x, <<(256 * SERPENT_PHI[1]) + SERPENT_PHI[2], (256 * SERPENT_PHI[3]) + SERPENT_PHI[4]>>), <<0, j>>), 11)),
        Chunks(Padded(key), 4, Number), Counting(0, 131))
SerpentKeyExpansion(key) ==
    LET words == Prekeys(key)
    IN  Row([i \in 1..SERPENT_ROUNDS + 1 |-> BitPermutation(
            SboxBitslice4(Joined(Row([k \in 1..4 |-> NumberBytes(words[(4 * i) + 4 + k])])), SerpentSbox(36 - i)), SERPENT_IP)])

-----------------------------------------------------------------------------
(***************************************************************************)
(* Serpent, the rounds.  The last one has a second key in the place of the *)
(* linear transform.                                                       *)
(***************************************************************************)

SerpentEncryptRound(s, keys, r) ==
    LET substituted == SerpentSubBytes(XorWithAux(s, keys[r]), SerpentSbox(r - 1))
    IN  IF r < SERPENT_ROUNDS THEN LinearTransform(substituted)
        ELSE XorWithAux(substituted, keys[SERPENT_ROUNDS + 1])
SerpentDecryptRound(s, keys, r) ==
    LET mixedBack == IF r < SERPENT_ROUNDS THEN InvLinearTransform(s) ELSE XorWithAux(s, keys[SERPENT_ROUNDS + 1])
    IN  XorWithAux(SerpentSubBytes(mixedBack, SerpentInvSbox(r - 1)), keys[r])

\* The cipher's paper has it on four words, with no permutation of bits.
LtWords(w) ==
    LET x0 == Turn(w[1], 13)
        x2 == Turn(w[3], 3)
        x1 == Turn(XorNumbers(w[2], XorNumbers(x0, x2)), 1)
        Upwards(x, n) == <<((x[1] * 2^n) % 65536) + (x[2] \div (2^(16 - n))), (x[2] * 2^n) % 65536>>
        x3 == Turn(XorNumbers(w[4], XorNumbers(x2, Upwards(x0, 3))), 7)
        y0 == Turn(XorNumbers(x0, XorNumbers(x1, x3)), 5)
        y2 == Turn(XorNumbers(x2, XorNumbers(x3, Upwards(x1, 7))), 22)
    IN  <<y0, x1, y2, x3>>
Sliced(s, r) == SboxBitslice4(s, SerpentSbox(r))
SerpentOnWords(keys, block) ==
    LET Raw(r) == BitPermutation(keys[r], SERPENT_FP)
        Round(s, r) == Joined(Row([k \in 1..4 |->
            NumberBytes(LtWords(Chunks(Sliced(XorRows(s, Raw(r)), r - 1), 4, Number))[k])]))
    IN  XorRows(Sliced(XorRows(FoldLeft(Round, block, Counting(1, 31)), Raw(32)), 31), Raw(33))

-----------------------------------------------------------------------------
(***************************************************************************)
(* DES and Speck.                                                          *)
(***************************************************************************)

-----------------------------------------------------------------------------
(***************************************************************************)
(* DES.  Bits count from 1, the most significant of the first byte first.  *)
(***************************************************************************)

ReadFipsBit(s, i) == BitAt(s[((i - 1) \div 8) + 1], 7 - ((i - 1) % 8))
BitsToFipsBytes(n, Bit(_)) == Row([p \in 1..n \div 8 |-> LET At(k) == Bit((8 * p) - k) IN
    BitSum(At) + (16 * BitSum(LAMBDA k : At(k + 4)))])
FipsPermute(s, table, n) == BitsToFipsBytes(n, LAMBDA i : ReadFipsBit(s, table[i]))

RotateHalves(s, shift, halfBits) ==
    BitsToFipsBytes(2 * halfBits, LAMBDA i :
        LET first == halfBits * ((i - 1) \div halfBits)
        IN  ReadFipsBit(s, first + ((i - 1 - first + shift) % halfBits) + 1))

DesLoaded(key) == <<FipsPermute(key, DES_PC1, 56)>>
DesDerived(halves, r) == Append(halves, RotateHalves(halves[r], DES_SHIFTS[r], 28))
DesPublished(halves) == Row([r \in 1..16 |-> FipsPermute(halves[r + 1], DES_PC2, 48)])

\* The executor: the halves are rows of bits.
RotatedBits(bits, n) == Row([i \in 1..Len(bits) |-> bits[((i - 1 + n) % Len(bits)) + 1]])
DesHalves(key) ==
    LET cd == FipsPermute(key, DES_PC1, 56)
        bits == Row([i \in 1..56 |-> ReadFipsBit(cd, i)])
    IN  FoldLeft(LAMBDA hs, r : Append(hs, <<RotatedBits(hs[r][1], DES_SHIFTS[r]), RotatedBits(hs[r][2], DES_SHIFTS[r])>>),
                 <<<<SubSeq(bits, 1, 28), SubSeq(bits, 29, 56)>>>>, Counting(1, 16))
DesKeySchedule(key) ==
    LET halves == DesHalves(key)
        Joint(r) == halves[r][1] \o halves[r][2]
    IN  Row([r \in 1..16 |-> FipsPermute(BitsToFipsBytes(56, LAMBDA i : Joint(r + 1)[i]), DES_PC2, 48)])

DesSBoxes(s) ==
    LET In(b, k) == ReadFipsBit(s, (6 * (b - 1)) + k)
        Out(b) == DES_SBOXES[b][(2 * In(b, 1)) + In(b, 6) + 1]
                            [(8 * In(b, 2)) + (4 * In(b, 3)) + (2 * In(b, 4)) + In(b, 5) + 1]
    IN  Row([p \in 1..4 |-> (16 * Out((2 * p) - 1)) + Out(2 * p)])

DesF(half, key) == FipsPermute(DesSBoxes(XorRows(FipsPermute(half, DES_E, 48), key)), DES_P, 32)

\* The halves change places but in the last round.
DesRound(s, key, swap) ==
    LET halves == SplitBytes(s, <<4, 4>>)
        fxor == XorRows(halves[1], DesF(halves[2], key))
    IN  IF swap THEN Concat(<<halves[2], fxor>>) ELSE Concat(<<fxor, halves[2]>>)
DesEncryptRound(s, keys, r) == DesRound(s, keys[r], r < 16)

DesDecryptRound(s, keys, r) == DesRound(s, keys[17 - r], r < 16)

-----------------------------------------------------------------------------
(***************************************************************************)
(* Speck 32/64: in the order of bytes of its paper and in the reverse one  *)
(* of its authors' implementation.                                         *)
(***************************************************************************)

SPECK_ROUNDS == 22
Alpha == 7
Beta == 2

\* The key's words in the order they are used in, the most significant byte first.
SpeckLoaded(key, order) ==
    Chunks(IF order = "be-paper" THEN Permute(key, <<6, 7, 4, 5, 2, 3, 0, 1>>) ELSE Permute(key, <<1, 0, 3, 2, 5, 4, 7, 6>>),
           2, LAMBDA w : w)

\* words holds the key's l's and the new ones; the last of ks is the key of the round before.
SpeckDerived(words, g) ==
    LET k == words.ks[g + 1]
        new == XorRows(AddMod16(<<k, RotateBitsRight(words.ls[g + 1], Alpha, 16)>>), <<0, g>>)
    IN  [ls |-> Append(words.ls, new), ks |-> Append(words.ks, XorRows(RotateBitsRight(k, 16 - Beta, 16), new))]

SpeckPublished(words, order) ==
    IF order = "be-paper" THEN words.ks ELSE Row([r \in 1..SPECK_ROUNDS |-> Permute(words.ks[r], <<1, 0>>)])

\* Numbers of 16 bits.
DecodeWord(s, order) == Half(IF order = "be-paper" THEN s ELSE Reverse(s))
EncodeWord(x, order) == IF order = "be-paper" THEN HalfBytes(x) ELSE Reverse(HalfBytes(x))
DecodeBlock(s, order) ==
    LET w == Chunks(s, 2, LAMBDA h : DecodeWord(h, order)) IN IF order = "be-paper" THEN w ELSE Reverse(w)
EncodeBlock(x, y, order) ==
    IF order = "be-paper" THEN EncodeWord(x, order) \o EncodeWord(y, order) ELSE EncodeWord(y, order) \o EncodeWord(x, order)
RorNumber(x, n) == (x \div (2^n)) + ((x * 2^(16 - n)) % 65536)
RolNumber(x, n) == RorNumber(x, 16 - n)

SpeckRound(s, key, order) ==
    LET b == DecodeBlock(s, order)
        x == XorHalves((RorNumber(b[1], Alpha) + b[2]) % 65536, DecodeWord(key, order))
    IN  EncodeBlock(x, XorHalves(RolNumber(b[2], Beta), x), order)
SpeckRoundInverse(s, key, order) ==
    LET b == DecodeBlock(s, order)
        y == RorNumber(XorHalves(b[2], b[1]), Beta)
    IN  EncodeBlock(RolNumber((XorHalves(b[1], DecodeWord(key, order)) - y + 65536) % 65536, Alpha), y, order)

\* The key's words as numbers, k before the l's, and the recurrence on them.
DecodeKey(key, order) ==
    LET words == Chunks(key, 2, LAMBDA w : DecodeWord(w, order))
    IN  IF order = "be-paper" THEN Reverse(words) ELSE words
SpeckRecurrence(key, order) ==
    LET words == DecodeKey(key, order)
        Next(s, g) ==
            LET new == XorHalves((s.ks[g + 1] + RorNumber(s.ls[g + 1], Alpha)) % 65536, g)
            IN  [ls |-> Append(s.ls, new), ks |-> Append(s.ks, XorHalves(RolNumber(s.ks[g + 1], Beta), new))]
        ended == FoldLeft(Next, [ks |-> <<words[1]>>, ls |-> Tail(words)], Counting(0, SPECK_ROUNDS - 2))
    IN  Row([r \in 1..SPECK_ROUNDS |-> EncodeWord(ended.ks[r], order)])

-----------------------------------------------------------------------------
(***************************************************************************)
(* Blowfish and Twofish, whose S-boxes are made of the key. As drawn,      *)
(* words are in big-endian order; the functions the tests' oracles run     *)
(* work on numbers.                                                        *)
(***************************************************************************)

-----------------------------------------------------------------------------
(***************************************************************************)
(* Blowfish.  The constants are digits of pi: here words of no regularity. *)
(***************************************************************************)

BLOWFISH_ROUNDS == 16
DigitsOfPi(seed, n) ==
    Row([i \in 1..n |-> Row([k \in 1..4 |-> ((i * i * 37) + (i * k * 101) + (seed * 89) + (k * 41)) % 256])])
BLOWFISH_P_INIT == DigitsOfPi(1, 18)
BLOWFISH_S_INIT == Row([b \in 1..4 |-> DigitsOfPi(b + 1, 256)])

\* As drawn: the two words of the key in turn.
KeyMixedP(key) ==
    Row([i \in 1..18 |-> XorRows(BLOWFISH_P_INIT[i], ByteSlice(key, IF i % 2 = 1 THEN 0 ELSE 4, 4))])
\* On its own: bytes of a key of any length, over and over.
MixKeyIntoP(key) ==
    Row([i \in 1..18 |-> XorRows(BLOWFISH_P_INIT[i], Row([k \in 1..4 |-> key[((4 * (i - 1) + k - 1) % Len(key)) + 1]]))])

\* Words as numbers.
BlowfishF(x, S) ==
    LET Entry(b, byte) == Number(Reverse(S[b][byte + 1]))
        first == XorNumbers(Plus(Entry(1, x[1] \div 256), Entry(2, x[1] % 256)), Entry(3, x[2] \div 256))
    IN  Plus(first, Entry(4, x[2] % 256))
BlowfishEncryptWords(xl, xr, P, S) ==
    LET PNumber(i) == Number(Reverse(P[i]))
        Round(h, i) == LET left == XorNumbers(h[1], PNumber(i)) IN <<XorNumbers(h[2], BlowfishF(left, S)), left>>
        ended == FoldLeft(Round, <<xl, xr>>, Counting(1, BLOWFISH_ROUNDS))
    IN  <<XorNumbers(ended[2], PNumber(18)), XorNumbers(ended[1], PNumber(17))>>

\* One turn of the loop that makes the words of P and of the boxes, two at a time, each
\* pair an encryption of the one before under what has been made so far.
BlowfishLoaded(key) == [P |-> KeyMixedP(key), S |-> BLOWFISH_S_INIT, last |-> Zeros(8)]
BlowfishGroups == 9 + (4 * 128)
BlowfishDerived(words, g) ==
    LET numbers == BigEndianNumbers(words.last)
        pair == Chunks(Joined(Row([h \in 1..2 |->
                    NumberBytes(BlowfishEncryptWords(numbers[1], numbers[2], words.P, words.S)[h])])), 4, Reverse)
        i == g - 10
        box == (i \div 128) + 1
        at == 2 * (i % 128)
    IN  IF g <= 9
        THEN [words EXCEPT !.P = [@ EXCEPT ![(2 * g) - 1] = pair[1], ![2 * g] = pair[2]], !.last = Joined(pair)]
        ELSE [words EXCEPT !.S[box] = [@ EXCEPT ![at + 1] = pair[1], ![at + 2] = pair[2]], !.last = Joined(pair)]

\* A round as drawn, and the whitening: the halves are still to be exchanged.
BlowfishLookup(index, S, b) == S[b][index[1] + 1]
BlowfishRound(s, keys, i) ==
    LET halves == SplitBytes(s, <<4, 4>>)
        left == XorWithAux(halves[1], keys.P[i])
        bytes == SplitBytes(left, <<1, 1, 1, 1>>)
        S(b) == BlowfishLookup(bytes[b], keys.S, b)
        f == AddMod32(<<XorRows(AddMod32(<<S(1), S(2)>>), S(3)), S(4)>>)
    IN  Concat(<<XorRows(f, halves[2]), left>>)
BlowfishWhitening(s, keys, left, right) ==
    LET halves == SplitBytes(s, <<4, 4>>) IN Concat(<<XorWithAux(halves[2], keys.P[left]), XorWithAux(halves[1], keys.P[right])>>)
BlowfishEncryptRound(s, keys, r) == BlowfishRound(s, keys, r)

\* Mutant of BlowfishDecryptRound: the words of P count from the last but two.
BlowfishDecryptRoundShort(s, keys, r) == BlowfishRound(s, keys, 17 - r)

BlowfishDecryptRound(s, keys, r) == BlowfishRound(s, keys, 19 - r)

-----------------------------------------------------------------------------
(***************************************************************************)
(* Twofish.                                                                *)
(***************************************************************************)

TWOFISH_ROUNDS == 16

\* A fixed permutation of bytes, made of four tables of nibbles.
Ror4(x) == (x \div 2) + (8 * (x % 2))
Nibbled(a, b) == <<Nibbles[a][b], Nibbles[Nibbles[a][Ror4(b)]][8 * (a % 2)]>>
MakeQ(t) == [x \in 0..255 |->
    LET first == Nibbled(x \div 16, x % 16)
        then == Nibbled(t[1][first[1] + 1], t[2][first[2] + 1])
    IN  (16 * t[4][then[2] + 1]) + t[3][then[1] + 1]]
TWOFISH_Q0 == MakeQ(T_TABLES[1])
TWOFISH_Q1 == MakeQ(T_TABLES[2])

MatrixTimes(matrix, column, poly) ==
    Row([r \in 1..Len(matrix) |-> XorAll(Row([k \in 1..Len(column) |-> GfMulPoly(matrix[r][k], column[k], poly)]))])
MdsMul(z) == Number(MatrixTimes(TWOFISH_MDS, z, TWOFISH_MDS_POLY))
RsMul(key8) == MatrixTimes(TWOFISH_RS, key8, TWOFISH_RS_POLY)

\* The permutations each byte goes through, with a word of the key between them.
Substituted(x, inner, outer) ==
    LET Through(q1, q2, q3, k) == q3[XorTable[q2[XorTable[q1[x]][inner[k]]]][outer[k]]]
    IN  <<Through(TWOFISH_Q0, TWOFISH_Q0, TWOFISH_Q1, 1), Through(TWOFISH_Q1, TWOFISH_Q0, TWOFISH_Q0, 2),
          Through(TWOFISH_Q0, TWOFISH_Q1, TWOFISH_Q1, 3), Through(TWOFISH_Q1, TWOFISH_Q1, TWOFISH_Q0, 4)>>
BuildSboxes(S0, S1) ==
    LET all == Row([x \in 1..256 |-> Substituted(x - 1, S0, S1)]) IN Row([b \in 1..4 |-> Row([x \in 1..256 |-> all[x][b]])])
HKeySchedule(byte, outer, inner) == MdsMul(Substituted(byte, inner, outer))

\* What the step twofish.h-expand@1 makes: A's and B's as words, and the boxes.
TwofishA(key, i) == HKeySchedule(2 * i, Part(key, 0, 4), Part(key, 8, 4))
TwofishB(key, i) == Turn(HKeySchedule((2 * i) + 1, Part(key, 4, 4), Part(key, 12, 4)), 8)
WordBytesOf(n) == Reverse(NumberBytes(n))
HExpand(key) ==
    [A |-> Row([i \in 1..20 |-> WordBytesOf(TwofishA(key, i - 1))]),
     B |-> Row([i \in 1..20 |-> WordBytesOf(TwofishB(key, i - 1))]),
     S |-> BuildSboxes(RsMul(Part(key, 0, 8)), RsMul(Part(key, 8, 8))),
     K |-> <<>>]

\* As drawn: two subkeys from each pair.  A turn to the right by 23 is one to the left by 9.
TwofishDerived(words, i) ==
    LET doubled == AddMod32(<<words.B[i], words.B[i]>>)
    IN  [words EXCEPT !.K = @ \o <<AddMod32(<<words.A[i], words.B[i]>>),
                                   RotateBitsRight(AddMod32(<<words.A[i], doubled>>), 23, 32)>>]

\* On numbers, as the oracle has it.
TwofishKeySchedule(key) ==
    Joined(Row([i \in 1..20 |->
        LET k0 == Plus(TwofishA(key, i - 1), TwofishB(key, i - 1))
        IN  <<k0, Turn(Plus(TwofishB(key, i - 1), k0), 9)>>]))

TwofishWhitening(words, keys, first) == Joined(Row([i \in 1..4 |-> XorWithAux(words[i], keys.K[first + i - 1])]))
TwofishWhitenIn(s, keys, first) == TwofishWhitening(SplitBytes(WordReverse(s), <<4, 4, 4, 4>>), keys, first)
\* The exchange of the last round is taken back.
TwofishWhitenOut(s, keys, first) ==
    WordReverse(TwofishWhitening(Permute(SplitBytes(s, <<4, 4, 4, 4>>), <<2, 3, 0, 1>>), keys, first))

TwofishLookup(index, S, b) == S[b][index + 1]
TwofishG(word, S) ==
    Permute(GfMatrixMultiply(Row([b \in 1..4 |-> TwofishLookup(word[5 - b], S, b)]), TWOFISH_MDS, TWOFISH_MDS_POLY), <<3, 2, 1, 0>>)

\* The two sums a round adds to the other half: F0 and F1, of the keys of round r.
TwofishF(halves, keys, r) ==
    LET t0 == TwofishG(halves[1], keys.S)
        t1 == TwofishG(RotateBitsRight(halves[2], 24, 32), keys.S)
    IN  <<AddMod32(<<t0, t1, keys.K[(2 * r) + 7]>>), AddMod32(<<t0, AddMod32(<<t1, t1>>), keys.K[(2 * r) + 8]>>)>>

TwofishEncryptRound(s, keys, r) ==
    LET w == SplitBytes(s, <<4, 4, 4, 4>>)
        f == TwofishF(w, keys, r)
    IN  Concat(<<RotateBitsRight(XorRows(w[3], f[1]), 1, 32), XorRows(RotateBitsRight(w[4], 31, 32), f[2]), w[1], w[2]>>)
TwofishDecryptRound(s, keys, r) ==
    LET w == SplitBytes(s, <<4, 4, 4, 4>>)
        f == TwofishF(w, keys, 17 - r)
    IN  Concat(<<XorRows(RotateBitsRight(w[3], 31, 32), f[1]), RotateBitsRight(XorRows(w[4], f[2]), 1, 32), w[1], w[2]>>)

\* The oracle, on numbers.
OracleG(x, S) ==
    LET bytes == NumberBytes(x) IN MdsMul(Row([b \in 1..4 |-> S[b][bytes[b] + 1]]))
OracleSum(t0, t1, key) == Plus(Plus(t0, t1), key)
OracleHalves(w, K, r, t0, t1) ==
    <<Turn(XorNumbers(w[3], OracleSum(t0, t1, K[9 + (2 * r)])), 31),
      XorNumbers(Turn(w[4], 1), OracleSum(t0, Plus(t1, t1), K[10 + (2 * r)])), w[1], w[2]>>
OracleRound(w, S, K, r) == OracleHalves(w, K, r, OracleG(w[1], S), OracleG(Turn(w[2], 8), S))
RECURSIVE OracleRounds(_, _, _, _)
OracleRounds(w, S, K, r) == IF r = TWOFISH_ROUNDS THEN w ELSE OracleRounds(OracleRound(w, S, K, r), S, K, r + 1)
OracleWhitened(ws, K, first) == Row([i \in 1..4 |-> XorNumbers(ws[i], K[first + i])])
OracleEncryption(K, S, words) ==
    OracleWhitened(Permute(OracleRounds(OracleWhitened(words, K, 0), S, K, 0), <<2, 3, 0, 1>>), K, 4)
TwofishEncryptBlock(key, S, block) ==
    Joined(Chunks(OracleEncryption(TwofishKeySchedule(key), S, Chunks(block, 4, Number)), 1, LAMBDA n : NumberBytes(n[1])))

-----------------------------------------------------------------------------
(***************************************************************************)
(* A block cipher's document carried out: the groups of its key schedule   *)
(* one after another, the round keys published, a block through the rounds *)
(* of encryption and what they give through those of decryption.           *)
(***************************************************************************)

\* job.c has the cipher, its key and rounds and the block; words is what the schedule has
\* made, keys what it has published.
CipherJob(c) ==
    [kind |-> "cipher", pc |-> "load", c |-> c, g |-> 0, r |-> 0, words |-> <<>>, keys |-> <<>>, s |-> c.block]

SpeckOrder(cipher) == IF cipher = "speck-be" THEN "be-paper" ELSE "le-nsa"
IsSpeck(cipher) == cipher \in {"speck-be", "speck-le"}

-----------------------------------------------------------------------------
(***************************************************************************)
(* What each cipher does at each stage.                                    *)
(***************************************************************************)

Loaded(c) ==
    CASE c.cipher = "aes" -> c.key
      [] c.cipher = "serpent" -> SerpentLoaded(c.key)
      [] c.cipher = "des" -> DesLoaded(c.key)
      [] c.cipher = "blowfish" -> BlowfishLoaded(c.key)
      [] c.cipher = "twofish" -> HExpand(c.key)
      [] OTHER -> LET words == SpeckLoaded(c.key, SpeckOrder(c.cipher)) IN [ks |-> <<words[1]>>, ls |-> Tail(words)]

Groups(c) ==
    CASE c.cipher = "aes" -> AesGroups(Len(c.key) \div 4, c.rounds)
      [] c.cipher = "serpent" -> 132
      [] c.cipher = "des" -> 16
      [] c.cipher = "blowfish" -> BlowfishGroups
      [] c.cipher = "twofish" -> 20
      [] OTHER -> SPECK_ROUNDS - 1

WithGroup(c, words, g) ==
    CASE c.cipher = "aes" -> AesDerived(words, Len(c.key) \div 4, c.rounds, g)
      [] c.cipher = "serpent" -> SerpentDerived(words, g - 1)
      [] c.cipher = "des" -> DesDerived(words, g)
      [] c.cipher = "blowfish" -> BlowfishDerived(words, g)
      [] c.cipher = "twofish" -> TwofishDerived(words, g)
      [] OTHER -> SpeckDerived(words, g - 1)

RoundKeys(c, words) ==
    CASE c.cipher = "aes" -> AesPublished(words, c.rounds)
      [] c.cipher = "serpent" -> SerpentPublished(words)
      [] c.cipher = "des" -> DesPublished(words)
      [] IsSpeck(c.cipher) -> SpeckPublished(words, SpeckOrder(c.cipher))
      [] OTHER -> words

\* What comes before the rounds, a round, and what comes after them.
Entered(c, s, keys, encrypt) ==
    CASE c.cipher = "aes" -> XorWithAux(s, keys[IF encrypt THEN 1 ELSE c.rounds + 1])
      [] c.cipher = "serpent" -> BitPermutation(s, SERPENT_IP)
      [] c.cipher = "des" -> FipsPermute(s, DES_IP, 64)
      [] c.cipher = "twofish" -> TwofishWhitenIn(s, keys, IF encrypt THEN 1 ELSE 5)
      [] OTHER -> s

Round(c, s, keys, r, encrypt) ==
    CASE c.cipher = "aes" ->
            IF encrypt THEN AesEncryptRound(s, keys, r, c.rounds) ELSE AesDecryptRound(s, keys, c.rounds - r)
      [] c.cipher = "serpent" ->
            IF encrypt THEN SerpentEncryptRound(s, keys, r) ELSE SerpentDecryptRound(s, keys, 33 - r)
      [] c.cipher = "des" -> IF encrypt THEN DesEncryptRound(s, keys, r) ELSE DesDecryptRound(s, keys, r)
      [] c.cipher = "blowfish" -> IF encrypt THEN BlowfishEncryptRound(s, keys, r) ELSE BlowfishDecryptRound(s, keys, r)
      [] c.cipher = "twofish" -> IF encrypt THEN TwofishEncryptRound(s, keys, r) ELSE TwofishDecryptRound(s, keys, r)
      [] OTHER ->
            IF encrypt THEN SpeckRound(s, keys[r], SpeckOrder(c.cipher))
            ELSE SpeckRoundInverse(s, keys[SPECK_ROUNDS + 1 - r], SpeckOrder(c.cipher))

Left(c, s, keys, encrypt) ==
    CASE c.cipher = "serpent" -> BitPermutation(s, SERPENT_FP)
      [] c.cipher = "des" -> FipsPermute(s, DES_FP, 64)
      [] c.cipher = "blowfish" ->
            IF encrypt THEN BlowfishWhitening(s, keys, 18, 17) ELSE BlowfishWhitening(s, keys, 1, 2)
      [] c.cipher = "twofish" -> TwofishWhitenOut(s, keys, IF encrypt THEN 5 ELSE 1)
      [] OTHER -> s

-----------------------------------------------------------------------------
(***************************************************************************)
(* The steps.                                                              *)
(***************************************************************************)

LoadKey ==
    /\ job.kind = "cipher" /\ job.pc = "load"
    /\ job' = [job EXCEPT !.pc = "derive", !.words = Loaded(job.c)]

DeriveGroup ==
    /\ job.kind = "cipher" /\ job.pc = "derive" /\ job.g < Groups(job.c)
    /\ job' = [job EXCEPT !.words = WithGroup(job.c, @, job.g + 1), !.g = @ + 1]

PublishRoundKeys ==
    /\ job.kind = "cipher" /\ job.pc = "derive" /\ job.g = Groups(job.c)
    /\ LET keys == RoundKeys(job.c, job.words)
       IN  job' = [job EXCEPT !.pc = "encrypt", !.keys = keys, !.words = <<>>, !.s = Entered(job.c, @, keys, TRUE)]

CipherRound ==
    /\ job.kind = "cipher" /\ job.pc \in {"encrypt", "decrypt"} /\ job.r < job.c.rounds
    /\ job' = [job EXCEPT !.s = Round(job.c, @, job.keys, job.r + 1, job.pc = "encrypt"), !.r = @ + 1]

LeaveRounds ==
    /\ job.kind = "cipher" /\ job.pc \in {"encrypt", "decrypt"} /\ job.r = job.c.rounds
    /\ job' = [job EXCEPT !.pc = IF @ = "encrypt" THEN "encrypted" ELSE "done", !.r = 0,
                          !.s = Left(job.c, @, job.keys, job.pc = "encrypt")]

OpenBlock ==
    /\ job.kind = "cipher" /\ job.pc = "encrypted"
    /\ job' = [job EXCEPT !.pc = "decrypt", !.s = Entered(job.c, @, job.keys, FALSE)]

CipherNext == LoadKey \/ DeriveGroup \/ PublishRoundKeys \/ CipherRound \/ LeaveRounds \/ OpenBlock

-----------------------------------------------------------------------------
(***************************************************************************)
(* Properties.                                                             *)
(***************************************************************************)

JustPublished == job.kind = "cipher" /\ job.pc = "encrypt" /\ job.r = 0
JustEncrypted == job.kind = "cipher" /\ job.pc = "encrypted"

\* The round keys of a schedule drawn as steps are those its one-step executor makes,
\* also for rounds the user has duplicated; Speck's and Twofish's are those of their
\* definition on numbers.
ScheduleIsTheExecutors ==
    JustPublished =>
        LET c == job.c
        IN  CASE c.cipher = "aes" ->
                    /\ job.keys = KeyExpansionV2(c.key, c.rounds)
                    /\ ~KeyExpansionThrows(c.key, c.rounds) => job.keys = KeyExpansion(c.key, c.rounds)
              [] c.cipher = "serpent" -> job.keys = SerpentKeyExpansion(c.key)
              [] c.cipher = "des" -> job.keys = DesKeySchedule(c.key)
              [] IsSpeck(c.cipher) -> job.keys = SpeckRecurrence(c.key, SpeckOrder(c.cipher))
              [] c.cipher = "twofish" -> BigEndianNumbers(Joined(job.keys.K)) = TwofishKeySchedule(c.key)
              [] OTHER -> KeyMixedP(c.key) = MixKeyIntoP(c.key)

\* A block comes back from the rounds of decryption, written by hand beside those of
\* encryption with tables typed in beside theirs.
DecryptionRecovers == (job.kind = "cipher" /\ job.pc = "done") => job.s = job.c.block

WholeEncryption(cipher, key, block) ==
    LET keys == SpeckRecurrence(key, SpeckOrder(cipher))
    IN  FoldLeft(LAMBDA s, r : SpeckRound(s, keys[r], SpeckOrder(cipher)), block, Counting(1, SPECK_ROUNDS))

\* The drawn rounds compute the cipher: Serpent's nibbles and typed-in bits what its paper
\* says on words, Blowfish's and Twofish's steps what the oracle's numbers give, and
\* Speck's two orders of bytes one function on blocks turned around.
CiphertextIsTheOracles ==
    JustEncrypted =>
        LET c == job.c
        IN  /\ c.cipher = "serpent" => job.s = SerpentOnWords(job.keys, c.block)
            /\ c.cipher = "blowfish" =>
                 LET n == BigEndianNumbers(c.block)
                 IN  BigEndianNumbers(job.s) = BlowfishEncryptWords(n[1], n[2], job.keys.P, job.keys.S)
            /\ c.cipher = "twofish" => job.s = TwofishEncryptBlock(c.key, job.keys.S, c.block)
            /\ c.cipher = "speck-le" =>
                 Reverse(job.s) = WholeEncryption("speck-be", Reverse(c.key), Reverse(c.block))

DesEncryption(key, block) ==
    LET keys == DesKeySchedule(key)
    IN  FipsPermute(FoldLeft(LAMBDA s, r : DesEncryptRound(s, keys, r), FipsPermute(block, DES_IP, 64), Counting(1, 16)), DES_FP, 64)

\* The bits of key and block all the other way, the bits of the ciphertext are too: no
\* round key gets a bit but from the key, and no key bit enters a round twice.
DesComplements ==
    (JustEncrypted /\ job.c.cipher = "des") => DesEncryption(Not(job.c.key), Not(job.c.block)) = Not(job.s)

=============================================================================
