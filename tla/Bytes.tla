-------------------------------- MODULE Bytes ---------------------------------
(***************************************************************************)
(* The steps of src/steps that work on rows of bytes, and the arithmetic   *)
(* of src/core they share. A row is a sequence of bytes, a word is a row   *)
(* of 1, 2, 4 or 8 bytes in big-endian order. A step that can throw has a  *)
(* predicate that says when.                                               *)
(***************************************************************************)
EXTENDS Integers, Sequences, SequencesExt, FiniteSetsExt, Bench

Byte == 0..255

\* A sequence; concatenation makes TLC evaluate each of its entries, and once.
Row(s) == s \o <<>>
Part(s, offset, n) == SubSeq(s, offset + 1, offset + n)
Zeros(n) == Row([i \in 1..n |-> 0])

\* Rows of one length, one after another.
Joined(rows) ==
    IF rows = <<>> THEN <<>>
    ELSE LET w == Len(rows[1]) IN Row([i \in 1..Len(rows) * w |-> rows[((i - 1) \div w) + 1][((i - 1) % w) + 1]])
Chunks(s, width, Op(_)) == Row([k \in 1..Len(s) \div width |-> Op(Part(s, (k - 1) * width, width))])
EachRow(s, width, Op(_)) == Joined(Chunks(s, width, Op))
WordReverse(s) == EachRow(s, 4, Reverse)

-----------------------------------------------------------------------------
(***************************************************************************)
(* Bits.                                                                   *)
(***************************************************************************)

BitAt(b, k) == (b \div (2^k)) % 2
BitSum(Bit(_)) == Bit(0) + 2 * Bit(1) + 4 * Bit(2) + 8 * Bit(3)
Nibbles == [a \in 0..15 |-> [b \in 0..15 |->
    BitSum(LAMBDA k : (BitAt(a, k) + BitAt(b, k)) % 2)]]
XorTable == [a \in Byte |-> [b \in Byte |->
    16 * Nibbles[a \div 16][b \div 16] + Nibbles[a % 16][b % 16]]]
AndTable == [a \in Byte |-> [b \in Byte |-> (a + b - XorTable[a][b]) \div 2]]

SameLengths(operands) == \A k \in DOMAIN operands : Len(operands[k]) = Len(operands[1])

XorRows(a, b) == Row([i \in 1..Len(a) |-> XorTable[a[i]][b[i]]])
AndRows(a, b) == Row([i \in 1..Len(a) |-> AndTable[a[i]][b[i]]])
Xor(operands) == FoldLeft(XorRows, operands[1], Tail(operands))
And(operands) == FoldLeft(AndRows, operands[1], Tail(operands))
Not(s) == Row([i \in 1..Len(s) |-> 255 - s[i]])
XorWithAux(input, operand) == XorRows(input, operand)
ByteSubstitute(s, sbox) == Row([i \in 1..Len(s) |-> sbox[s[i]]])

-----------------------------------------------------------------------------
(***************************************************************************)
(* Rows cut, joined and reordered.  Indices of a step's parameters count   *)
(* from 0.                                                                 *)
(***************************************************************************)

PermuteThrows(s, indices) == \E i \in DOMAIN indices : indices[i] >= Len(s)
Permute(s, indices) == Row([i \in 1..Len(indices) |-> s[indices[i] + 1]])
Concat(operands) == FlattenSeq(operands)

Before(widths, k) == FoldLeft(+, 0, SubSeq(widths, 1, k - 1))
SplitThrows(s, widths) == Len(s) # Before(widths, Len(widths) + 1)
SplitBytes(s, widths) == Row([k \in 1..Len(widths) |-> Part(s, Before(widths, k), widths[k])])
ByteSlice(s, offset, n) == Part(s, offset, n)

TruncateThrows(s, reference) == Len(reference) > Len(s)
TruncateToReference(s, reference) == SubSeq(s, 1, Len(reference))

-----------------------------------------------------------------------------
(***************************************************************************)
(* Words.  A rotation or a shift by 8q + r bits moves whole bytes by q and *)
(* takes each byte from two neighbours.                                    *)
(***************************************************************************)

WordThrows(s, wordBits) == (8 * Len(s)) % wordBits # 0

Ror(word, n) ==
    LET At(j) == word[((j - 1) % Len(word)) + 1]
        q == n \div 8
        r == n % 8
    IN  Row([i \in 1..Len(word) |-> (At(i - q) \div (2^r)) + ((At(i - q - 1) * 2^(8 - r)) % 256)])

Shr(word, n) ==
    LET At(j) == IF j < 1 THEN 0 ELSE word[j]
        q == n \div 8
        r == n % 8
    IN  Row([i \in 1..Len(word) |-> (At(i - q) \div (2^r)) + ((At(i - q - 1) * 2^(8 - r)) % 256)])

Shl(word, n) ==
    LET At(j) == IF j > Len(word) THEN 0 ELSE word[j]
        q == n \div 8
        r == n % 8
    IN  Row([i \in 1..Len(word) |-> ((At(i + q) * 2^r) % 256) + (At(i + q + 1) \div (2^(8 - r)))])

RotateBitsRight(s, bits, wordBits) ==
    EachRow(s, wordBits \div 8, LAMBDA word : Ror(word, bits % wordBits))

RotateBitsLeft(s, bits, wordBits) ==
    EachRow(s, wordBits \div 8, LAMBDA word : Ror(word, (wordBits - (bits % wordBits)) % wordBits))

ShiftBitsRight(s, bits, wordBits) ==
    IF bits >= wordBits THEN Zeros(Len(s)) ELSE EachRow(s, wordBits \div 8, LAMBDA word : Shr(word, bits))
ShiftBitsLeft(s, bits, wordBits) ==
    IF bits >= wordBits THEN Zeros(Len(s)) ELSE EachRow(s, wordBits \div 8, LAMBDA word : Shl(word, bits))

\* A lane each with its own rotation to the left; Reverse is the little-endian codec.
RotateLanesThrows(s, wordBits, offsets) ==
    WordThrows(s, wordBits) \/ (8 * Len(s)) \div wordBits # Len(offsets)
Lane(s, wordBits, k) == Part(s, (k - 1) * (wordBits \div 8), wordBits \div 8)
RotateLanes(s, wordBits, offsets, littleEndian) ==
    LET Codec(lane) == IF littleEndian THEN Reverse(lane) ELSE lane
    IN  Joined(Row([k \in 1..Len(offsets) |->
            Codec(RotateBitsLeft(Codec(Lane(s, wordBits, k)), offsets[k], wordBits))]))

\* Sums that wrap at the width of the word, in halves of 16 bits with a carry.
Half(s) == 256 * s[1] + s[2]
HalfBytes(n) == <<(n \div 256) % 256, n % 256>>
SumOf(operands, offset) == FoldLeft(LAMBDA sum, row : sum + Half(Part(row, offset, 2)), 0, operands)

AddMod16(operands) ==
    Joined(Row([k \in 1..Len(operands[1]) \div 2 |-> HalfBytes(SumOf(operands, 2 * (k - 1)))]))

AddMod32(operands) ==
    Joined(Row([k \in 1..Len(operands[1]) \div 4 |->
        LET low == SumOf(operands, (4 * (k - 1)) + 2)
        IN  HalfBytes(SumOf(operands, 4 * (k - 1)) + (low \div 65536)) \o HalfBytes(low)]))

IncrementCounter(c) ==
    Row([p \in 1..Len(c) |->
        IF \A q \in (p + 1)..Len(c) : c[q] = 255 THEN (c[p] + 1) % 256 ELSE c[p]])

-----------------------------------------------------------------------------
(***************************************************************************)
(* Words of 32 bits as numbers <<high half, low half>>, for the            *)
(* definitions the pipelines are compared with.                            *)
(***************************************************************************)

\* Of a word in little-endian order, and back.
Number(s) == <<s[3] + (256 * s[4]), s[1] + (256 * s[2])>>
NumberBytes(n) == <<n[2] % 256, n[2] \div 256, n[1] % 256, n[1] \div 256>>
Plus(m, n) == <<(m[1] + n[1] + ((m[2] + n[2]) \div 65536)) % 65536, (m[2] + n[2]) % 65536>>
XorHalves(x, y) == (256 * XorTable[x \div 256][y \div 256]) + XorTable[x % 256][y % 256]
XorNumbers(m, n) == <<XorHalves(m[1], n[1]), XorHalves(m[2], n[2])>>
TurnLess(n, r) == <<((n[1] * 2^r) % 65536) + (n[2] \div (2^(16 - r))), ((n[2] * 2^r) % 65536) + (n[1] \div (2^(16 - r)))>>
Turn(n, r) == IF r < 16 THEN TurnLess(n, r) ELSE TurnLess(<<n[2], n[1]>>, r - 16)
AndHalves(x, y) == (256 * AndTable[x \div 256][y \div 256]) + AndTable[x % 256][y % 256]
AndNumbers(m, n) == <<AndHalves(m[1], n[1]), AndHalves(m[2], n[2])>>
Drop(n, r) == <<n[1] \div (2^r), (n[2] \div (2^r)) + ((n[1] * 2^(16 - r)) % 65536)>>

\* A row of words in big-endian order as numbers.
BigEndianNumbers(s) == EachRow(s, 4, LAMBDA w : <<Number(Reverse(w))>>)

-----------------------------------------------------------------------------
(***************************************************************************)
(* GF(2^8) and its 4 by 4 matrices: src/core/state/matrix.ts and gf-       *)
(* matrix.ts, and the steps gf-matrix-multiply@1 and @2. The inverse of a  *)
(* matrix is a computation of its own, a column to a step: the editor of a *)
(* matrix derives the decryption matrix with it.                           *)
(***************************************************************************)

AesModulus == 283

\* x times the generator; poly & 0xff is what a carry out of the byte adds.
Double(x, modulus) == IF x >= 128 THEN XorTable[(2 * x) % 256][modulus % 256] ELSE 2 * x
Xtime(x) == Double(x, AesModulus)

RECURSIVE GfMulPoly(_, _, _)
GfMulPoly(a, b, modulus) ==
    IF b = 0 THEN 0
    ELSE LET rest == GfMulPoly(Double(a, modulus), b \div 2, modulus)
         IN  IF b % 2 = 1 THEN XorTable[a][rest] ELSE rest
GfMul(a, b) == GfMulPoly(a, b, AesModulus)

InverseTable == [a \in 1..255 |-> CHOOSE b \in 1..255 : GfMul(a, b) = 1]

XorAll(s) == FoldLeft(LAMBDA a, b : XorTable[a][b], 0, s)

\* Columns of four bytes, each multiplied by the matrix on the left.
GfMatrixMultiply(s, matrix, modulus) ==
    EachRow(s, 4, LAMBDA column : Row([r \in 1..4 |->
        XorAll(Row([c \in 1..4 |-> GfMulPoly(matrix[r][c], column[c], modulus)]))]))

GfMatMul4x4(a, b) ==
    Row([r \in 1..4 |-> Row([c \in 1..4 |-> XorAll(Row([n \in 1..4 |-> GfMul(a[r][n], b[n][c])]))])])

Identity == Row([r \in 1..4 |-> Row([c \in 1..4 |-> IF r = c THEN 1 ELSE 0])])

-----------------------------------------------------------------------------
(***************************************************************************)
(* gfMatInverse4x4: Gauss-Jordan elimination on the matrix with the        *)
(* identity to its right.                                                  *)
(***************************************************************************)

InverseJob(matrix) ==
    [kind |-> "inverse", matrix |-> matrix, pc |-> "run", column |-> 1,
     aug |-> Row([r \in 1..4 |-> matrix[r] \o Identity[r]])]

Pivots(aug, c) == {r \in c..4 : aug[r][c] # 0}

Swapped(aug, r, c) == [aug EXCEPT ![c] = aug[r], ![r] = aug[c]]

Scaled(row, factor) == Row([n \in 1..8 |-> GfMul(row[n], factor)])
Eliminated(aug, c) ==
    LET pivot == Scaled(aug[c], InverseTable[aug[c][c]])
    IN  Row([r \in 1..4 |-> IF r = c THEN pivot ELSE XorRows(aug[r], Scaled(pivot, aug[r][c]))])

EliminateColumn ==
    /\ job.kind = "inverse" /\ job.pc = "run" /\ job.column <= 4
    /\ Pivots(job.aug, job.column) # {}
    /\ LET r == Min(Pivots(job.aug, job.column))
       IN  job' = [job EXCEPT !.aug = Eliminated(Swapped(@, r, job.column), job.column),
                              !.column = @ + 1]

\* The editor of a matrix refuses one without an inverse.
RefuseSingular ==
    /\ job.kind = "inverse" /\ job.pc = "run" /\ job.column <= 4
    /\ Pivots(job.aug, job.column) = {}
    /\ job' = [job EXCEPT !.pc = "singular"]

ReadInverse ==
    /\ job.kind = "inverse" /\ job.pc = "run" /\ job.column = 5
    /\ job' = [job EXCEPT !.pc = "done"]

GaloisNext == EliminateColumn \/ RefuseSingular \/ ReadInverse

-----------------------------------------------------------------------------
(***************************************************************************)
(* Properties.                                                             *)
(***************************************************************************)

Inverse4x4(aug) == Row([r \in 1..4 |-> SubSeq(aug[r], 5, 8)])

\* Expansion along the first row; in characteristic 2 it has no signs.
RECURSIVE Determinant(_)
Determinant(m) ==
    IF Len(m) = 1 THEN m[1][1]
    ELSE XorAll(Row([c \in 1..Len(m) |->
            GfMul(m[1][c], Determinant(Row([r \in 1..Len(m) - 1 |-> RemoveAt(m[r + 1], c)])))]))

\* The matrix the editor derives is an inverse on both sides, and only a matrix
\* without one is refused, whichever rows had to be exchanged on the way.
InverseIsInverse ==
    job.kind = "inverse" =>
        /\ job.pc = "done" =>
              /\ GfMatMul4x4(job.matrix, Inverse4x4(job.aug)) = Identity
              /\ GfMatMul4x4(Inverse4x4(job.aug), job.matrix) = Identity
        /\ job.pc = "singular" => Determinant(job.matrix) = 0

=============================================================================
