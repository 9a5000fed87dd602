-------------------------------- MODULE Hashes --------------------------------
(***************************************************************************)
(* The hash functions as the pipelines of src/ciphers. SHA-256: a padded   *)
(* message, a loop over blocks of 64 bytes whose carried value is the      *)
(* chaining value, and in a block a message schedule that looks back over  *)
(* its own words and 64 rounds that read them. SHA3-256, SHAKE, cSHAKE and *)
(* KMAC: the sponge that sponge.ts builds out of the rounds of             *)
(* keccak-f.ts, and the second sponge of keccak-compute.ts, which the      *)
(* lattice steps read a byte at a time.                                    *)
(*                                                                         *)
(* job.ref is the same computation by its definition: for SHA-256 numbers, *)
(* the working variables as the last four entries of two sequences; for    *)
(* Keccak, whose state is 25 lanes of 8 bytes in little-endian order, a    *)
(* word of four 16-bit halves, lowest first, for every x and y.            *)
(***************************************************************************)
EXTENDS Bench, Bytes

CONSTANTS
    Sponges    \* functions with messages and output lengths, which are absorbed apart

-----------------------------------------------------------------------------
(***************************************************************************)
(* SHA-256.                                                                *)
(***************************************************************************)

FromHalves(halves) == FlattenSeq(Row([i \in 1..Len(halves) |-> HalfBytes(halves[i])]))

Sha256K == FromHalves(
    <<\h428a, \h2f98, \h7137, \h4491, \hb5c0, \hfbcf, \he9b5, \hdba5, \h3956, \hc25b, \h59f1, \h11f1,
      \h923f, \h82a4, \hab1c, \h5ed5, \hd807, \haa98, \h1283, \h5b01, \h2431, \h85be, \h550c, \h7dc3,
      \h72be, \h5d74, \h80de, \hb1fe, \h9bdc, \h06a7, \hc19b, \hf174, \he49b, \h69c1, \hefbe, \h4786,
      \h0fc1, \h9dc6, \h240c, \ha1cc, \h2de9, \h2c6f, \h4a74, \h84aa, \h5cb0, \ha9dc, \h76f9, \h88da,
      \h983e, \h5152, \ha831, \hc66d, \hb003, \h27c8, \hbf59, \h7fc7, \hc6e0, \h0bf3, \hd5a7, \h9147,
      \h06ca, \h6351, \h1429, \h2967, \h27b7, \h0a85, \h2e1b, \h2138, \h4d2c, \h6dfc, \h5338, \h0d13,
      \h650a, \h7354, \h766a, \h0abb, \h81c2, \hc92e, \h9272, \h2c85, \ha2bf, \he8a1, \ha81a, \h664b,
      \hc24b, \h8b70, \hc76c, \h51a3, \hd192, \he819, \hd699, \h0624, \hf40e, \h3585, \h106a, \ha070,
      \h19a4, \hc116, \h1e37, \h6c08, \h2748, \h774c, \h34b0, \hbcb5, \h391c, \h0cb3, \h4ed8, \haa4a,
      \h5b9c, \hca4f, \h682e, \h6ff3, \h748f, \h82ee, \h78a5, \h636f, \h84c8, \h7814, \h8cc7, \h0208,
      \h90be, \hfffa, \ha450, \h6ceb, \hbef9, \ha3f7, \hc671, \h78f2>>)
Sha256H == FromHalves(
    <<\h6a09, \he667, \hbb67, \hae85, \h3c6e, \hf372, \ha54f, \hf53a,
      \h510e, \h527f, \h9b05, \h688c, \h1f83, \hd9ab, \h5be0, \hcd19>>)

Split8(s) == SplitBytes(s, Row([i \in 1..8 |-> 4]))
Word(s, t) == ByteSlice(s, 4 * t, 4)
Turned(word, a, b, c) == Xor(<<RotateBitsRight(word, a, 32), RotateBitsRight(word, b, 32), c>>)

-----------------------------------------------------------------------------
(***************************************************************************)
(* The padding.  The length is in bits, of a message below 8192 bytes.     *)
(***************************************************************************)

\* Mutant of PadWithByte: a remainder that leaves no room takes no further block.
PadWithByteInBlock(s, padByte, blockSize, padTarget) ==
    LET free == padTarget - (Len(s) % blockSize) - 1
    IN  s \o <<padByte>> \o Zeros(IF free < 0 THEN free + 8 ELSE free)

PadWithByte(s, padByte, blockSize, padTarget) ==
    s \o <<padByte>> \o Zeros((padTarget - (Len(s) % blockSize) - 1) % blockSize)

AppendBe64Length(data, source) == data \o Zeros(6) \o HalfBytes(8 * Len(source))

ShaPadded(message) == AppendBe64Length(PadWithByte(message, 128, 64, 56), message)

-----------------------------------------------------------------------------
(***************************************************************************)
(* A block.                                                                *)
(***************************************************************************)

\* The body of msg-schedule, over the words so far.
ScheduleWord(w) ==
    LET Prior(k) == w[Len(w) + 1 - k]
        sigma1 == Turned(Prior(2), 17, 19, ShiftBitsRight(Prior(2), 10, 32))
        sigma0 == Turned(Prior(15), 7, 18, ShiftBitsRight(Prior(15), 3, 32))
    IN  AddMod32(<<sigma1, Prior(7), sigma0, Prior(16)>>)

CompressionRound(state, w, t) ==
    LET v == Split8(state)
        Sigma1 == Turned(v[5], 6, 11, RotateBitsRight(v[5], 25, 32))
        Sigma0 == Turned(v[1], 2, 13, RotateBitsRight(v[1], 22, 32))
        Ch == XorRows(AndRows(v[5], v[6]), AndRows(Not(v[5]), v[7]))
        Maj == Xor(<<AndRows(v[1], v[2]), AndRows(v[1], v[3]), AndRows(v[2], v[3])>>)
        T1 == AddMod32(<<v[8], Sigma1, Ch, Word(Sha256K, t), w[t + 1]>>)
        T2 == AddMod32(<<Sigma0, Maj>>)
    IN  Concat(<<AddMod32(<<T1, T2>>), v[1], v[2], v[3], AddMod32(<<v[4], T1>>), v[5], v[6], v[7]>>)

FinalAdd(state, chain) ==
    Concat(Row([i \in 1..8 |-> AddMod32(<<Split8(state)[i], Split8(chain)[i]>>)]))

BlockWords(padded, k) == Row([i \in 1..16 |-> Word(Part(padded, 64 * k, 64), i - 1)])

-----------------------------------------------------------------------------
(***************************************************************************)
(* The definition.                                                         *)
(***************************************************************************)

TurnRight(n, r) == Turn(n, 32 - r)
Sum3(x, y, z) == XorNumbers(XorNumbers(x, y), z)
RefCh(x, y, z) == XorNumbers(z, AndNumbers(x, XorNumbers(y, z)))
RefMaj(x, y, z) == XorNumbers(y, AndNumbers(XorNumbers(x, y), XorNumbers(y, z)))

RefWord(W) ==
    LET n == Len(W) + 1
        s1 == Sum3(TurnRight(W[n - 2], 17), TurnRight(W[n - 2], 19), Drop(W[n - 2], 10))
        s0 == Sum3(TurnRight(W[n - 15], 7), TurnRight(W[n - 15], 18), Drop(W[n - 15], 3))
    IN  Plus(Plus(s1, W[n - 7]), Plus(s0, W[n - 16]))

\* A and E are the sequences whose last four entries are a, b, c, d and e, f, g, h.
RefRound(ref, t) ==
    LET n == Len(ref.A)
        A(k) == ref.A[n + 1 - k]
        E(k) == ref.E[n + 1 - k]
        t1 == Plus(Plus(Plus(E(4), Sum3(TurnRight(E(1), 6), TurnRight(E(1), 11), TurnRight(E(1), 25))),
                        RefCh(E(1), E(2), E(3))),
                   Plus(BigEndianNumbers(Sha256K)[t + 1], ref.W[t + 1]))
        t2 == Plus(Sum3(TurnRight(A(1), 2), TurnRight(A(1), 13), TurnRight(A(1), 22)), RefMaj(A(1), A(2), A(3)))
    IN  [ref EXCEPT !.A = Append(@, Plus(t1, t2)), !.E = Append(@, Plus(A(4), t1))]

Working(ref) ==
    LET n == Len(ref.A)
    IN  Reverse(SubSeq(ref.A, n - 3, n)) \o Reverse(SubSeq(ref.E, n - 3, n))

RefBlock(H, words) ==
    [H |-> H, W |-> words, A |-> Reverse(SubSeq(H, 1, 4)), E |-> Reverse(SubSeq(H, 5, 8))]

-----------------------------------------------------------------------------
(***************************************************************************)
(* A run.                                                                  *)
(***************************************************************************)

ShaBlock(j, padded, k, chain, H) ==
    [j EXCEPT !.blocks = k, !.w = BlockWords(padded, k), !.chain = chain, !.state = chain, !.t = 0,
              !.ref = RefBlock(H, BigEndianNumbers(Part(padded, 64 * k, 64)))]

ShaJob(message) ==
    LET padded == ShaPadded(message)
    IN  ShaBlock([kind |-> "sha-256", message |-> message, padded |-> padded, blocks |-> 0, w |-> <<>>,
                  chain |-> <<>>, state |-> <<>>, t |-> 0, ref |-> <<>>, digest |-> <<>>],
                 padded, 0, Sha256H, BigEndianNumbers(Sha256H))

Schedule ==
    /\ job.kind = "sha-256" /\ Len(job.w) < 64
    /\ job' = [job EXCEPT !.w = Append(@, ScheduleWord(@)), !.ref.W = Append(@, RefWord(@))]

Compress ==
    /\ job.kind = "sha-256" /\ Len(job.w) = 64 /\ job.t < 64
    /\ job' = [job EXCEPT !.t = @ + 1, !.state = CompressionRound(@, job.w, job.t), !.ref = RefRound(@, job.t)]

RefDigest(ref) == Row([i \in 1..8 |-> Plus(Working(ref)[i], ref.H[i])])

NextShaBlock ==
    /\ job.kind = "sha-256" /\ job.t = 64 /\ 64 * (job.blocks + 1) < Len(job.padded)
    /\ job' = ShaBlock(job, job.padded, job.blocks + 1, FinalAdd(job.state, job.chain), RefDigest(job.ref))

EmitDigest ==
    /\ job.kind = "sha-256" /\ job.t = 64 /\ 64 * (job.blocks + 1) = Len(job.padded) /\ job.digest = <<>>
    /\ job' = [job EXCEPT !.digest = FinalAdd(job.state, job.chain)]

ShaNext == Schedule \/ Compress \/ NextShaBlock \/ EmitDigest

-----------------------------------------------------------------------------
(***************************************************************************)
(* Properties.                                                             *)
(***************************************************************************)

\* The words a step of the schedule looks back to, the renamings of a round
\* and the chaining value of a second block are those of the definition, and
\* so is the digest.
ShaIsTheDefinition ==
    job.kind = "sha-256" =>
        /\ BigEndianNumbers(job.state) = Working(job.ref)
        /\ BigEndianNumbers(Concat(job.w)) = job.ref.W
        /\ job.digest # <<>> => BigEndianNumbers(job.digest) = RefDigest(job.ref)

\* The message, a single 1 bit, the fewest zeros that end a block and the
\* length: a message that leaves no room for the length takes a block more,
\* one that leaves just enough does not.
ShaPadsToTheBlock ==
    (job.kind = "sha-256" /\ job.t = 0) =>
        LET n == Len(job.message)
            zeros == Len(job.padded) - n - 9
        IN  /\ zeros \in 0..63 /\ Len(job.padded) % 64 = 0
            /\ SubSeq(job.padded, 1, n + 1) = Append(job.message, 128)
            /\ \A i \in (n + 2)..(n + 1 + zeros) : job.padded[i] = 0
            /\ SubSeq(job.padded, n + 2 + zeros, Len(job.padded)) = Zeros(6) \o HalfBytes(8 * n)

-----------------------------------------------------------------------------
(***************************************************************************)
(* Keccak.                                                                 *)
(***************************************************************************)

Rounds == 24
StateBytes == 200
LaneBytes == 8
LaneStart(x, y) == (x + (5 * y)) * LaneBytes

-----------------------------------------------------------------------------
(***************************************************************************)
(* The permutation.                                                        *)
(***************************************************************************)

RhoOffsets == <<0, 1, 62, 28, 27, 36, 44, 6, 55, 20, 3, 10, 43, 25, 39, 41, 45, 15, 21, 8, 18, 2, 61, 56, 14>>

\* The state with lane k taken from the lane from[k] has coordinates of.
Gather(from) ==
    Joined(Row([k \in 1..25 |-> Row([b \in 1..LaneBytes |-> LaneStart(from[k][1], from[k][2]) + b - 1])]))
AcrossPlane(k) == (k - 1) % 5
DownPlane(k) == (k - 1) \div 5

PiIndices == Gather([k \in 1..25 |-> <<(AcrossPlane(k) + (3 * DownPlane(k))) % 5, AcrossPlane(k)>>])
ChiShift1 == Gather([k \in 1..25 |-> <<(AcrossPlane(k) + 1) % 5, DownPlane(k)>>])
ChiShift2 == Gather([k \in 1..25 |-> <<(AcrossPlane(k) + 2) % 5, DownPlane(k)>>])

\* Bytes 0, 1, 3 and 7 of every round constant; the others are 0.
RcValues ==
    <<<<1, 0, 0, 0>>, <<130, 128, 0, 0>>, <<138, 128, 0, 128>>, <<0, 128, 128, 128>>, <<139, 128, 0, 0>>,
      <<1, 0, 128, 0>>, <<129, 128, 128, 128>>, <<9, 128, 0, 128>>, <<138, 0, 0, 0>>, <<136, 0, 0, 0>>,
      <<9, 128, 128, 0>>, <<10, 0, 128, 0>>, <<139, 128, 128, 0>>, <<139, 0, 0, 128>>, <<137, 128, 0, 128>>,
      <<3, 128, 0, 128>>, <<2, 128, 0, 128>>, <<128, 0, 0, 128>>, <<10, 128, 0, 0>>, <<10, 0, 128, 128>>,
      <<129, 128, 128, 128>>, <<128, 128, 0, 128>>, <<1, 0, 128, 0>>, <<8, 128, 128, 128>>>>
RcBytes == Joined(Row([r \in 1..Rounds |->
    <<RcValues[r][1], RcValues[r][2], 0, RcValues[r][3], 0, 0, 0, RcValues[r][4]>>]))

GetLane(s, x, y) == Part(s, LaneStart(x, y), LaneBytes)
Rotl1(lane) == Reverse(RotateBitsLeft(Reverse(lane), 1, 64))

Columns(s) == Row([x \in 1..5 |-> Xor(Row([y \in 1..5 |-> GetLane(s, x - 1, y - 1)]))])
ThetaLanes(C) == Row([x \in 1..5 |-> XorRows(C[((x + 3) % 5) + 1], Rotl1(C[(x % 5) + 1]))])
EachPlane(D) == Joined(Row([k \in 1..25 |-> D[AcrossPlane(k) + 1]]))
KeccakTheta(s) == XorRows(s, EachPlane(ThetaLanes(Columns(s))))
KeccakRho(s) == RotateLanes(s, 64, RhoOffsets, TRUE)
KeccakPi(s) == Permute(s, PiIndices)
KeccakChi(s) == XorRows(s, AndRows(Not(Permute(s, ChiShift1)), Permute(s, ChiShift2)))

KeccakIota(s, round) ==
    XorRows(SubSeq(s, 1, LaneBytes), Part(RcBytes, round * LaneBytes, LaneBytes))
        \o SubSeq(s, LaneBytes + 1, StateBytes)

\* Every step refuses a state of another length.
KeccakRound(s, round) ==
    IF Len(s) # StateBytes THEN <<>>
    ELSE KeccakIota(KeccakChi(KeccakPi(KeccakRho(KeccakTheta(s)))), round)

\* The rounds from this one on.
RECURSIVE KeccakRounds(_, _)
KeccakRounds(s, round) ==
    IF round = Rounds \/ s = <<>> THEN s ELSE KeccakRounds(KeccakRound(s, round), round + 1)
KeccakPermuteBytes(s) == KeccakRounds(s, 0)

-----------------------------------------------------------------------------
(***************************************************************************)
(* Padding and the encodings of SP 800-185, of numbers below 2^24.         *)
(***************************************************************************)

KeccakPad(s, rate, domainByte) ==
    LET padded == s \o <<domainByte>> \o Zeros(rate - (Len(s) % rate) - 1)
    IN  [padded EXCEPT ![Len(padded)] = XorTable[@][128]]

MinimalBigEndian(x) ==
    IF x < 256 THEN <<x>> ELSE IF x < 65536 THEN HalfBytes(x) ELSE <<x \div 65536>> \o HalfBytes(x % 65536)
LeftEncode(x) == <<Len(MinimalBigEndian(x))>> \o MinimalBigEndian(x)
RightEncode(x) == MinimalBigEndian(x) \o <<Len(MinimalBigEndian(x))>>

EncodeString(s) == LeftEncode(8 * Len(s)) \o s
Bytepad(s, w) ==
    LET body == LeftEncode(w) \o s
    IN  body \o Zeros((w - (Len(body) % w)) % w)

-----------------------------------------------------------------------------
(***************************************************************************)
(* The sponge at once, as the steps of the lattice schemes compute it.     *)
(***************************************************************************)

\* absorb-split, absorb-xor and absorb.
Absorbed(state, block, rate) ==
    LET parts == SplitBytes(state, <<rate, StateBytes - rate>>)
    IN  Concat(<<XorRows(parts[1], block), parts[2]>>)

RECURSIVE Absorbing(_, _, _)
Absorbing(s, padded, rate) ==
    IF padded = <<>> THEN s
    ELSE Absorbing(KeccakPermuteBytes(Absorbed(s, SubSeq(padded, 1, rate), rate)),
                   SubSeq(padded, rate + 1, Len(padded)), rate)

RECURSIVE Squeezing(_, _, _)
Squeezing(s, rate, outputBytes) ==
    IF outputBytes <= rate THEN SubSeq(s, 1, outputBytes)
    ELSE SubSeq(s, 1, rate) \o Squeezing(KeccakPermuteBytes(s), rate, outputBytes - rate)

KeccakSponge(message, rate, domainByte, outputBytes) ==
    Squeezing(Absorbing(Zeros(StateBytes), KeccakPad(message, rate, domainByte), rate), rate, outputBytes)

Sha3of256(message) == KeccakSponge(message, 136, 6, 32)
Sha3of512(message) == KeccakSponge(message, 72, 6, 64)
Shake128(message, outputBytes) == KeccakSponge(message, 168, 31, outputBytes)
Shake256(message, outputBytes) == KeccakSponge(message, 136, 31, outputBytes)

-----------------------------------------------------------------------------
(***************************************************************************)
(* The functions: f.name with a customization f.S and, for KMAC, f.key.    *)
(***************************************************************************)

RateOf(name) ==
    IF name \in {"shake128", "cshake128", "kmac128", "kmacxof128"} THEN 168 ELSE 136
IsXof(name) == name \in {"kmacxof128", "kmacxof256"}
Keyed(name) == name \in {"kmac128", "kmac256"} \/ IsXof(name)
Customized(f) == f.name \in {"cshake128", "cshake256"} /\ f.S # <<>>
KmacName == <<75, 77, 65, 67>>

DomainByte(f) ==
    IF f.name = "sha3-256" THEN 6 ELSE IF Keyed(f.name) \/ Customized(f) THEN 4 ELSE 31

Prefix(N, S, rate) == Bytepad(Concat(<<EncodeString(N), EncodeString(S)>>), rate)

\* The application never names a function of its own: N is empty but for KMAC.
AbsorbedInput(f, message, outputLength) ==
    LET rate == RateOf(f.name)
    IN  IF Keyed(f.name)
        THEN Concat(<<Prefix(KmacName, f.S, rate), Bytepad(EncodeString(f.key), rate), message,
                      RightEncode(IF IsXof(f.name) THEN 0 ELSE 8 * outputLength)>>)
        ELSE IF Customized(f) THEN Concat(<<Prefix(<<>>, f.S, rate), message>>) ELSE message

SpongeInput(f, message, outputLength) ==
    KeccakPad(AbsorbedInput(f, message, outputLength), RateOf(f.name), DomainByte(f))

-----------------------------------------------------------------------------
(***************************************************************************)
(* The definition: lanes by their coordinates.                             *)
(***************************************************************************)

Plane == (0..4) \X (0..4)
LaneXor(v, w) == Row([i \in 1..4 |-> XorHalves(v[i], w[i])])
LaneAnd(v, w) == Row([i \in 1..4 |-> AndHalves(v[i], w[i])])
LaneNot(v) == Row([i \in 1..4 |-> 65535 - v[i]])
LaneTurn(v, n) ==
    LET q == n \div 16  r == n % 16
        Half16(i) == v[((i - q + 7) % 4) + 1]
    IN  Row([i \in 1..4 |-> ((Half16(i) * 2^r) % 65536) + (Half16(i - 1) \div (2^(16 - r)))])

Lanes(s) ==
    [xy \in Plane |-> LET lane == GetLane(s, xy[1], xy[2])
                      IN  Row([i \in 1..4 |-> lane[(2 * i) - 1] + (256 * lane[2 * i])])]

\* The walk (x, y) -> (y, 2x + 3y) visits every lane but the first.
Walk == FoldLeft(LAMBDA w, t : Append(w, <<w[t][2], ((2 * w[t][1]) + (3 * w[t][2])) % 5>>), <<<<1, 0>>>>, Row([t \in 1..23 |-> t]))
WalkOffset == [xy \in Plane |->
    IF xy = <<0, 0>> THEN 0 ELSE LET t == CHOOSE t \in 1..24 : Walk[t] = xy IN ((t * (t + 1)) \div 2) % 64]

\* The register x^8 + x^6 + x^5 + x^4 + 1 and its output bits.
Register == FoldLeft(LAMBDA out, t :
        LET r == out[t]  feedback == (r \div 128) % 2
            shifted == (2 * r) % 256
        IN  Append(out, IF feedback = 1 THEN XorTable[shifted][113] ELSE shifted),
    <<1>>, Row([t \in 1..167 |-> t]))
RefRc(round) ==
    LET Bit(j) == Register[j + (7 * round) + 1] % 2
    IN  <<Bit(0) + (2 * Bit(1)) + (8 * Bit(2)) + (128 * Bit(3)) + (32768 * Bit(4)), 32768 * Bit(5), 0, 32768 * Bit(6)>>

\* The lanes row by row, so that TLC evaluates each of them, and once.
LaneRows(A) == Row([y \in 1..5 |-> Row([x \in 1..5 |-> A[<<x - 1, y - 1>>]])])
Evaluated(rows) == [xy \in Plane |-> rows[xy[2] + 1][xy[1] + 1]]

Parity(A, x) == LaneXor(A[<<x, 0>>], LaneXor(LaneXor(A[<<x, 1>>], A[<<x, 2>>]), LaneXor(A[<<x, 3>>], A[<<x, 4>>])))
RefTheta(A, parity) ==
    Evaluated(LaneRows([xy \in Plane |->
        LaneXor(A[xy], LaneXor(parity[((xy[1] + 4) % 5) + 1], LaneTurn(parity[((xy[1] + 1) % 5) + 1], 1)))]))
LaneFrom(xy) == <<(xy[1] + (3 * xy[2])) % 5, xy[1]>>
RefRhoPi(A) == Evaluated(LaneRows([xy \in Plane |-> LaneTurn(A[LaneFrom(xy)], WalkOffset[LaneFrom(xy)])]))
RefChi(B) ==
    Evaluated(LaneRows([xy \in Plane |->
        LaneXor(B[xy], LaneAnd(LaneNot(B[<<(xy[1] + 1) % 5, xy[2]>>]), B[<<(xy[1] + 2) % 5, xy[2]>>]))]))
RefKeccakRound(A, round) ==
    [RefChi(RefRhoPi(RefTheta(A, Row([x \in 1..5 |-> Parity(A, x - 1)]))))
        EXCEPT ![<<0, 0>>] = LaneXor(@, RefRc(round))]

-----------------------------------------------------------------------------
(***************************************************************************)
(* A run: the padded input is absorbed block by block, the output squeezed *)
(* block by block and cut.  A SHAKE is then read again through the lazy    *)
(* reader, which keeps the state it had after absorbing.                   *)
(***************************************************************************)

\* The digest of SHA3-256 has the one length.
Requested(f, outputLength) == IF f.name = "sha3-256" THEN 32 ELSE outputLength

SpongeJob(f, message, outputLength) ==
    [kind |-> "sponge", f |-> f, message |-> message, request |-> Requested(f, outputLength),
     padded |-> SpongeInput(f, message, outputLength), blocks |-> 0, squeezed |-> 0,
     pc |-> "absorb", round |-> 0, state |-> Zeros(StateBytes), ref |-> Lanes(Zeros(StateBytes)),
     absorbed |-> <<>>, out |-> <<>>, block |-> <<>>, pos |-> 0, consumed |-> 0, fetched |-> 0]

Rate(j) == RateOf(j.f.name)

Absorb ==
    /\ job.kind = "sponge" /\ job.pc = "absorb" /\ Rate(job) * job.blocks < Len(job.padded)
    /\ LET state == Absorbed(job.state, Part(job.padded, Rate(job) * job.blocks, Rate(job)), Rate(job))
       IN  job' = [job EXCEPT !.blocks = @ + 1, !.pc = "permute", !.round = 0, !.state = state, !.ref = Lanes(state)]

Permutation ==
    /\ job.kind = "sponge" /\ job.pc = "permute" /\ job.round < Rounds
    /\ job' = [job EXCEPT !.round = @ + 1, !.state = KeccakRound(@, job.round), !.ref = RefKeccakRound(@, job.round),
                  !.pc = IF job.round + 1 < Rounds THEN "permute"
                         ELSE IF Rate(job) * job.blocks < Len(job.padded) THEN "absorb" ELSE "squeeze"]

NumBlocks(j) == (j.request + Rate(j) - 1) \div Rate(j)

Squeeze ==
    /\ job.kind = "sponge" /\ job.pc = "squeeze" /\ job.squeezed < NumBlocks(job)
    /\ job' = [job EXCEPT !.squeezed = @ + 1, !.out = @ \o ByteSlice(job.state, 0, Rate(job)),
                  !.absorbed = IF @ = <<>> THEN job.state ELSE @,
                  !.round = 0, !.pc = IF job.squeezed + 1 < NumBlocks(job) THEN "permute" ELSE "squeeze"]

Truncate ==
    /\ job.kind = "sponge" /\ job.pc = "squeeze" /\ job.squeezed = NumBlocks(job)
    /\ job' = [job EXCEPT !.pc = "read", !.out = ByteSlice(@, 0, job.request), !.state = job.absorbed]

Readable(f) == f.name \in {"shake128", "shake256"}

\* The state a reader cuts its next block from.
NextBlockOfReader(state, fetched) == IF fetched = 0 THEN state ELSE KeccakPermuteBytes(state)

ReadByte ==
    /\ job.kind = "sponge" /\ job.pc = "read" /\ Readable(job.f) /\ job.consumed < job.request
    /\ LET state == NextBlockOfReader(job.state, job.fetched)
       IN  job' = IF job.pos >= Len(job.block)
                  THEN [job EXCEPT !.state = state, !.block = SubSeq(state, 1, Rate(job)), !.fetched = @ + 1,
                                   !.pos = 1, !.consumed = @ + 1]
                  ELSE [job EXCEPT !.pos = @ + 1, !.consumed = @ + 1]

SpongeNext == Absorb \/ Permutation \/ Squeeze \/ Truncate \/ ReadByte

-----------------------------------------------------------------------------
(***************************************************************************)
(* Properties.                                                             *)
(***************************************************************************)

\* What decides an output, but for how many bytes of it are cut: of no
\* customization cSHAKE is SHAKE, and KMAC binds the length of its output.
Meaning(f, message, outputLength) ==
    <<RateOf(f.name), DomainByte(f), Keyed(f.name), IsXof(f.name), f.S, f.key, message,
      IF Keyed(f.name) /\ ~IsXof(f.name) THEN outputLength ELSE 0>>

SpongeInputs == [c \in Sponges |-> SpongeInput(c.f, c.message, c.request)]

\* Two functions absorb the same bytes at the same rate exactly when they are
\* asked for the same thing: no key, customization, message or output length
\* can run into its neighbour, whatever is at the seam and at the padding's.
AbsorbsApart ==
    (job.kind = "sponge" /\ job.pc = "absorb" /\ job.blocks = 0) =>
        \A c \in Sponges :
            (RateOf(c.f.name) = Rate(job) /\ SpongeInputs[c] = job.padded)
                <=> Meaning(c.f, c.message, c.request) = Meaning(job.f, job.message, job.request)

\* The byte indices, the lanes' byte order, the offsets and the constants of
\* the table make up the permutation of the definition, round by round.
KeccakIsTheDefinition ==
    (job.kind = "sponge" /\ job.pc \in {"permute", "absorb"}) => Lanes(job.state) = job.ref

\* A byte stream over the lazy reader gives the bytes of the output the
\* pipeline squeezes at once, across the end of a block, and permutes the
\* state no more often than the bytes taken require.
ReaderReadsTheOutput ==
    (job.kind = "sponge" /\ job.pc = "read" /\ job.consumed > 0) =>
        /\ job.block[job.pos] = job.out[job.consumed]
        /\ job.fetched = (job.consumed + Rate(job) - 1) \div Rate(job)

=============================================================================
