-------------------------------- MODULE MlKem ---------------------------------
(***************************************************************************)
(* The steps of src/steps on vectors of numbers modulo q and the number    *)
(* theoretic transform that src/ciphers/ntt-3329-256.ts draws out of them, *)
(* for ML-KEM and, with the profile of ntt-8380417-256.ts, for ML-DSA; and *)
(* ML-KEM over K-PKE, the pipelines that k-pke.ts and ml-kem-768.ts build  *)
(* for key generation, encapsulation and decapsulation.                    *)
(*                                                                         *)
(* A coefficient is a number: its bytes are only spelled where the code    *)
(* packs bits. A profile p has the modulus p.q, the polynomial's length    *)
(* p.n, the number p.layers of layers and a root of unity p.zeta. Bytes    *)
(* and hashes are the real ones, the polynomials are as long as the        *)
(* profile says: a message has one bit for a coefficient.                  *)
(***************************************************************************)
EXTENDS Bench, Bytes, Hashes

CONSTANTS
    Transforms,   \* profiles with two polynomials to multiply
    Codecs,       \* profiles with widths of encodings
    Kem,          \* the profile: q, n, layers, zeta, k, eta1, eta2, du, dv
    Seeds         \* of a key pair, with a message and the byte of the ciphertext that changes

-----------------------------------------------------------------------------
(***************************************************************************)
(* Vectors and the transform.                                              *)
(***************************************************************************)

-----------------------------------------------------------------------------
(***************************************************************************)
(* Vectors.                                                                *)
(***************************************************************************)

VecAdd(a, b, q) == Row([i \in 1..Len(a) |-> (a[i] + b[i]) % q])
VecSub(a, b, q) == Row([i \in 1..Len(a) |-> (a[i] - b[i]) % q])
VecMul(a, b, q) == Row([i \in 1..Len(a) |-> (a[i] * b[i]) % q])
VecMulScalar(a, s, q) == Row([i \in 1..Len(a) |-> (a[i] * s) % q])

CentredMagnitude(v, q) == IF v > q \div 2 THEN q - v ELSE v
InfNorm(a, q) == FoldLeft(LAMBDA norm, v : LET m == CentredMagnitude(v, q) IN IF m > norm THEN m ELSE norm, 0, a)

\* A product of pairs modulo x^2 - gamma, where the transform stops at pairs.
BaseCaseMul(a, b, gammas, q) ==
    Joined(Row([i \in 1..Len(a) \div 2 |->
        LET a0 == a[(2 * i) - 1]  a1 == a[2 * i]  b0 == b[(2 * i) - 1]  b1 == b[2 * i]
        IN  <<(((a1 * b1) % q) * gammas[i] + (a0 * b0)) % q, ((a0 * b1) + (a1 * b0)) % q>>]))

-----------------------------------------------------------------------------
(***************************************************************************)
(* Rejection: candidates are passed over until count are accepted.         *)
(***************************************************************************)

FirstFrom(candidates, at, Ok(_)) ==
    CHOOSE i \in at..Len(candidates) : Ok(candidates[i]) /\ \A j \in at..(i - 1) : ~Ok(candidates[j])
Accepted(candidates, count, Ok(_)) ==
    LET Next1(got, t) ==
            LET at == FirstFrom(candidates, got.at, Ok)
            IN  [at |-> at + 1, out |-> Append(got.out, candidates[at])]
    IN  FoldLeft(Next1, [at |-> 1, out |-> <<>>], Row([t \in 1..count |-> t])).out

-----------------------------------------------------------------------------
(***************************************************************************)
(* Bits.  The least significant bit of a number comes first, in the least  *)
(* significant bit of a byte.                                              *)
(***************************************************************************)

ToBits(v, width) == Row([j \in 1..width |-> (v \div (2^(j - 1))) % 2])
FromBits(bits) == FoldRight(LAMBDA bit, v : bit + (2 * v), bits, 0)
PackNumbers(v, width) == Chunks(Joined(Row([i \in 1..Len(v) |-> ToBits(v[i], width)])), 8, FromBits)
UnpackNumbers(bytes, width) == Chunks(Joined(Row([i \in 1..Len(bytes) |-> ToBits(bytes[i], 8)])), width, FromBits)

\* The numbers an encoding of width d can hold.
CodeModulus(d, q) == IF 2^d < q THEN 2^d ELSE q

ByteEncodeThrows(v, d, q) == \E i \in DOMAIN v : v[i] >= CodeModulus(d, q)
ByteEncode(v, d) == PackNumbers(v, d)
ByteDecode(bytes, d, q) ==
    LET v == UnpackNumbers(bytes, d) IN Row([i \in 1..Len(v) |-> v[i] % CodeModulus(d, q)])

ZqCompress(v, d, q) == Row([i \in 1..Len(v) |-> (((2 * (2^d) * v[i]) + q) \div (2 * q)) % (2^d)])
ZqDecompress(v, d, q) == Row([i \in 1..Len(v) |-> (((2 * q * v[i]) + 2^d) \div (2 * 2^d)) % q])

\* The difference of the sums of eta bits and of the next eta bits.
Cbd(bytes, eta, q) ==
    LET Ones(bits) == FoldLeft(+, 0, bits)
    IN  Chunks(Joined(Row([i \in 1..Len(bytes) |-> ToBits(bytes[i], 8)])), 2 * eta,
               LAMBDA bits : (Ones(SubSeq(bits, 1, eta)) - Ones(SubSeq(bits, eta + 1, 2 * eta))) % q)

-----------------------------------------------------------------------------
(***************************************************************************)
(* The tables of a profile.                                                *)
(***************************************************************************)

Pow(b, e, q) == FoldLeft(LAMBDA r, i : (r * b) % q, 1, Row([i \in 1..e |-> i]))
BitRev(k, bits) == FromBits(Reverse(ToBits(k, bits)))

\* The ring of a profile with what the constants of the code tabulate for it.
Ring(q, n, layers, zeta) ==
    [q |-> q, n |-> n, layers |-> layers,
     zetas |-> Row([k \in 1..2^layers |-> Pow(zeta, BitRev(k - 1, layers), q)]),
     gammas |-> Row([i \in 1..2^layers |-> Pow(zeta, (2 * BitRev(i - 1, layers)) + 1, q)]),
     ninv |-> CHOOSE x \in 1..(q - 1) : (x * (2^layers)) % q = 1]
StopsAtPairs(p) == 2^p.layers < p.n

LayerLen(k, p) == p.n \div (2^k)

-----------------------------------------------------------------------------
(***************************************************************************)
(* The layers as they are drawn: each is a loop over blocks of two halves, *)
(* and a cursor of zetas travels with it from block to block and on to the *)
(* next layer.  A body gives the new block and the new cursor.             *)
(***************************************************************************)

Halves(block) == SplitBytes(block, <<Len(block) \div 2, Len(block) \div 2>>)

ForwardLayerBody(block, cursor, q) ==
    LET half == Halves(block)
        zeta == SplitBytes(cursor, <<1, Len(cursor) - 1>>)
        twist == VecMulScalar(half[2], zeta[1][1], q)
    IN  [out |-> Concat(<<VecAdd(half[1], twist, q), VecSub(half[1], twist, q)>>),
         cursor |-> Concat(<<zeta[2], zeta[1]>>)]

InverseLayerBody(block, cursor, q) ==
    LET half == Halves(block)
        zeta == SplitBytes(cursor, <<Len(cursor) - 1, 1>>)
    IN  [out |-> Concat(<<VecAdd(half[1], half[2], q), VecMulScalar(VecSub(half[2], half[1], q), zeta[2][1], q)>>),
         cursor |-> Concat(<<zeta[2], zeta[1]>>)]

\* A layer at once.
Layer(Body(_, _, _), w, cursor, len, q) ==
    FoldLeft(LAMBDA r, block :
            LET b == Body(block, r.cursor, q) IN [out |-> r.out \o b.out, cursor |-> b.cursor],
        [out |-> <<>>, cursor |-> cursor], Chunks(w, 2 * len, LAMBDA block : block))

\* The forward direction starts past the first zeta.
RotatedTable(p) == LET zeta == SplitBytes(p.zetas, <<1, 2^p.layers - 1>>) IN Concat(<<zeta[2], zeta[1]>>)

NttNodes(w, p) ==
    FoldLeft(LAMBDA r, k : Layer(ForwardLayerBody, r.out, r.cursor, LayerLen(k, p), p.q),
             [out |-> w, cursor |-> RotatedTable(p)], Row([k \in 1..p.layers |-> k])).out
InttNodes(w, p) ==
    VecMulScalar(FoldLeft(LAMBDA r, k : Layer(InverseLayerBody, r.out, r.cursor, LayerLen(p.layers + 1 - k, p), p.q),
                          [out |-> w, cursor |-> p.zetas], Row([k \in 1..p.layers |-> k])).out,
                 p.ninv, p.q)

\* The one step that stands for all the layers in ML-DSA, which keeps a
\* counter m where the drawing has a cursor and subtracts in the other order.
Butterflies(w, m, len, Butterfly(_, _, _)) ==
    Joined(Row([g \in 1..Len(w) \div (2 * len) |->
        LET Pair(j) == Butterfly(w[(2 * len * (g - 1)) + j], w[(2 * len * (g - 1)) + len + j], m[g])
            pairs == Row([j \in 1..len |-> Pair(j)])
        IN  Row([j \in 1..len |-> pairs[j][1]]) \o Row([j \in 1..len |-> pairs[j][2]])]))

CollapsedNtt(w, p) ==
    LET Forward(a, b, z) == <<(a + (z * b)) % p.q, (a - (z * b)) % p.q>>
        Zetas(k) == Row([g \in 1..2^(k - 1) |-> p.zetas[2^(k - 1) + g]])
    IN  FoldLeft(LAMBDA r, k : Butterflies(r, Zetas(k), LayerLen(k, p), Forward), w, Row([k \in 1..p.layers |-> k]))

CollapsedIntt(w, p) ==
    LET Step(a, b, z) == <<(a + b) % p.q, (z * ((a - b) % p.q)) % p.q>>
        Zetas(k) == Row([g \in 1..2^(k - 1) |-> p.q - p.zetas[2^k + 1 - g]])
        w0 == FoldLeft(LAMBDA r, k : Butterflies(r, Zetas(p.layers + 1 - k), LayerLen(p.layers + 1 - k, p), Step),
                       w, Row([k \in 1..p.layers |-> k]))
    IN  VecMulScalar(w0, p.ninv, p.q)

-----------------------------------------------------------------------------
(***************************************************************************)
(* A run: two polynomials are transformed block by block, multiplied, and  *)
(* their product is transformed back.                                      *)
(***************************************************************************)

NttJob(p, a, b) ==
    [kind |-> "ntt", p |-> p, a |-> a, b |-> b, pc |-> "forward", layer |-> 1, block |-> 0,
     polys |-> <<a, b>>, cursor |-> RotatedTable(p)]

BlockLen(j) == 2 * LayerLen(IF j.pc = "forward" THEN j.layer ELSE j.p.layers + 1 - j.layer, j.p)

\* The vector with one block replaced.
Spliced(w, offset, block) == SubSeq(w, 1, offset) \o block \o SubSeq(w, offset + Len(block) + 1, Len(w))

NttLayerBlock ==
    /\ job.kind = "ntt" /\ job.pc \in {"forward", "inverse"} /\ job.layer <= job.p.layers
    /\ LET offset == job.block * BlockLen(job)
           Body(w) == IF job.pc = "forward"
                      THEN ForwardLayerBody(Part(w, offset, BlockLen(job)), job.cursor, job.p.q)
                      ELSE InverseLayerBody(Part(w, offset, BlockLen(job)), job.cursor, job.p.q)
           bodies == Row([i \in 1..Len(job.polys) |-> Body(job.polys[i])])
           last == offset + BlockLen(job) = job.p.n
       IN  job' = [job EXCEPT
               !.polys = Row([i \in 1..Len(@) |-> Spliced(@[i], offset, bodies[i].out)]),
               !.cursor = bodies[1].cursor,
               !.block = IF last THEN 0 ELSE @ + 1,
               !.layer = IF last THEN @ + 1 ELSE @]

NttProduct(a, b, p) == IF StopsAtPairs(p) THEN BaseCaseMul(a, b, p.gammas, p.q) ELSE VecMul(a, b, p.q)

MultiplyTransformed ==
    /\ job.kind = "ntt" /\ job.pc = "forward" /\ job.layer = job.p.layers + 1
    /\ job' = [job EXCEPT !.pc = "inverse", !.layer = 1, !.cursor = job.p.zetas,
                          !.polys = <<NttProduct(@[1], @[2], job.p)>>]

ScaleInverse ==
    /\ job.kind = "ntt" /\ job.pc = "inverse" /\ job.layer = job.p.layers + 1
    /\ job' = [job EXCEPT !.pc = "done", !.polys = <<VecMulScalar(@[1], job.p.ninv, job.p.q)>>]

\* Encodings of one number after another: compressed, and of that decompressed.
CodecJob(p, d, x) == [kind |-> "codec", p |-> p, d |-> d, x |-> x]
NextNumber ==
    /\ job.kind = "codec" /\ job.x + 1 < job.p.q
    /\ job' = [job EXCEPT !.x = @ + 1]

LatticeNext == NttLayerBlock \/ MultiplyTransformed \/ ScaleInverse \/ NextNumber

-----------------------------------------------------------------------------
(***************************************************************************)
(* Properties.                                                             *)
(***************************************************************************)

\* The product modulo x^n + 1 by the definition.
NegacyclicProduct(a, b, p) ==
    Row([i \in 1..p.n |-> FoldLeft(LAMBDA sum, j :
        IF j <= i THEN (sum + (a[j] * b[i + 1 - j])) % p.q
        ELSE (sum - (a[j] * b[p.n + i + 1 - j])) % p.q, 0, Row([j \in 1..p.n |-> j]))])

\* The layers, the cursor that travels through them, the tables of zetas and
\* gammas and the scaling multiply polynomials modulo x^n + 1, where the
\* transform is complete and where it stops at pairs.
TransformMultiplies ==
    (job.kind = "ntt" /\ job.pc = "done") => job.polys[1] = NegacyclicProduct(job.a, job.b, job.p)

\* The single steps that ML-DSA takes give what the drawn layers give.
CollapsedIsDrawn ==
    (job.kind = "ntt" /\ ~StopsAtPairs(job.p)) =>
        /\ (job.pc = "forward" /\ job.layer > job.p.layers) =>
              job.polys = <<CollapsedNtt(job.a, job.p), CollapsedNtt(job.b, job.p)>>
        /\ job.pc = "done" =>
              job.polys[1] = CollapsedIntt(VecMul(CollapsedNtt(job.a, job.p), CollapsedNtt(job.b, job.p), job.p.q), job.p)

\* What compression loses is at most half of one of its steps, also where it
\* rounds up to the modulus; what it keeps fits the width it is packed in, and
\* packing loses nothing.
CompressionIsClose ==
    job.kind = "codec" =>
        LET q == job.p.q
            packed == ZqCompress(<<job.x, (job.x * 7) % q, q - 1 - job.x, 0, 1, q - 1, job.x, 0>>, job.d, q)
        IN  /\ CentredMagnitude((job.x - ZqDecompress(packed, job.d, q)[1]) % q, q) <= (q + 2^job.d) \div (2^(job.d + 1))
            /\ ~ByteEncodeThrows(packed, job.d, q)
            /\ ByteDecode(ByteEncode(packed, job.d), job.d, q) = packed

-----------------------------------------------------------------------------
(***************************************************************************)
(* ML-KEM.                                                                 *)
(***************************************************************************)

SeedBytes == 32
ENCODED_POLY_BYTES == (12 * Kem.n) \div 8
DK_BYTES == Kem.k * ENCODED_POLY_BYTES
ML_KEM_EK_BYTES == DK_BYTES + SeedBytes
Ranks == 1..Kem.k

\* The hashes named by their roles.
HashG(s) == Sha3of512(s)
HashH(s) == Sha3of256(s)
KdfJ(s) == Shake256(s, SeedBytes)
Prf(s, eta) == Shake256(s, (2 * eta * Kem.n) \div 8)

\* Candidates of 12 bits, two from each three bytes, until a polynomial is
\* full; one block of the reader suffices for the lengths of the instances.
SampleNtt(seed) ==
    LET block == Shake128(seed, 168)
        candidates == Joined(Chunks(block, 3, LAMBDA b :
            <<b[1] + (256 * (b[2] % 16)), (b[2] \div 16) + (16 * b[3])>>))
        Below(c) == c < Kem.q
    IN  Accepted(candidates, Kem.n, Below)

-----------------------------------------------------------------------------
(***************************************************************************)
(* K-PKE.                                                                  *)
(***************************************************************************)

MatrixEntry(rho, row, col, transposed) ==
    SampleNtt(rho \o (IF transposed THEN <<row, col>> ELSE <<col, row>>))
Matrix(rho, transposed) == Row([i \in Ranks |-> Row([j \in Ranks |-> MatrixEntry(rho, i - 1, j - 1, transposed)])])

Noise(seed, counter, eta) == Cbd(Prf(Append(seed, counter), eta), eta, Kem.q)
NoiseVector(seed, first, eta) == Row([i \in Ranks |-> Noise(seed, first + i - 1, eta)])

Add(a, b) == VecAdd(a, b, Kem.q)
DotProduct(row, vector) ==
    FoldLeft(Add, Zeros(Kem.n), Row([j \in Ranks |-> BaseCaseMul(row[j], vector[j], Kem.gammas, Kem.q)]))

EncodeVector(v, d) == Joined(Row([i \in Ranks |-> ByteEncode(v[i], d)]))
DecodeVector(bytes, d) ==
    Row([i \in Ranks |-> ByteDecode(Part(bytes, ((i - 1) * d * Kem.n) \div 8, (d * Kem.n) \div 8), d, Kem.q)])
NttVector(v) == Row([i \in Ranks |-> NttNodes(v[i], Kem)])

\* The keys of the seed of the matrix with the secret and the noise, both transformed.
KeysOf(rho, A, s, e) ==
    [ek |-> EncodeVector(Row([i \in Ranks |-> Add(DotProduct(A[i], s), e[i])]), 12) \o rho, dk |-> EncodeVector(s, 12)]
KeysOfSeeds(g) ==
    KeysOf(g[1], Matrix(g[1], FALSE), NttVector(NoiseVector(g[2], 0, Kem.eta1)),
           NttVector(NoiseVector(g[2], Kem.k, Kem.eta1)))
KPkeKeyGen(d) == KeysOfSeeds(SplitBytes(HashG(Append(d, Kem.k)), <<SeedBytes, SeedBytes>>))

EncryptionNoise(r) ==
    [y |-> NoiseVector(r, 0, Kem.eta1), e1 |-> NoiseVector(r, Kem.k, Kem.eta2), e2 |-> Noise(r, 2 * Kem.k, Kem.eta2)]

Message1(m) == ZqDecompress(ByteDecode(m, 1, Kem.q), 1, Kem.q)
Ciphertext(u, v) ==
    EncodeVector(Row([i \in Ranks |-> ZqCompress(u[i], Kem.du, Kem.q)]), Kem.du)
        \o ByteEncode(ZqCompress(v, Kem.dv, Kem.q), Kem.dv)

\* Under the transposed matrix and the vector t of a key, y being transformed.
EncryptUnder(A, t, y, noise, m) ==
    Ciphertext(Row([i \in Ranks |-> Add(InttNodes(DotProduct(A[i], y), Kem), noise.e1[i])]),
               Add(Add(InttNodes(DotProduct(t, y), Kem), noise.e2), Message1(m)))
EncryptWith(parts, noise, m) ==
    EncryptUnder(Matrix(parts[2], TRUE), DecodeVector(parts[1], 12), NttVector(noise.y), noise, m)
KPkeEncrypt(ek, m, r) == EncryptWith(SplitBytes(ek, <<DK_BYTES, SeedBytes>>), EncryptionNoise(r), m)

C1_BYTES == (Kem.k * Kem.du * Kem.n) \div 8
DecryptParts(s, u, v) ==
    ByteEncode(ZqCompress(VecSub(v, InttNodes(DotProduct(s, NttVector(u)), Kem), Kem.q), 1, Kem.q), 1)
Decompressed(u) == Row([i \in Ranks |-> ZqDecompress(u[i], Kem.du, Kem.q)])
KPkeDecrypt(dk, c) ==
    DecryptParts(DecodeVector(dk, 12), Decompressed(DecodeVector(SubSeq(c, 1, C1_BYTES), Kem.du)),
                 ZqDecompress(ByteDecode(SubSeq(c, C1_BYTES + 1, Len(c)), Kem.dv, Kem.q), Kem.dv, Kem.q))

-----------------------------------------------------------------------------
(***************************************************************************)
(* ML-KEM.                                                                 *)
(***************************************************************************)

SelectSharedSecret(c, reencryption, shared, rejection) ==
    IF c = reencryption THEN shared ELSE rejection

KemJob(s) ==
    [kind |-> "kem", seed |-> s.seed, m |-> s.m, change |-> s.change, pc |-> "keygen",
     ek |-> <<>>, dk |-> <<>>, shared |-> <<>>, r |-> <<>>, c |-> <<>>, sent |-> <<>>, out |-> <<>>]

WithKeys(j, keys, z) ==
    [j EXCEPT !.pc = "encaps", !.ek = keys.ek, !.dk = Concat(<<keys.dk, keys.ek, HashH(keys.ek), z>>)]
KeyGen ==
    /\ job.kind = "kem" /\ job.pc = "keygen"
    /\ job' = WithKeys(job, KPkeKeyGen(SubSeq(job.seed, 1, SeedBytes)), SubSeq(job.seed, SeedBytes + 1, 2 * SeedBytes))

\* The shared secret and the randomness of encryption.
Derived(m, h) == SplitBytes(HashG(m \o h), <<SeedBytes, SeedBytes>>)
WithSecret(j, kr) ==
    [j EXCEPT !.pc = "send", !.shared = kr[1], !.r = kr[2], !.c = KPkeEncrypt(j.ek, j.m, kr[2])]
Encaps ==
    /\ job.kind = "kem" /\ job.pc = "encaps"
    /\ job' = WithSecret(job, Derived(job.m, HashH(job.ek)))

\* The user takes the ciphertext over to decapsulation, or a changed one.
Send ==
    /\ job.kind = "kem" /\ job.pc = "send"
    /\ job' = [job EXCEPT !.pc = "decaps",
           !.sent = IF job.change = 0 THEN job.c ELSE [job.c EXCEPT ![job.change] = XorTable[@][1]]]

Reencrypted(c, ek, m, kr, rejection) == SelectSharedSecret(c, KPkeEncrypt(ek, m, kr[2]), kr[1], rejection)
Opened(parts, c, m) == Reencrypted(c, parts[2], m, Derived(m, parts[3]), KdfJ(parts[4] \o c))
DecapsWith(parts, c) == Opened(parts, c, KPkeDecrypt(parts[1], c))
Decaps ==
    /\ job.kind = "kem" /\ job.pc = "decaps"
    /\ job' = [job EXCEPT !.pc = "done",
           !.out = DecapsWith(SplitBytes(job.dk, <<DK_BYTES, ML_KEM_EK_BYTES, SeedBytes, SeedBytes>>), job.sent)]

KemNext == KeyGen \/ Encaps \/ Send \/ Decaps

-----------------------------------------------------------------------------
(***************************************************************************)
(* Properties.                                                             *)
(***************************************************************************)

\* Decapsulation agrees with encapsulation on the ciphertext it made, and of
\* every other one gives a secret that depends on it and on z alone, and not
\* the one that was agreed.
DecapsAgrees ==
    (job.kind = "kem" /\ job.pc = "done") =>
        IF job.sent = job.c THEN job.out = job.shared
        ELSE /\ job.out = Shake256(SubSeq(job.seed, SeedBytes + 1, 2 * SeedBytes) \o job.sent, SeedBytes)
             /\ job.out # job.shared

\* The definition, computed without the transform: the transpose of the matrix
\* that made the key, and 2k + 1 numbered samples.
Untransformed(v) == Row([i \in Ranks |-> InttNodes(v[i], Kem)])
KeyMatrix(rho) == Row([i \in Ranks |-> Untransformed(Row([j \in Ranks |-> SampleNtt(rho \o <<j - 1, i - 1>>)]))])
EtaOf(i) == IF i <= Kem.k THEN Kem.eta1 ELSE Kem.eta2
NumberedSamples(r) ==
    Row([i \in 1..(2 * Kem.k) + 1 |-> Cbd(Shake256(Append(r, i - 1), (EtaOf(i) * Kem.n) \div 4), EtaOf(i), Kem.q)])
RefProduct(row, samples, noise) ==
    FoldLeft(Add, noise, Row([j \in Ranks |-> NegacyclicProduct(row[j], samples[j], Kem)]))
MessageWaves(m) == Row([i \in 1..Kem.n |-> ((m[1] \div (2^(i - 1))) % 2) * ((Kem.q + 1) \div 2)])
RefCiphertext(A, t, samples, m) ==
    Ciphertext(Row([i \in Ranks |-> RefProduct(Row([j \in Ranks |-> A[j][i]]), samples, samples[Kem.k + i])]),
               RefProduct(t, samples, Add(samples[(2 * Kem.k) + 1], MessageWaves(m))))

\* The ciphertext is that of the definition.
CiphertextIsTheDefinition ==
    (job.kind = "kem" /\ job.pc = "send") =>
        job.c = RefCiphertext(KeyMatrix(SubSeq(job.ek, DK_BYTES + 1, Len(job.ek))),
                              Untransformed(DecodeVector(job.ek, 12)), NumberedSamples(job.r), job.m)

=============================================================================
