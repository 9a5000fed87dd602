-------------------------------- MODULE MlDsa --------------------------------
(***************************************************************************)
(* ML-DSA: the rounding, packing and sampling steps of src/steps over      *)
(* src/core/ml-dsa-arith.ts, and the pipelines of src/ciphers/ml-dsa-44.ts *)
(* for keys, signatures and verification.  Bytes and hashes are the real   *)
(* ones; the profile Dsa scales the modulus and the lengths down, and with *)
(* them the width of the candidates that sampling rejects.                 *)
(***************************************************************************)
EXTENDS MlKem, Hashes

CONSTANTS Dsa,        \* q, n, layers, zeta, k, l, d, eta, tau, beta, gamma1, gamma2, omega
          Roundings,  \* moduli with gamma2 and d, and residues of them
          HintCodes,  \* encodings of hints, with n and omega
          Signings    \* seeds, contexts, messages, caps on the attempts, and what may be changed

-----------------------------------------------------------------------------
(***************************************************************************)
(* Rounding.                                                               *)
(***************************************************************************)

ModPm(r, alpha) == LET m == r % alpha IN IF m > alpha \div 2 THEN m - alpha ELSE m
BitLen(x) == CHOOSE b \in 0..31 : x \div (2^b) = 0 /\ (b = 0 \/ x \div (2^(b - 1)) # 0)

Power2Round(r, d, q) ==
    LET rPlus == r % q  r0 == ModPm(rPlus, 2^d) IN [r1 |-> (rPlus - r0) \div (2^d), r0 |-> r0]

Gamma2Refused(gamma2, q) == gamma2 < 1 \/ (q - 1) % (2 * gamma2) # 0

Decompose(r, gamma2, q) ==
    LET rPlus == r % q  r0 == ModPm(rPlus, 2 * gamma2)
    IN  IF rPlus - r0 = q - 1 THEN [r1 |-> 0, r0 |-> r0 - 1]
        ELSE [r1 |-> (rPlus - r0) \div (2 * gamma2), r0 |-> r0]

HighBits(r, gamma2, q) == Decompose(r, gamma2, q).r1
MakeHint(z, r, gamma2, q) == IF HighBits(r, gamma2, q) = HighBits(r + z, gamma2, q) THEN 0 ELSE 1

UseHint(h, r, gamma2, q) ==
    LET m == (q - 1) \div (2 * gamma2)  parts == Decompose(r, gamma2, q)
    IN  IF h = 0 THEN parts.r1 ELSE IF parts.r0 > 0 THEN (parts.r1 + 1) % m ELSE (parts.r1 - 1 + m) % m

RoundingJob(p, r) == [kind |-> "rounding", p |-> p, r |-> r]
NextResidue ==
    /\ job.kind = "rounding" /\ job.r + 1 < job.p.q
    /\ job' = [job EXCEPT !.r = @ + 1]

-----------------------------------------------------------------------------
(***************************************************************************)
(* Packing.                                                                *)
(***************************************************************************)

BitPackThrows(v, lower, upper, q) ==
    \E i \in DOMAIN v : ModPm(v[i], q) < 0 - lower \/ ModPm(v[i], q) > upper
BitPack(v, lower, upper, q) ==
    PackNumbers(Row([i \in 1..Len(v) |-> upper - ModPm(v[i], q)]), BitLen(lower + upper))
BitUnpack(bytes, lower, upper, q) ==
    LET v == UnpackNumbers(bytes, BitLen(lower + upper)) IN Row([i \in 1..Len(v) |-> (upper - v[i]) % q])

W1Encode(w1, gamma2, q) == PackNumbers(w1, BitLen(((q - 1) \div (2 * gamma2)) - 1))

HintCount(h) == Cardinality({i \in DOMAIN h : h[i] # 0})

\* The positions of row i, counted from 0, and how many there are up to it.
Positions(h, i, n) == SetToSortSeq({j \in 0..(n - 1) : h[(n * i) + j + 1] # 0}, <)
HintPackThrows(h, omega) == HintCount(h) > omega
HintBitPack(h, omega, n) ==
    LET rows == Row([i \in 1..Len(h) \div n |-> Positions(h, i - 1, n)])
        listed == Concat(rows)
    IN  listed \o Zeros(omega - Len(listed))
            \o Row([i \in 1..Len(rows) |-> Len(Concat(SubSeq(rows, 1, i)))])

HintRefused(y, omega) ==
    LET End(i) == IF i = 0 THEN 0 ELSE y[omega + i]
        Rows == 1..(Len(y) - omega)
    IN  \/ \E i \in Rows : End(i) < End(i - 1) \/ End(i) > omega
        \/ \E i \in Rows, x \in DOMAIN y : x \in (End(i - 1) + 2)..End(i) /\ y[x - 1] >= y[x]
        \/ \E x \in (End(Len(y) - omega) + 1)..omega : y[x] # 0

\* A refused encoding gives no hint at all.
HintBitUnpack(y, omega, n) ==
    LET k == Len(y) - omega
        End(i) == IF i = 0 THEN 0 ELSE y[omega + i]
        Listed(i, j) == \E x \in (End(i - 1) + 1)..End(i) : y[x] = j
    IN  IF HintRefused(y, omega) THEN Zeros(k * n)
        ELSE Row([c \in 1..k * n |-> IF Listed(((c - 1) \div n) + 1, (c - 1) % n) THEN 1 ELSE 0])

HintJob(y, omega, n) == [kind |-> "hints", y |-> y, omega |-> omega, n |-> n]

-----------------------------------------------------------------------------
(***************************************************************************)
(* Sampling, from a first part of the reader's bytes that is long enough.  *)
(***************************************************************************)

HashOf(s, outBytes) == Shake256(s, outBytes)
EachOf(count, Entry(_)) == Joined(Row([i \in 1..count |-> Entry(i - 1)]))
LittleEndian(x) == <<x % 256, (x \div 256) % 256>>

\* A candidate is as many bytes as the modulus, its surplus bits dropped.
CandidateBytes == (BitLen(Dsa.q) + 7) \div 8
RejNttPoly(seed) ==
    LET Candidate(b) == FoldRight(LAMBDA byte, v : byte + (256 * v), b, 0) % (2^BitLen(Dsa.q))
        candidates == Chunks(Shake128(seed, 168), CandidateBytes, Candidate)
        Below(c) == c < Dsa.q
    IN  Accepted(candidates, Dsa.n, Below)
ExpandA(rho) == EachOf(Dsa.k * Dsa.l, LAMBDA e : RejNttPoly(rho \o <<e % Dsa.l, e \div Dsa.l>>))

CoeffOfHalfByte(b) == IF Dsa.eta = 2 THEN 2 - (b % 5) ELSE 4 - b
HalfByteRefused(b) == b >= (IF Dsa.eta = 2 THEN 15 ELSE 9)
RejBoundedPoly(seed) ==
    LET halves == Joined(Chunks(Shake256(seed, 136), 1, LAMBDA z : <<z[1] % 16, z[1] \div 16>>))
        Usable(b) == ~HalfByteRefused(b)
        accepted == Accepted(halves, Dsa.n, Usable)
    IN  Row([i \in 1..Dsa.n |-> CoeffOfHalfByte(accepted[i]) % Dsa.q])
ExpandS(rhoPrime, first, count) == EachOf(count, LAMBDA r : RejBoundedPoly(rhoPrime \o LittleEndian(first + r)))

ExpandMaskThrows(kappa) == kappa + Dsa.l - 1 > 65535
ExpandMask(seed, kappa) ==
    LET width == 1 + BitLen(Dsa.gamma1 - 1)
        Poly(r) == LET v == UnpackNumbers(Shake256(seed \o LittleEndian(kappa + r), (Dsa.n * width) \div 8), width)
                   IN  Row([i \in 1..Dsa.n |-> (Dsa.gamma1 - v[i]) % Dsa.q])
    IN  EachOf(Dsa.l, Poly)

PlaceSign(c, i, j, sign) == [c EXCEPT ![i + 1] = c[j + 1], ![j + 1] = sign]

\* Candidates above i are passed over; st.at is the next byte to read.
SampleInBall(seed) ==
    LET stream == Shake256(seed, 408)
        signs == UnpackNumbers(SubSeq(stream, 1, 8), 1)
        Step(st, t) ==
            LET i == Dsa.n - Dsa.tau + t - 1
                AtMost(j) == j <= i
                at == FirstFrom(stream, st.at, AtMost)
            IN  [at |-> at + 1, c |-> PlaceSign(st.c, i, stream[at], IF signs[t] = 1 THEN Dsa.q - 1 ELSE 1)]
    IN  FoldLeft(Step, [at |-> 9, c |-> Zeros(Dsa.n)], Row([t \in 1..Dsa.tau |-> t])).c

FormatMessage(context, message) == <<0, Len(context)>> \o context \o message

-----------------------------------------------------------------------------
(***************************************************************************)
(* Keys.  Vectors are polynomials one after another.                       *)
(***************************************************************************)

NttOf(v) == EachRow(v, Dsa.n, LAMBDA w : CollapsedNtt(w, Dsa))
InttOf(v) == EachRow(v, Dsa.n, LAMBDA w : CollapsedIntt(w, Dsa))
VAdd(a, b) == VecAdd(a, b, Dsa.q)
VSub(a, b) == VecSub(a, b, Dsa.q)
VMul(a, b) == VecMul(a, b, Dsa.q)
Repeated(v, count) == EachOf(count, LAMBDA i : v)

MatVec(A, v) ==
    LET products == VMul(A, Repeated(v, Dsa.k))
        Product(r, j) == Part(products, ((r * Dsa.l) + j) * Dsa.n, Dsa.n)
    IN  EachOf(Dsa.k, LAMBDA r : FoldLeft(LAMBDA sum, j : VAdd(sum, Product(r, j)), Product(r, 0), Row([j \in 1..Dsa.l - 1 |-> j])))

Half2D == 2^(Dsa.d - 1)
T1_BITS == BitLen(Dsa.q) - Dsa.d
PolyBytes(bits) == (Dsa.n * bits) \div 8
ETA_POLY_BYTES == PolyBytes(BitLen(2 * Dsa.eta))
T0_POLY_BYTES == PolyBytes(Dsa.d)
T1_POLY_BYTES == PolyBytes(T1_BITS)
Z_POLY_BYTES == PolyBytes(BitLen((2 * Dsa.gamma1) - 1))
ML_DSA_SIG_BYTES == 32 + (Dsa.l * Z_POLY_BYTES) + Dsa.omega + Dsa.k

PackEta(v) == BitPack(v, Dsa.eta, Dsa.eta, Dsa.q)
UnpackEta(bytes) == BitUnpack(bytes, Dsa.eta, Dsa.eta, Dsa.q)
PackZ(v) == BitPack(v, Dsa.gamma1 - 1, Dsa.gamma1, Dsa.q)
UnpackZ(bytes) == BitUnpack(bytes, Dsa.gamma1 - 1, Dsa.gamma1, Dsa.q)

Rounded(t) == Row([i \in 1..Len(t) |-> Power2Round(t[i], Dsa.d, Dsa.q)])
SecretKey(seeds, pk, s1, s2, t) ==
    Concat(<<seeds[1], seeds[3], HashOf(pk, 64), PackEta(s1), PackEta(s2),
             BitPack(Row([i \in 1..Len(t) |-> t[i].r0 % Dsa.q]), Half2D - 1, Half2D, Dsa.q)>>)
PublicKey(rho, t) == rho \o ByteEncode(Row([i \in 1..Len(t) |-> t[i].r1]), T1_BITS)
WithPublicKey(seeds, pk, s1, s2, t) == [pk |-> pk, sk |-> SecretKey(seeds, pk, s1, s2, t)]
KeysOfRounded(seeds, s1, s2, t) == WithPublicKey(seeds, PublicKey(seeds[1], t), s1, s2, t)
KeysOfSecrets(seeds, s1, s2) ==
    KeysOfRounded(seeds, s1, s2, Rounded(VAdd(InttOf(MatVec(ExpandA(seeds[1]), NttOf(s1))), s2)))
KeysOfSigner(seeds) == KeysOfSecrets(seeds, ExpandS(seeds[2], 0, Dsa.l), ExpandS(seeds[2], Dsa.l, Dsa.k))
MlDsaKeyGen(seed) == KeysOfSigner(SplitBytes(HashOf(seed \o <<Dsa.k, Dsa.l>>, 128), <<32, 64, 32>>))

-----------------------------------------------------------------------------
(***************************************************************************)
(* An attempt at a signature.  pub is what the precomputation publishes.   *)
(***************************************************************************)

PublishedParts(parts, mu) ==
    [A |-> ExpandA(parts[1]), s1 |-> NttOf(UnpackEta(parts[4])), s2 |-> NttOf(UnpackEta(parts[5])),
     t0 |-> NttOf(BitUnpack(parts[6], Half2D - 1, Half2D, Dsa.q)), mu |-> mu,
     rhoPP |-> HashOf(Concat(<<parts[2], Zeros(32), mu>>), 64)]
PublishedFor(parts, mPrime) == PublishedParts(parts, HashOf(parts[3] \o mPrime, 64))
SecretKeyWidths == <<32, 32, 64, Dsa.l * ETA_POLY_BYTES, Dsa.k * ETA_POLY_BYTES, Dsa.k * T0_POLY_BYTES>>
Published(sk, mPrime) == PublishedFor(SplitBytes(sk, SecretKeyWidths), mPrime)

High(w) == Row([i \in 1..Len(w) |-> Decompose(w[i], Dsa.gamma2, Dsa.q).r1])
Low(w) == Row([i \in 1..Len(w) |-> Decompose(w[i], Dsa.gamma2, Dsa.q).r0 % Dsa.q])
Challenge(mu, w1) == HashOf(mu \o W1Encode(w1, Dsa.gamma2, Dsa.q), 32)

HintsOf(ct0, wcs2) ==
    Row([i \in 1..Len(ct0) |-> MakeHint(0 - ct0[i], wcs2[i] + ct0[i], Dsa.gamma2, Dsa.q)])

\* One bit for each of the four checks that fail.
Failed(z, r0, ct0, h) ==
    (IF InfNorm(z, Dsa.q) < Dsa.gamma1 - Dsa.beta THEN 0 ELSE 1)
    + (IF InfNorm(r0, Dsa.q) < Dsa.gamma2 - Dsa.beta THEN 0 ELSE 2)
    + (IF InfNorm(ct0, Dsa.q) < Dsa.gamma2 THEN 0 ELSE 4)
    + (IF HintCount(h) <= Dsa.omega THEN 0 ELSE 8)

Kept(v, accepted) == VecMulScalar(v, accepted, Dsa.q)

\* From the mask to the commitment, the challenge, the response and the verdict.
Verdict(y, cTilde, c, z, h, failed, accepted) ==
    [failed |-> failed, accepted |-> accepted, c |-> c, y |-> y,
     throws |-> BitPackThrows(Kept(z, accepted), Dsa.gamma1 - 1, Dsa.gamma1, Dsa.q)
                   \/ HintPackThrows(Kept(h, accepted), Dsa.omega),
     sigma |-> Concat(<<cTilde, PackZ(Kept(z, accepted)), HintBitPack(Kept(h, accepted), Dsa.omega, Dsa.n)>>)]
Judged(y, cTilde, c, z, h, failed) == Verdict(y, cTilde, c, z, h, failed, IF failed = 0 THEN 1 ELSE 0)
Checked(y, cTilde, c, z, wcs2, ct0, h) == Judged(y, cTilde, c, z, h, Failed(z, Low(wcs2), ct0, h))
Hinted(y, cTilde, c, z, wcs2, ct0) == Checked(y, cTilde, c, z, wcs2, ct0, HintsOf(ct0, wcs2))

Times(cHat, v, count) == InttOf(VMul(Repeated(cHat, count), v))
Responded(pub, y, w, cTilde, c, cHat) ==
    Hinted(y, cTilde, c, VAdd(y, Times(cHat, pub.s1, Dsa.l)), VSub(w, Times(cHat, pub.s2, Dsa.k)),
           Times(cHat, pub.t0, Dsa.k))
WithBall(pub, y, w, cTilde, c) == Responded(pub, y, w, cTilde, c, NttOf(c))
Challenged(pub, y, w, cTilde) == WithBall(pub, y, w, cTilde, SampleInBall(cTilde))
Committed(pub, y, w) == Challenged(pub, y, w, Challenge(pub.mu, High(w)))
Masked(pub, y) == Committed(pub, y, InttOf(MatVec(pub.A, NttOf(y))))
AttemptAt(pub, kappa) == Masked(pub, ExpandMask(pub.rhoPP, kappa))

\* Mutant of NextKappa: the next attempt starts at the next counter.
NextKappaByOne(kappa) == kappa + 1

NextKappa(kappa) == kappa + Dsa.l

-----------------------------------------------------------------------------
(***************************************************************************)
(* Verification.                                                           *)
(***************************************************************************)

Recomputed(pk, key, mPrime, sig, z, h, w) ==
    /\ ~HintRefused(sig[3], Dsa.omega) /\ InfNorm(z, Dsa.q) < Dsa.gamma1 - Dsa.beta
    /\ Challenge(HashOf(HashOf(pk, 64) \o mPrime, 64),
                 Row([i \in 1..Len(w) |-> UseHint(h[i], w[i], Dsa.gamma2, Dsa.q)])) = sig[1]
VerifyParts(pk, key, mPrime, sig, z) ==
    Recomputed(pk, key, mPrime, sig, z, HintBitUnpack(sig[3], Dsa.omega, Dsa.n),
        InttOf(VSub(MatVec(ExpandA(key[1]), NttOf(z)),
                    VMul(Repeated(NttOf(SampleInBall(sig[1])), Dsa.k),
                         NttOf(VecMulScalar(ByteDecode(key[2], T1_BITS, Dsa.q), 2^Dsa.d, Dsa.q))))))
VerifySplit(pk, mPrime, sig) ==
    VerifyParts(pk, SplitBytes(pk, <<32, Dsa.k * T1_POLY_BYTES>>), mPrime, sig, UnpackZ(sig[2]))
MlDsaVerify(pk, mPrime, signature) ==
    VerifySplit(pk, mPrime, SplitBytes(signature, <<32, Dsa.l * Z_POLY_BYTES, Dsa.omega + Dsa.k>>))

-----------------------------------------------------------------------------
(***************************************************************************)
(* A run: a key pair, the loop of attempts, which stops at the first that  *)
(* is accepted or at the cap, and verification of what is released, taken  *)
(* over as it is or with a change.                                         *)
(***************************************************************************)

SignJob(s) ==
    [kind |-> "sign", s |-> s, pc |-> "keygen", pk |-> <<>>, sk |-> <<>>, pub |-> <<>>, kappa |-> 0,
     accepted |-> 0, sigma |-> Zeros(ML_DSA_SIG_BYTES), log |-> <<>>, masks |-> <<>>, c |-> <<>>,
     throws |-> FALSE, released |-> <<>>, change |-> 0, verdict |-> FALSE]

WithSigningKeys(j, keys) == [j EXCEPT !.pc = "precompute", !.pk = keys.pk, !.sk = keys.sk]
SignKeyGen ==
    /\ job.kind = "sign" /\ job.pc = "keygen"
    /\ job' = WithSigningKeys(job, MlDsaKeyGen(job.s.seed))

SignPrecompute ==
    /\ job.kind = "sign" /\ job.pc = "precompute"
    /\ job' = [job EXCEPT !.pc = "attempt", !.pub = Published(job.sk, FormatMessage(job.s.context, job.s.message))]

Polynomials(v) == Chunks(v, Dsa.n, LAMBDA y : y)
Logged(j, a) ==
    [j EXCEPT !.log = Append(@, a.failed), !.accepted = a.accepted, !.sigma = a.sigma, !.c = a.c,
              !.masks = @ \o Polynomials(a.y), !.throws = a.throws, !.kappa = NextKappa(@)]
Attempt ==
    /\ job.kind = "sign" /\ job.pc = "attempt" /\ Len(job.log) < job.s.cap /\ job.accepted = 0
    /\ ~ExpandMaskThrows(job.kappa)
    /\ job' = Logged(job, AttemptAt(job.pub, job.kappa))

Release ==
    /\ job.kind = "sign" /\ job.pc = "attempt" /\ (Len(job.log) = job.s.cap \/ job.accepted = 1)
    /\ job' = [job EXCEPT !.pc = "released", !.released = IF job.accepted = 1 THEN job.sigma ELSE <<>>]

\* Change 0 is none, a change below 0 is of the message, one above of that byte.
Changed(s, i) == [s EXCEPT ![i] = XorTable[@][1]]
Verify ==
    /\ job.kind = "sign" /\ job.pc = "released" /\ job.released # <<>>
    /\ \E change \in job.s.changes :
         LET mPrime == FormatMessage(job.s.context, job.s.message)
         IN  job' = [job EXCEPT !.pc = "verified", !.change = change,
                 !.verdict = MlDsaVerify(job.pk,
                     IF change < 0 THEN Changed(mPrime, Len(mPrime)) ELSE mPrime,
                     IF change > 0 THEN Changed(job.released, change) ELSE job.released)]

DsaNext == NextResidue \/ SignKeyGen \/ SignPrecompute \/ Attempt \/ Release \/ Verify

-----------------------------------------------------------------------------
(***************************************************************************)
(* Properties.                                                             *)
(***************************************************************************)

\* A residue is the sum of its parts, both roundings alike, and a hint for
\* r and z, made from r and z, recovers the high part of r + z from r alone
\* while z is no larger than gamma2, also where the last interval wraps.
HintsRecover ==
    job.kind = "rounding" =>
        LET p == job.p  q == p.q
            low == Decompose(job.r, p.gamma2, q)  two == Power2Round(job.r, p.d, q)
        IN  /\ ~Gamma2Refused(p.gamma2, q)
            /\ ((low.r1 * 2 * p.gamma2) + low.r0) % q = job.r /\ low.r0 \in (0 - p.gamma2)..p.gamma2
            /\ (two.r1 * 2^p.d) + two.r0 = job.r
            /\ \A z \in (0 - p.gamma2)..p.gamma2 :
                 UseHint(MakeHint(z, job.r, p.gamma2, q), job.r, p.gamma2, q) = HighBits(job.r + z, p.gamma2, q)

\* Every hint has one encoding: what is not refused is what packing the hint
\* it gives would write.
OneEncodingOfAHint ==
    job.kind = "hints" =>
        LET h == HintBitUnpack(job.y, job.omega, job.n)
        IN  HintRefused(job.y, job.omega) <=> (HintPackThrows(h, job.omega) \/ HintBitPack(h, job.omega, job.n) # job.y)

\* What is released verifies under the key it was made with, and neither a
\* changed message nor a changed signature does.
SignatureVerifies ==
    (job.kind = "sign" /\ job.pc = "verified") => (job.verdict <=> job.change = 0)

\* No polynomial masks two attempts, whatever the attempts before it came to.
MasksAreFresh ==
    job.kind = "sign" => \A i, j \in DOMAIN job.masks : i # j => job.masks[i] # job.masks[j]

\* A rejected attempt leaves nothing of its vectors, which the steps after
\* the verdict still pack: they have nothing to refuse, and nothing of them
\* is left when the cap is reached.
RejectedLeavesNothing ==
    (job.kind = "sign" /\ job.log # <<>>) =>
        /\ ~job.throws
        /\ job.accepted = 0 =>
              LET sig == SplitBytes(job.sigma, <<32, Dsa.l * Z_POLY_BYTES, Dsa.omega + Dsa.k>>)
              IN  sig[2] = PackZ(Zeros(Dsa.l * Dsa.n)) /\ sig[3] = Zeros(Dsa.omega + Dsa.k)

\* The challenge has tau coefficients of 1 or -1, also when a place is drawn
\* that has one already.
BallIsSparse ==
    (job.kind = "sign" /\ job.c # <<>>) =>
        /\ HintCount(job.c) = Dsa.tau
        /\ \A i \in DOMAIN job.c : job.c[i] \in {0, 1, Dsa.q - 1}

=============================================================================
