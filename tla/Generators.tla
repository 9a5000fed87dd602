------------------------------ MODULE Generators ------------------------------
(***************************************************************************)
(* Pipelines on numbers: RSA (src/ciphers/rsa.ts), which unrolls Euclid's  *)
(* algorithm into a fixed number of steps and the power into a rung per    *)
(* bit, and the generators of lcg.ts and mt19937.ts, a request of zeros    *)
(* whose width says how much to produce, a loop over its words, and a cut  *)
(* at the length asked for.                                                *)
(*                                                                         *)
(* A row of bytes that is read as one big-endian number is the number; the *)
(* codec throws on one that is negative or that its width does not hold. A *)
(* word of the twister is four bytes.                                      *)
(***************************************************************************)
EXTENDS Bench, Integers, Sequences, FiniteSets, Bytes

CONSTANTS
    WordBytes,     \* the bytes of an LCG word
    StateWords,    \* MT_N
    TwistOffset    \* MT_M

-----------------------------------------------------------------------------
(***************************************************************************)
(* Numbers, and RSA.                                                       *)
(***************************************************************************)

Fits(value, width) == value >= 0 /\ value < 256^width
Bit(n, k) == (n \div (2^k)) % 2

ModMul(a, b, modulus) == (a * b) % modulus
AddMod(a, b, modulus) == (a + b) % modulus

CondModMul(base, factor, exponent, modulus, bit) ==
    IF Bit(exponent, bit) = 1 THEN ModMul(base, factor, modulus) ELSE base % modulus

\* One division of the extended algorithm; once the remainder is 0, nothing.
EeaStep(s, modulus) ==
    IF s.newR = 0 THEN s
    ELSE LET quotient == s.r \div s.newR
         IN  [r |-> s.newR, newR |-> s.r - (quotient * s.newR),
              t |-> s.newT, newT |-> (s.t - (quotient * s.newT)) % modulus]

\* Lame's bound for numbers of this width, rounded up, and two more.
EeaMaxIterations(width) == (((14404 * 8 * width) + 9999) \div 10000) + 2

\* mod-inverse@1 does the same in one step, on signed numbers.
RECURSIVE ModInverseLoop(_, _, _, _)
ModInverseLoop(t, newT, r, newR) ==
    IF newR = 0 THEN [t |-> t, r |-> r]
    ELSE LET quotient == r \div newR
         IN  ModInverseLoop(newT, t - (quotient * newT), newR, r - (quotient * newR))
ModInverseThrows(a, m) == ModInverseLoop(0, 1, m, a % m).r > 1
ModInverse(a, m) ==
    LET t == ModInverseLoop(0, 1, m, a % m).t IN IF t < 0 THEN t + m ELSE t

-----------------------------------------------------------------------------
(***************************************************************************)
(* A run: the key generation, then the power.  Both directions generate    *)
(* the key from p, q and e; they differ in the exponent.                   *)
(***************************************************************************)

RsaJob(width, p, q, e, message) ==
    [kind |-> "rsa", width |-> width, p |-> p, q |-> q, e |-> e, message |-> message,
     dir |-> "encrypt", text |-> message, pc |-> "generate", n |-> 0, phi |-> 0,
     eea |-> [r |-> 0, newR |-> 0, t |-> 0, newT |-> 0], count |-> 0, d |-> 0, result |-> 1]

\* n, p - 1, q - 1 and phi, each in a row of the width; a modulus of 0 is refused.
GenerateKey ==
    /\ job.kind = "rsa" /\ job.pc = "generate"
    /\ LET n == job.p * job.q
           phi == (job.p - 1) * (job.q - 1)
           throws == ~Fits(n, job.width) \/ job.p < 1 \/ job.q < 1 \/ phi = 0
       IN  job' = [job EXCEPT !.pc = IF throws THEN "threw" ELSE "divide",
                !.n = n, !.phi = phi, !.count = 0,
                !.eea = [r |-> phi, newR |-> job.e, t |-> 0, newT |-> 1]]

Divide ==
    /\ job.kind = "rsa" /\ job.pc = "divide" /\ job.count < EeaMaxIterations(job.width)
    /\ job' = [job EXCEPT !.count = @ + 1, !.eea = EeaStep(@, job.phi)]

\* eea-extract: an exponent that shares a factor with phi has no inverse.
Extract ==
    /\ job.kind = "rsa" /\ job.pc = "divide" /\ job.count = EeaMaxIterations(job.width)
    /\ job' = [job EXCEPT !.pc = IF job.eea.r = 1 THEN "power" ELSE "threw",
                          !.d = job.eea.t, !.count = 0, !.result = 1]

Exponent(j) == IF j.dir = "encrypt" THEN j.e ELSE j.d
Rungs(j) == 8 * j.width

\* Rung j squares, then multiplies if its bit of the exponent is set.
Rung ==
    /\ job.kind = "rsa" /\ job.pc = "power" /\ job.count < Rungs(job)
    /\ job' = [job EXCEPT !.count = @ + 1,
            !.result = CondModMul(ModMul(@, @, job.n), job.text, Exponent(job), job.n,
                                  Rungs(job) - 1 - job.count)]

FinishPower ==
    /\ job.kind = "rsa" /\ job.pc = "power" /\ job.count = Rungs(job)
    /\ job' = [job EXCEPT !.pc = "done"]

FlipRsa ==
    /\ job.kind = "rsa" /\ job.pc = "done" /\ job.dir = "encrypt"
    /\ job' = [job EXCEPT !.pc = "generate", !.dir = "decrypt", !.text = job.result]

RsaNext == GenerateKey \/ Divide \/ Extract \/ Rung \/ FinishPower \/ FlipRsa

-----------------------------------------------------------------------------
(***************************************************************************)
(* Properties.                                                             *)
(***************************************************************************)

\* The unrolled algorithm has enough steps for every exponent and every phi of
\* its width: it finds the inverse the loop of mod-inverse@1 finds, refuses
\* what that refuses, and no number on its way outgrows the row.
EeaIsUnrolledFarEnough ==
    job.kind = "rsa" =>
        /\ job.pc = "divide" => \A f \in DOMAIN job.eea : Fits(job.eea[f], job.width)
        /\ job.pc = "power" =>
              ~ModInverseThrows(job.e, job.phi) /\ (job.d - ModInverse(job.e, job.phi)) % job.phi = 0
        /\ (job.pc = "threw" /\ job.phi # 0 /\ Fits(job.n, job.width)) => ModInverseThrows(job.e, job.phi)

Prime(n) == n > 1 /\ \A k \in 2..(n - 1) : n % k # 0

\* With two primes and a message below n the second run returns the message.
RsaIsUndone ==
    (/\ job.kind = "rsa" /\ job.pc = "done" /\ job.dir = "decrypt" /\ job.message < job.n
     /\ Prime(job.p) /\ Prime(job.q) /\ job.p # job.q) => job.result = job.message

-----------------------------------------------------------------------------
(***************************************************************************)
(* The generators.                                                         *)
(***************************************************************************)

ASSUME GeneratorAssumption ==
    /\ WordBytes \in Nat \ {0}
    /\ StateWords \in Nat \ {0, 1} /\ TwistOffset \in 1..(StateWords - 1)

WordOf(n, width) == Row([i \in 1..width |-> (n \div (256^(width - i))) % 256])

-----------------------------------------------------------------------------
(***************************************************************************)
(* The linear congruential generators: x becomes a x + c mod m.  job.power *)
(* and job.sum are a^n and 1 + a + ... + a^(n-1) mod m.                    *)
(***************************************************************************)

\* A multiplicative generator has no addition step.
IsMixedLcg(p) == p.c # 0

LcgJob(params, seed, request) ==
    [kind |-> "lcg", params |-> params, seed |-> seed, request |-> request, state |-> seed, out |-> <<>>,
     power |-> 1 % params.m, sum |-> 0]

LcgStep(params, state) ==
    LET product == ModMul(state, params.a, params.m)
    IN  IF IsMixedLcg(params) THEN AddMod(product, params.c, params.m) ELSE product

Missing(j) == j.request - Len(j.out)

\* The emitted word is cut to what is left of the request, the state is not.
NextWord ==
    /\ job.kind = "lcg" /\ Missing(job) > 0
    /\ LET state == LcgStep(job.params, job.state)
           block == Zeros(IF Missing(job) < WordBytes THEN Missing(job) ELSE WordBytes)
       IN  job' = [job EXCEPT !.state = state,
                !.out = @ \o TruncateToReference(WordOf(state, WordBytes), block),
                !.power = ModMul(@, job.params.a, job.params.m),
                !.sum = AddMod(ModMul(@, job.params.a, job.params.m), 1, job.params.m)]

-----------------------------------------------------------------------------
(***************************************************************************)
(* MT19937: the seed expanded, one twist in place, the words tempered.     *)
(* job.ref is the sequence of the recurrence, one word longer a step.      *)
(***************************************************************************)

InitMultiplier == <<108, 7, 137, 101>>
MatrixA == <<153, 8, 176, 223>>
TemperB == <<157, 44, 86, 128>>
TemperC == <<239, 198, 0, 0>>

\* Math.imul: the product of two words, its carries past the word lost.
Imul(a, b) ==
    LET Partial(p) == Row([i \in 1..4 |-> IF i + (4 - p) <= 4 THEN a[i + (4 - p)] ELSE 0])
        Times(s, n) ==
            LET d3 == s[4] * n  d2 == (s[3] * n) + (d3 \div 256)
                d1 == (s[2] * n) + (d2 \div 256)  d0 == (s[1] * n) + (d1 \div 256)
            IN  <<d0 % 256, d1 % 256, d2 % 256, d3 % 256>>
    IN  AddMod32(Row([p \in 1..4 |-> Times(Partial(p), b[p])]))

InitWord(previous, i) ==
    AddMod32(<<Imul(InitMultiplier, XorRows(previous, Shr(previous, 30))), WordOf(i, 4)>>)

InitGenrand(seed) ==
    FoldLeft(LAMBDA mt, i : Append(mt, InitWord(mt[i], i)), <<seed>>, Row([i \in 1..StateWords - 1 |-> i]))

\* The top bit of one word joined to the other bits of the next.
Twisted(far, here, next) ==
    LET y == [next EXCEPT ![1] = (128 * (here[1] \div 128)) + (@ % 128)]
    IN  Xor(<<far, Shr(y, 1), IF y[4] % 2 = 1 THEN MatrixA ELSE Zeros(4)>>)

At(mt, i) == mt[(i % StateWords) + 1]

\* Mutant of TwistWord: the word after the last is not the first.
TwistWordStopped(mt, i) ==
    [mt EXCEPT ![i + 1] = Twisted(At(mt, i + TwistOffset), mt[i + 1],
                                  IF i + 1 = StateWords THEN mt[i + 1] ELSE At(mt, i + 1))]

\* Entry i of the state, counted from 0, from entries some of which are new.
TwistWord(mt, i) ==
    [mt EXCEPT ![i + 1] = Twisted(At(mt, i + TwistOffset), At(mt, i), At(mt, i + 1))]

Temper(word) ==
    LET y1 == XorRows(word, ShiftBitsRight(word, 11, 32))
        y2 == XorRows(y1, AndRows(ShiftBitsLeft(y1, 7, 32), TemperB))
        y3 == XorRows(y2, AndRows(ShiftBitsLeft(y2, 15, 32), TemperC))
    IN  XorRows(y3, ShiftBitsRight(y3, 18, 32))

\* The builder refuses a request one twist cannot fill.
TwisterJob(seed, request) ==
    [kind |-> "twister", seed |-> seed, request |-> request, twists |-> 0, state |-> InitGenrand(seed),
     pc |-> IF request > 4 * StateWords THEN "refused" ELSE "twist", words |-> <<>>, out |-> <<>>,
     ref |-> InitGenrand(seed)]

Twist ==
    /\ job.kind = "twister" /\ job.pc = "twist" /\ job.twists < StateWords
    /\ LET k == Len(job.ref) - StateWords
       IN  job' = [job EXCEPT !.twists = @ + 1, !.state = TwistWord(@, job.twists),
                !.ref = Append(@, Twisted(@[k + TwistOffset + 1], @[k + 1], @[k + 2]))]

SliceWords ==
    /\ job.kind = "twister" /\ job.pc = "twist" /\ job.twists = StateWords
    /\ job' = [job EXCEPT !.pc = "temper",
                          !.words = SubSeq(job.state, 1, (job.request + 3) \div 4)]

TemperWord ==
    /\ job.kind = "twister" /\ job.pc = "temper" /\ Len(job.out) < 4 * Len(job.words)
    /\ job' = [job EXCEPT !.out = @ \o Temper(job.words[(Len(@) \div 4) + 1])]

EmitWords ==
    /\ job.kind = "twister" /\ job.pc = "temper" /\ Len(job.out) = 4 * Len(job.words)
    /\ job' = [job EXCEPT !.pc = "done", !.out = TruncateToReference(@, Zeros(job.request))]

GeneratorNext == NextWord \/ Twist \/ SliceWords \/ TemperWord \/ EmitWords

-----------------------------------------------------------------------------
(***************************************************************************)
(* Properties.                                                             *)
(***************************************************************************)

\* The state after n words is a^n x + c (1 + a + ... + a^(n-1)) mod m, for an
\* odd length as for any other, and the last bytes produced are the first of
\* the state's; the length is what was asked for.
LcgIsTheRecurrence ==
    job.kind = "lcg" =>
        LET p == job.params
            last == ((Len(job.out) - 1) \div WordBytes) * WordBytes
        IN  job.out # <<>> =>
              /\ job.state = AddMod(ModMul(job.power, job.seed, p.m), ModMul(p.c, job.sum, p.m), p.m)
              /\ Len(job.out) <= job.request
              /\ SubSeq(job.out, last + 1, Len(job.out))
                    = SubSeq(WordOf(job.state, WordBytes), 1, Len(job.out) - last)

\* Bit k of a word by the definition of the tempering.
WordBitOf(word, k) == BitAt(word[4 - (k \div 8)], k % 8)
TemperedBit(word, k) ==
    LET One(j) == IF j + 11 < 32 THEN (WordBitOf(word, j) + WordBitOf(word, j + 11)) % 2 ELSE WordBitOf(word, j)
        Two(j) == IF j >= 7 /\ WordBitOf(TemperB, j) = 1 THEN (One(j) + One(j - 7)) % 2 ELSE One(j)
        Three(j) == IF j >= 15 /\ WordBitOf(TemperC, j) = 1 THEN (Two(j) + Two(j - 15)) % 2 ELSE Two(j)
    IN  IF k + 18 < 32 THEN (Three(k) + Three(k + 18)) % 2 ELSE Three(k)

\* The twist in place is the recurrence over the unbounded sequence: where it
\* reads past the end it finds the entries it has already replaced.  What is
\* produced is the sequence, tempered, cut once at the end.
TwisterIsTheRecurrence ==
    job.kind = "twister" =>
        /\ \A i \in 1..StateWords :
              job.state[i] = job.ref[IF i <= job.twists THEN StateWords + i ELSE i]
        /\ \A b \in 1..Len(job.out) :
              LET word == job.ref[StateWords + 1 + ((b - 1) \div 4)]
              IN  \A k \in 0..7 : BitAt(job.out[b], k) = TemperedBit(word, (8 * (3 - ((b - 1) % 4))) + k)
        /\ job.pc = "done" => Len(job.out) = job.request

=============================================================================
