--------------------------- MODULE StreamCiphers ---------------------------
(***************************************************************************)
(* Salsa20, ChaCha20 and the ChaCha20 generator as the pipelines that      *)
(* src/ciphers/salsa20.ts, chacha20.ts and chacha20-csprng.ts build: a     *)
(* loop over blocks of 64 bytes whose carried value is the counter.  The   *)
(* steps of the pipelines work on big-endian words, the ciphers are        *)
(* defined on little-endian ones.  job.ref is the state by the definition  *)
(* of the cipher: a matrix of 4 by 4 numbers of two halves of 16 bits.     *)
(***************************************************************************)
EXTENDS Bench, Bytes

BlockBytes == 64
DoubleRounds == 10

\* permute@1 over the bytes of every word: from little-endian to big-endian and back.

ConstantWords == <<<<97, 112, 120, 101>>, <<51, 32, 100, 110>>, <<121, 98, 45, 50>>, <<107, 32, 101, 116>>>>

-----------------------------------------------------------------------------
(***************************************************************************)
(* Salsa20.                                                                *)
(***************************************************************************)

SalsaQuads == <<<<0, 4, 8, 12>>, <<5, 9, 13, 1>>, <<10, 14, 2, 6>>, <<15, 3, 7, 11>>,
                <<0, 1, 2, 3>>, <<5, 6, 7, 4>>, <<10, 11, 8, 9>>, <<15, 12, 13, 14>>>>

\* words[target] ^= (words[a] + words[b]) <<< bits
SalsaLine(words, target, a, b, bits) ==
    [words EXCEPT ![target] = XorRows(@, RotateBitsLeft(AddMod32(<<words[a], words[b]>>), bits, 32))]

SalsaQuarterRound(words, quad) ==
    LET at == Row([i \in 1..4 |-> quad[i] + 1])
        one == SalsaLine(words, at[2], at[1], at[4], 7)
        two == SalsaLine(one, at[3], at[2], at[1], 9)
        three == SalsaLine(two, at[4], at[3], at[2], 13)
    IN  SalsaLine(three, at[1], at[4], at[3], 18)

\* The 64-bit counter is the pipeline's one big-endian number; its low word comes first.
SalsaState(key, iv, counter) ==
    LET keyWords == WordReverse(key)
    IN  Concat(<<ConstantWords[1], ByteSlice(keyWords, 0, 16), ConstantWords[2],
                 WordReverse(ByteSlice(iv, 8, 8)), Permute(counter, <<4, 5, 6, 7, 0, 1, 2, 3>>),
                 ConstantWords[3], ByteSlice(keyWords, 16, 16), ConstantWords[4]>>)

-----------------------------------------------------------------------------
(***************************************************************************)
(* ChaCha20 and the generator on the same rounds.                          *)
(***************************************************************************)

ChaChaQuads == <<<<0, 4, 8, 12>>, <<1, 5, 9, 13>>, <<2, 6, 10, 14>>, <<3, 7, 11, 15>>,
                 <<0, 5, 10, 15>>, <<1, 6, 11, 12>>, <<2, 7, 8, 13>>, <<3, 4, 9, 14>>>>

\* words[x] += words[y]; words[z] = (words[z] ^ words[x]) <<< bits
ChaChaLine(words, x, y, z, bits) ==
    LET sum == AddMod32(<<words[x], words[y]>>)
    IN  [words EXCEPT ![x] = sum, ![z] = RotateBitsLeft(XorRows(@, sum), bits, 32)]

ChaChaQuarterRound(words, quad) ==
    LET a == quad[1] + 1 b == quad[2] + 1 c == quad[3] + 1 d == quad[4] + 1
        one == ChaChaLine(words, a, b, d, 16)
        two == ChaChaLine(one, c, d, b, 12)
        three == ChaChaLine(two, a, b, d, 8)
    IN  ChaChaLine(three, c, d, b, 7)

ChaChaState(key, iv, counter) ==
    Concat(<<Concat(ConstantWords), WordReverse(key), counter, WordReverse(ByteSlice(iv, 4, 12))>>)

\* The seed is the key; the nonce is zero.
CsprngState(seed, counter) == Concat(<<Concat(ConstantWords), WordReverse(seed), counter, Zeros(12)>>)

-----------------------------------------------------------------------------
(***************************************************************************)
(* The pipeline of a run.                                                  *)
(***************************************************************************)

CounterInit(cipher, iv) ==
    CASE cipher = "salsa20" -> Permute(ByteSlice(iv, 0, 8), <<7, 6, 5, 4, 3, 2, 1, 0>>)
      [] cipher = "chacha20" -> WordReverse(ByteSlice(iv, 0, 4))
      [] cipher = "csprng" -> Zeros(4)

Assembled(cipher, key, iv, counter) ==
    CASE cipher = "salsa20" -> SalsaState(key, iv, counter)
      [] cipher = "chacha20" -> ChaChaState(key, iv, counter)
      [] cipher = "csprng" -> CsprngState(key, counter)

DoubleRound(cipher, state) ==
    LET words == SplitBytes(state, Row([i \in 1..16 |-> 4]))
    IN  Concat(IF cipher = "salsa20" THEN FoldLeft(SalsaQuarterRound, words, SalsaQuads)
               ELSE FoldLeft(ChaChaQuarterRound, words, ChaChaQuads))

Keystream(state, before) == WordReverse(AddMod32(<<state, before>>))

\* The generator emits the keystream itself.
Emitted(cipher, block, keystream) ==
    LET trimmed == TruncateToReference(keystream, block)
    IN  IF cipher = "csprng" THEN trimmed ELSE XorRows(block, trimmed)

-----------------------------------------------------------------------------
(***************************************************************************)
(* The reference: little-endian numbers <<high half, low half>>, quarter   *)
(* rounds along the columns, then the rows or the diagonals, of a matrix.  *)
(***************************************************************************)

SalsaQuarter(a, b, c, d) ==
    LET b1 == XorNumbers(b, Turn(Plus(a, d), 7))
        c1 == XorNumbers(c, Turn(Plus(b1, a), 9))
        d1 == XorNumbers(d, Turn(Plus(c1, b1), 13))
    IN  <<XorNumbers(a, Turn(Plus(d1, c1), 18)), b1, c1, d1>>

ChaChaQuarter(a, b, c, d) ==
    LET a1 == Plus(a, b)  d1 == Turn(XorNumbers(d, a1), 16)
        c1 == Plus(c, d1) b1 == Turn(XorNumbers(b, c1), 12)
        a2 == Plus(a1, b1) d2 == Turn(XorNumbers(d1, a2), 8)
        c2 == Plus(c1, d2)
    IN  <<a2, Turn(XorNumbers(b1, c2), 7), c2, d2>>

\* Entry k of quarter j of a half round, as a position in the matrix read row by row.
Column(j, k) == (4 * ((j + k) % 4)) + j
SalsaRow(j, k) == (4 * j) + ((j + k) % 4)
ChaChaColumn(j, k) == (4 * k) + j
Diagonal(j, k) == (4 * k) + ((j + k) % 4)

HalfRound(m, At(_, _), Quarter(_, _, _, _)) ==
    LET done == Row([j1 \in 1..4 |-> LET j == j1 - 1 IN
            Quarter(m[At(j, 0) + 1], m[At(j, 1) + 1], m[At(j, 2) + 1], m[At(j, 3) + 1])])
        Place(p) == CHOOSE jk \in (0..3) \X (0..3) : At(jk[1], jk[2]) = p - 1
    IN  Row([p \in 1..16 |-> LET jk == Place(p) IN done[jk[1] + 1][jk[2] + 1]])

RefDoubleRound(cipher, m) ==
    IF cipher = "salsa20" THEN HalfRound(HalfRound(m, Column, SalsaQuarter), SalsaRow, SalsaQuarter)
    ELSE HalfRound(HalfRound(m, ChaChaColumn, ChaChaQuarter), Diagonal, ChaChaQuarter)

\* "expand 32-byte k"
Sigma == <<101, 120, 112, 97, 110, 100, 32, 51, 50, 45, 98, 121, 116, 101, 32, 107>>
Numbers(s) == EachRow(s, 4, LAMBDA w : <<Number(w)>>)

\* n more than a little-endian number of whole bytes, which wraps.
Advanced(s, n) == FoldLeft(LAMBDA c, i : Reverse(IncrementCounter(Reverse(c))), s, Row([i \in 1..n |-> i]))

\* The state of block n by the definition: for Salsa20 the counter is 64 bits
\* wide and follows the nonce, for ChaCha20 it is 32 bits and precedes it.
RefState(cipher, key, iv, n) ==
    LET c == Numbers(Sigma)
        k == Numbers(key)
        s == Numbers(Advanced(SubSeq(iv, 1, 8), n))
        o == Numbers(SubSeq(iv, 9, 16))
    IN  CASE cipher = "salsa20" ->
                <<c[1]>> \o SubSeq(k, 1, 4) \o <<c[2]>> \o o \o s \o <<c[3]>> \o SubSeq(k, 5, 8) \o <<c[4]>>
          [] cipher = "chacha20" -> c \o k \o Numbers(Advanced(SubSeq(iv, 1, 4), n)) \o Numbers(SubSeq(iv, 5, 16))
          [] cipher = "csprng" -> c \o k \o Numbers(Advanced(Zeros(4), n)) \o Numbers(Zeros(12))

-----------------------------------------------------------------------------
(***************************************************************************)
(* A run: the message is encrypted and, for a cipher, decrypted again.     *)
(***************************************************************************)

StreamJob(cipher, key, iv, message) ==
    [kind |-> "stream", cipher |-> cipher, key |-> key, iv |-> iv, message |-> message,
     dir |-> "encrypt", text |-> message, pc |-> "block", blocks |-> 0,
     counter |-> CounterInit(cipher, iv), before |-> <<>>, state |-> <<>>, rounds |-> 0,
     refBefore |-> <<>>, ref |-> <<>>, out |-> <<>>]

NextBlock(j) == SubSeq(j.text, (BlockBytes * j.blocks) + 1, IF BlockBytes * (j.blocks + 1) < Len(j.text)
                                                            THEN BlockBytes * (j.blocks + 1) ELSE Len(j.text))

StartBlock ==
    /\ job.kind = "stream" /\ job.pc = "block" /\ BlockBytes * job.blocks < Len(job.text)
    /\ LET state == Assembled(job.cipher, job.key, job.iv, job.counter)
           ref == RefState(job.cipher, job.key, job.iv, job.blocks)
       IN  job' = [job EXCEPT !.pc = "rounds", !.rounds = 0, !.before = state, !.state = state,
                              !.refBefore = ref, !.ref = ref]

RunDoubleRound ==
    /\ job.kind = "stream" /\ job.pc = "rounds" /\ job.rounds < DoubleRounds
    /\ job' = [job EXCEPT !.rounds = @ + 1, !.state = DoubleRound(job.cipher, @),
                          !.ref = RefDoubleRound(job.cipher, @)]

FinishBlock ==
    /\ job.kind = "stream" /\ job.pc = "rounds" /\ job.rounds = DoubleRounds
    /\ job' = [job EXCEPT !.pc = "emitted", !.blocks = @ + 1, !.counter = IncrementCounter(@),
          !.out = @ \o Emitted(job.cipher, NextBlock(job), Keystream(job.state, job.before))]

ReadOnBlock ==
    /\ job.kind = "stream" /\ job.pc = "emitted"
    /\ job' = [job EXCEPT !.pc = "block"]

Flipped(j) ==
    [j EXCEPT !.dir = "decrypt", !.text = j.out, !.out = <<>>, !.blocks = 0,
              !.counter = CounterInit(j.cipher, j.iv)]

FlipStream ==
    /\ job.kind = "stream" /\ job.pc = "block" /\ BlockBytes * job.blocks >= Len(job.text)
    /\ job.dir = "encrypt" /\ job.cipher # "csprng"
    /\ job' = Flipped(job)

StreamNext == StartBlock \/ RunDoubleRound \/ FinishBlock \/ ReadOnBlock \/ FlipStream

-----------------------------------------------------------------------------
(***************************************************************************)
(* Properties.                                                             *)
(***************************************************************************)

\* The last block emitted, and the same bytes by the definition of the cipher.
RefKeystream(j) ==
    FlattenSeq(Row([i \in 1..16 |-> NumberBytes(Plus(j.ref[i], j.refBefore[i]))]))
LastBlock(s, j) == SubSeq(s, (BlockBytes * (j.blocks - 1)) + 1, Len(j.out))

\* Through the byte orders of its own words a pipeline keeps to the cipher:
\* its state after each double round is the matrix of the definition, its
\* counter runs as the cipher's does where a word of it is full, and a last
\* block cut short meets the first bytes of its keystream.
StreamIsTheCipher ==
    job.kind = "stream" =>
        /\ job.pc = "rounds" => Numbers(WordReverse(job.state)) = job.ref
        /\ job.pc = "emitted" =>
              LastBlock(job.out, job)
                  = XorRows(IF job.cipher = "csprng" THEN Zeros(Len(LastBlock(job.text, job)))
                            ELSE LastBlock(job.text, job), RefKeystream(job))

\* The second run returns every byte of the message, and no more.
StreamIsUndone ==
    (job.kind = "stream" /\ job.dir = "decrypt") =>
        /\ Len(job.text) = Len(job.message)
        /\ job.out = SubSeq(job.message, 1, Len(job.out))

=============================================================================
