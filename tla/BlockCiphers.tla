---------------------------- MODULE BlockCiphers ----------------------------
(***************************************************************************)
(* The block ciphers as their specs build them, and a message run through  *)
(* the encrypting spec and then through the decrypting one:                *)
(* src/ciphers/*-round-builder*.ts, des.ts, des-decrypt.ts,                *)
(* *-spec-builder.ts, speck-32-64-builder.ts and the Speck round steps.    *)
(* A step of the model is one node of the spec: a leaf of AES, Serpent and *)
(* Speck, a round group or a whitening of the Feistel ciphers.  What a     *)
(* round computes of its half or of its word is a constant: the            *)
(* decryption is right whatever it is.                                     *)
(***************************************************************************)
EXTENDS Integers, Sequences

CONSTANTS Word,      \* the values of a word
          WordBits,  \* its bits
          Xor,       \* the exclusive or of two words
          Add, Sub,  \* addition and subtraction modulo 2^WordBits
          Ror,       \* rotation of a word to the right
          Reverse,   \* the byte order of a word reversed
          Layer, InvLayer, \* the layers of AES and Serpent, and their inverses
          DesIp, DesFp, \* the initial and the final permutation of DES
          DesF, BlowfishF, TwofishG, \* what a Feistel round makes of a word
          AesRounds, SerpentRounds, FeistelRounds, SpeckRounds,
          Alpha, Beta,  \* Speck's rotations
          Skew,         \* the bits Twofish turns its second word by
          RoundKeys     \* what the key schedules publish, by cipher

Ciphers == {"aes", "serpent", "des", "blowfish", "twofish", "speck"}
Quad == [1..4 -> Word]
Pair == [1..2 -> Word]
CipherBlock(c) == IF c \in {"aes", "serpent", "twofish"} THEN Quad ELSE Pair

SBoxes == {<<"s-box", i>> : i \in 0..7}
Layers == {<<"sub-bytes">>, <<"shift-rows">>, <<"mix-columns">>,
           <<"linear-transform">>, <<"permutation">>} \cup SBoxes

ASSUME WordAssumption ==
    /\ WordBits \in Nat /\ Alpha \in 0..WordBits /\ Beta \in 0..WordBits
    /\ 1 \in 0..WordBits /\ Skew \in 0..WordBits
    /\ Xor \in [Word -> [Word -> Word]] /\ \A a, b \in Word : Xor[Xor[a][b]][b] = a
    /\ \A a, b, d \in Word : Xor[Xor[a][b]][d] = Xor[a][Xor[b][d]]
    /\ Add \in [Word -> [Word -> Word]] /\ Sub \in [Word -> [Word -> Word]]
    /\ \A a, b \in Word : Xor[a][b] = Xor[b][a] /\ Sub[Add[a][b]][b] = a
    /\ Ror \in [0..WordBits -> [Word -> Word]]
    /\ \A n \in 0..WordBits, a \in Word : Ror[WordBits - n][Ror[n][a]] = a
    /\ Reverse \in [Word -> Word] /\ \A a \in Word : Reverse[Reverse[a]] = a

ASSUME LayerAssumption ==
    /\ Layer \in [Layers -> [Quad -> Quad]] /\ InvLayer \in [Layers -> [Quad -> Quad]]
    /\ \A l \in Layers, x \in Quad : InvLayer[l][Layer[l][x]] = x /\ Layer[l][InvLayer[l][x]] = x
    /\ DesIp \in [Pair -> Pair] /\ DesFp \in [Pair -> Pair]
    /\ \A x \in Pair : DesFp[DesIp[x]] = x /\ DesIp[DesFp[x]] = x

ASSUME RoundAssumption ==
    /\ DesF \in [Word -> [Word -> Word]]
    /\ BlowfishF \in [Word -> Word] /\ TwofishG \in [Word -> Word]
    /\ AesRounds \in Nat \ {0} /\ SerpentRounds \in Nat \ {0}
    /\ FeistelRounds \in Nat \ {0} /\ SpeckRounds \in Nat \ {0}

ASSUME KeyAssumption ==
    /\ RoundKeys["aes"] \subseteq [0..AesRounds -> Quad]
    /\ RoundKeys["serpent"] \subseteq [0..SerpentRounds -> Quad]
    /\ RoundKeys["des"] \subseteq [0..(FeistelRounds - 1) -> Word]
    /\ RoundKeys["blowfish"] \subseteq [0..(FeistelRounds + 1) -> Word]
    /\ RoundKeys["twofish"] \subseteq [0..(2 * FeistelRounds + 7) -> Word]
    /\ RoundKeys["speck"] \subseteq [0..(SpeckRounds - 1) -> Word]

VARIABLES cipher, key, plain,
          way,    \* the direction of the run
          n,      \* the nodes the run has passed
          block,  \* what the last of them put out
          past    \* what each node of the encrypting run was given

cipherVars == <<cipher, key, plain, way, n, block, past>>

-----------------------------------------------------------------------------
(***************************************************************************)
(* AES and Serpent: one leaf per node.                                     *)
(***************************************************************************)

AddKey(x, k) == [i \in 1..4 |-> Xor[x[i]][k[i]]]
Swap(x) == <<x[2], x[1]>>
SwapPairs(x) == <<x[3], x[4], x[1], x[2]>>

\* Whitening, then four leaves a round; the last round has no mix-columns.
AesEncryptNode(ks, i, x) ==
    CASE i % 4 = 1 -> AddKey(x, ks[(i - 1) \div 4])
      [] i % 4 = 2 -> Layer[<<"sub-bytes">>][x]
      [] i % 4 = 3 -> Layer[<<"shift-rows">>][x]
      [] i % 4 = 0 /\ i < 4 * AesRounds -> Layer[<<"mix-columns">>][x]
      [] i = 4 * AesRounds -> AddKey(x, ks[AesRounds])

\* Rounds AesRounds - 1 down to 0; the last has no inverse mix-columns.
AesDecryptNode(ks, i, x) ==
    CASE i = 1 -> AddKey(x, ks[AesRounds])
      [] i % 4 = 2 -> InvLayer[<<"shift-rows">>][x]
      [] i % 4 = 3 -> InvLayer[<<"sub-bytes">>][x]
      [] i % 4 = 0 -> AddKey(x, ks[AesRounds - (i \div 4)])
      [] i % 4 = 1 /\ i > 1 -> InvLayer[<<"mix-columns">>][x]

SBox(round) == <<"s-box", (round - 1) % 8>>

\* The initial permutation, three leaves a round, the final permutation,
\* which inverts the initial one; the last round adds a second key instead of
\* the linear transform.
SerpentEncryptNode(ks, i, x) ==
    LET round == (i + 1) \div 3
    IN  CASE i = 1 -> Layer[<<"permutation">>][x]
          [] i = 3 * SerpentRounds + 2 -> InvLayer[<<"permutation">>][x]
          [] i > 1 /\ i % 3 = 2 /\ round <= SerpentRounds -> AddKey(x, ks[round - 1])
          [] i % 3 = 0 -> Layer[SBox(round)][x]
          [] i > 1 /\ i % 3 = 1 /\ round < SerpentRounds -> Layer[<<"linear-transform">>][x]
          [] i = 3 * SerpentRounds + 1 -> AddKey(x, ks[SerpentRounds])

\* The first inverse round undoes the encrypting spec's last one.
SerpentDecryptNode(ks, i, x) ==
    LET round == SerpentRounds + 1 - ((i + 1) \div 3)
    IN  CASE i = 1 -> Layer[<<"permutation">>][x]
          [] i = 2 -> AddKey(x, ks[SerpentRounds])
          [] i = 3 * SerpentRounds + 2 -> InvLayer[<<"permutation">>][x]
          [] i > 2 /\ i % 3 = 2 /\ round > 0 -> InvLayer[<<"linear-transform">>][x]
          [] i % 3 = 0 -> InvLayer[SBox(round)][x]
          [] i > 1 /\ i % 3 = 1 -> AddKey(x, ks[round - 1])

-----------------------------------------------------------------------------
(***************************************************************************)
(* The Feistel ciphers: one round group per node.                          *)
(***************************************************************************)

DesSwapped(k, x) == <<x[2], Xor[x[1]][DesF[k][x[2]]]>>
DesUnswapped(k, x) == <<Xor[x[1]][DesF[k][x[2]]], x[2]>>

\* buildDesRound: the last round does not swap the halves.
DesRound(ks, aux, round, x) ==
    IF round < FeistelRounds THEN DesSwapped(ks[aux], x) ELSE DesUnswapped(ks[aux], x)

\* Both directions run the same rounds between the two permutations; the keys
\* come in the opposite order.
DesNode(w, ks, i, x) ==
    CASE i = 1 -> DesIp[x]
      [] i = FeistelRounds + 2 -> DesFp[x]
      [] i \in 2..(FeistelRounds + 1) ->
             DesRound(ks, IF w = "encrypt" THEN i - 2 ELSE FeistelRounds + 1 - i, i - 1, x)

\* The round group: key, F, and the halves swapped by the recombination.
BlowfishRound(p, x) ==
    LET left == Xor[x[1]][p] IN <<Xor[BlowfishF[left]][x[2]], left>>

\* buildWhitening undoes the last swap.
Whitened(leftKey, rightKey, x) == <<Xor[x[2]][leftKey], Xor[x[1]][rightKey]>>

BlowfishNode(w, ks, i, x) ==
    CASE i <= FeistelRounds ->
             BlowfishRound(ks[IF w = "encrypt" THEN i - 1 ELSE FeistelRounds + 2 - i], x)
      [] i > FeistelRounds /\ w = "encrypt" -> Whitened(ks[FeistelRounds + 1], ks[FeistelRounds], x)
      [] i > FeistelRounds /\ w = "decrypt" -> Whitened(ks[0], ks[1], x)

Rol(b, a) == Ror[WordBits - b][a]
T1(x) == TwofishG[Rol(Skew, x[2])]
F0(k, x) == Add[Add[TwofishG[x[1]]][T1(x)]][k]
F1(k, x) == Add[Add[TwofishG[x[1]]][Add[T1(x)][T1(x)]]][k]

\* Mutant of TwofishRound: decryption keeps encryption's order of the one-bit
\* rotations.
TwofishRoundRotatedAlike(w, k0, k1, x) ==
    <<Ror[1][Xor[x[3]][F0(k0, x)]], Xor[Rol(1, x[4])][F1(k1, x)], x[1], x[2]>>

\* The one-bit rotations come after the exclusive or on one side and before
\* it on the other; decryption exchanges the sides.
TwofishRound(w, k0, k1, x) ==
    IF w = "encrypt"
    THEN <<Ror[1][Xor[x[3]][F0(k0, x)]], Xor[Rol(1, x[4])][F1(k1, x)], x[1], x[2]>>
    ELSE <<Xor[Rol(1, x[3])][F0(k0, x)], Ror[1][Xor[x[4]][F1(k1, x)]], x[1], x[2]>>

\* The words arrive and leave in little-endian order.
WhitenIn(ks, from, x) == [i \in 1..4 |-> Xor[Reverse[x[i]]][ks[from + i - 1]]]
WhitenOut(ks, from, x) == [i \in 1..4 |-> Reverse[Xor[SwapPairs(x)[i]][ks[from + i - 1]]]]

TwofishNode(w, ks, i, x) ==
    LET first == IF w = "encrypt" THEN 0 ELSE 4
        turn == IF w = "encrypt" THEN i - 2 ELSE FeistelRounds + 1 - i
    IN  CASE i = 1 -> WhitenIn(ks, first, x)
          [] i \in 2..(FeistelRounds + 1) -> TwofishRound(w, ks[8 + 2 * turn], ks[9 + 2 * turn], x)
          [] i = FeistelRounds + 2 -> WhitenOut(ks, 4 - first, x)

-----------------------------------------------------------------------------
(***************************************************************************)
(* Speck: one leaf per round.                                              *)
(***************************************************************************)

SpeckRound(k, x) ==
    LET left == Xor[Add[Ror[Alpha][x[1]]][x[2]]][k] IN <<left, Xor[Rol(Beta, x[2])][left]>>

SpeckRoundInverse(k, x) ==
    LET right == Ror[Beta][Xor[x[2]][x[1]]]
    IN  <<Rol(Alpha, Sub[Xor[x[1]][k]][right]), right>>

SpeckNode(w, ks, i, x) ==
    IF w = "encrypt" THEN SpeckRound(ks[i - 1], x) ELSE SpeckRoundInverse(ks[SpeckRounds - i], x)

-----------------------------------------------------------------------------
(***************************************************************************)
(* The runs.                                                               *)
(***************************************************************************)

\* The nodes of a cipher's body.
Nodes(c) ==
    CASE c = "aes" -> 4 * AesRounds
      [] c = "serpent" -> 3 * SerpentRounds + 2
      [] c \in {"des", "twofish"} -> FeistelRounds + 2
      [] c = "blowfish" -> FeistelRounds + 1
      [] c = "speck" -> SpeckRounds

\* What node i of a spec makes of its input.
Node(c, w, ks, i, x) ==
    CASE c = "aes" -> IF w = "encrypt" THEN AesEncryptNode(ks, i, x) ELSE AesDecryptNode(ks, i, x)
      [] c = "serpent" ->
             IF w = "encrypt" THEN SerpentEncryptNode(ks, i, x) ELSE SerpentDecryptNode(ks, i, x)
      [] c = "des" -> DesNode(w, ks, i, x)
      [] c = "blowfish" -> BlowfishNode(w, ks, i, x)
      [] c = "twofish" -> TwofishNode(w, ks, i, x)
      [] c = "speck" -> SpeckNode(w, ks, i, x)

CiphersInit ==
    /\ cipher \in Ciphers /\ key \in RoundKeys[cipher] /\ plain \in CipherBlock(cipher)
    /\ way = "encrypt" /\ n = 0 /\ block = plain /\ past = <<>>

RunNode ==
    /\ n < Nodes(cipher)
    /\ n' = n + 1 /\ block' = Node(cipher, way, key, n + 1, block)
    /\ past' = IF way = "encrypt" THEN Append(past, block) ELSE past
    /\ UNCHANGED <<cipher, key, plain, way>>

\* The output of the encrypting spec becomes the input of the decrypting one.
FlipWay ==
    /\ way = "encrypt" /\ n = Nodes(cipher)
    /\ way' = "decrypt" /\ n' = 0 /\ past' = Append(past, block)
    /\ UNCHANGED <<cipher, key, plain, block>>

CiphersNext == RunNode \/ FlipWay

CiphersSpec == CiphersInit /\ [][CiphersNext]_cipherVars

-----------------------------------------------------------------------------
(***************************************************************************)
(* Properties.                                                             *)
(***************************************************************************)

\* A block keeps its size through every node.
BlocksTyped ==
    /\ cipher \in Ciphers /\ key \in RoundKeys[cipher]
    /\ plain \in CipherBlock(cipher) /\ block \in CipherBlock(cipher)
    /\ way \in {"encrypt", "decrypt"} /\ n \in 0..Nodes(cipher)
    /\ past \in Seq(CipherBlock(cipher))

\* The decrypting spec recovers the plaintext, whatever the rounds compute of
\* their halves and whatever the round keys are.
Recovers == way = "decrypt" /\ n = Nodes(cipher) => block = plain

\* What the decrypting run holds when i nodes are left, in terms of what the
\* encrypting run held after i nodes.
Mirrored(c, ks, i, xs) ==
    CASE c = "des" /\ i \in 2..FeistelRounds -> Swap(xs[i + 1])
      [] c = "blowfish" /\ i \in 1..FeistelRounds ->
             <<Xor[xs[i][2]][ks[i]], Xor[xs[i][1]][ks[i - 1]]>>
      [] c = "twofish" /\ i \in 1..(FeistelRounds + 1) -> SwapPairs(xs[i + 1])
      [] OTHER -> xs[i + 1]

\* Decryption retraces encryption node by node: the trace of the decrypting
\* run shows the blocks of the encrypting one backwards, with the halves
\* exchanged between the rounds of DES and Twofish, and exchanged under the
\* next keys between those of Blowfish.
Backtracks == way = "decrypt" => block = Mirrored(cipher, key, Nodes(cipher) - n, past)

\* The decrypting spec of every cipher is the mirror image of its encrypting
\* spec, node by node and to the end, although the two are written by hand.
DecryptionMirrors == BlocksTyped /\ Recovers /\ Backtracks

=============================================================================
