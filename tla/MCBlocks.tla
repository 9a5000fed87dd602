------------------------------ MODULE MCBlocks ------------------------------
(***************************************************************************)
(* The two sides of a block cipher for TLC: a message through a mode of    *)
(* operation, and a block through the specs of a cipher and its inverse.   *)
(* A behaviour takes one of them and leaves the other where it starts.     *)
(*                                                                         *)
(* Messages: blocks of two bytes of four values, a cipher that mixes both  *)
(* bytes, and all the messages of up to five bytes of three values.        *)
(* Ciphers: words of two bits; three rounds of the Feistel ciphers, two of *)
(* AES, ten of Serpent, so that its eight S-boxes come round again.        *)
(***************************************************************************)
EXTENDS BlockModes, BlockCiphers, TLC

MCXorByte == [a \in 0..3 |-> [b \in 0..3 |->
    (((a % 2) + (b % 2)) % 2) + 2 * (((a \div 2) + (b \div 2)) % 2)]]

\* An invertible map of the pairs of bytes that no exclusive or describes.
MCE == [x \in [1..2 -> 0..3] |-> <<(x[1] + x[2] + 1) % 4, (x[1] + 2 * x[2] + 3) % 4>>]
MCD == [y \in [1..2 -> 0..3] |-> CHOOSE x \in [1..2 -> 0..3] : MCE[x] = y]

MCPlaintexts == UNION {[1..size -> {0, 2, 3}] : size \in 0..5}
MCIvs == {<<1, 2>>, <<3, 3>>}

-----------------------------------------------------------------------------
MCWord == 0..3
MCXor == [a \in MCWord |-> [b \in MCWord |->
    (((a % 2) + (b % 2)) % 2) + 2 * (((a \div 2) + (b \div 2)) % 2)]]
MCAdd == [a \in MCWord |-> [b \in MCWord |-> (a + b) % 4]]
MCSub == [a \in MCWord |-> [b \in MCWord |-> (a - b + 4) % 4]]

\* Rotation of two bits: by an odd number it exchanges them.
Exchanged(a) == (a \div 2) + 2 * (a % 2)
MCRor == [i \in 0..2 |-> [a \in MCWord |-> IF i = 1 THEN Exchanged(a) ELSE a]]
MCReverse == [a \in MCWord |-> Exchanged(a)]

MCQuad == [1..4 -> MCWord]
MCSBoxes == {<<"s-box", i>> : i \in 0..7}
MCLayers == {<<"sub-bytes">>, <<"shift-rows">>, <<"mix-columns">>,
             <<"linear-transform">>, <<"permutation">>} \cup MCSBoxes

\* Bijections of the quads, no two alike.
Forward(l, x) ==
    CASE l = <<"sub-bytes">> -> <<(x[1] + 1) % 4, MCXor[x[2]][1], (3 * x[3]) % 4, Exchanged(x[4])>>
      [] l = <<"shift-rows">> -> <<x[1], x[3], x[4], x[2]>>
      [] l = <<"mix-columns">> -> <<(x[1] + x[2]) % 4, x[2], (x[3] + x[1]) % 4, x[4]>>
      [] l = <<"linear-transform">> -> <<x[1], (x[2] + x[1]) % 4, x[3], (x[4] + 3 * x[2]) % 4>>
      [] l = <<"permutation">> -> <<x[4], x[1], x[2], x[3]>>
      [] OTHER -> <<(x[1] + l[2]) % 4, MCXor[x[2]][l[2] \div 2], x[3], (x[4] + x[3] * l[2]) % 4>>

MCLayer == [l \in MCLayers |-> [x \in MCQuad |-> Forward(l, x)]]
MCInvLayer == [l \in MCLayers |->
    LET f == [x \in MCQuad |-> Forward(l, x)]
        pairs == {<<f[x], x>> : x \in MCQuad}
    IN  [y \in MCQuad |-> (CHOOSE p \in pairs : p[1] = y)[2]]]

MCPair == [1..2 -> MCWord]
MCDesIp == [x \in MCPair |-> <<x[2], (x[1] + x[2]) % 4>>]
MCDesFp == [y \in MCPair |-> <<(y[2] - y[1] + 4) % 4, y[1]>>]

\* Rounds that no inverse undoes.
MCDesF == [s \in MCWord |-> [a \in MCWord |-> (a * (s + 1)) % 4]]
MCBlowfishF == [a \in MCWord |-> (a * a + 1) % 4]
MCTwofishG == [a \in MCWord |-> IF a = 2 THEN 1 ELSE a]

\* Two schedules of different round keys for each cipher.
WordKeys(top) == {[i \in 0..top |-> (i + s) % 4] : s \in {0, 3}}
QuadKeys(top) == {[i \in 0..top |-> <<(i + s) % 4, (2 * i + s) % 4, 3, (i * s) % 4>>] : s \in {1, 2}}
MCRoundKeys == [c \in {"aes", "serpent", "des", "blowfish", "twofish", "speck"} |->
    CASE c = "aes" -> QuadKeys(2) [] c = "serpent" -> QuadKeys(10)
      [] c = "des" -> WordKeys(2) [] c = "blowfish" -> WordKeys(4)
      [] c = "twofish" -> WordKeys(13) [] c = "speck" -> WordKeys(3)]

-----------------------------------------------------------------------------
FirstMessage == [mode |-> "ecb", scheme |-> "none", iv |-> <<1, 2>>, plain |-> <<0, 0>>]
MessageWaits == task = FirstMessage /\ dir = "encrypt" /\ pc = "start"
CipherWaits ==
    /\ cipher = "des" /\ key = [i \in 0..2 |-> i] /\ plain = <<0, 0>>
    /\ way = "encrypt" /\ n = 0

BlocksInit == (CipherWaits /\ CiphersInit /\ Init) \/ (MessageWaits /\ Init /\ CiphersInit)

BlocksNext ==
    \/ CipherWaits /\ Next /\ UNCHANGED cipherVars
    \/ MessageWaits /\ CiphersNext /\ UNCHANGED vars

BlocksSpec == BlocksInit /\ [][BlocksNext]_<<vars, cipherVars>>

=============================================================================
