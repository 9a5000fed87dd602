------------------------- MODULE BlockCiphersProofs -------------------------
(***************************************************************************)
(* Every decrypting spec undoes its encrypting spec, for every number of   *)
(* rounds, every round function and every round key: theorems about        *)
(* BlockCiphers.  They discharge what BlockModes assumes of its cipher.    *)
(***************************************************************************)
EXTENDS BlockCiphers, SequenceTheorems, TLAPS

-----------------------------------------------------------------------------
(***************************************************************************)
(* Words, pairs and quads.                                                 *)
(***************************************************************************)

\* The operations on words stay among the words.
LEMMA WordOps ==
    ASSUME NEW a \in Word, NEW b \in Word
    PROVE  /\ Xor[a][b] \in Word /\ Xor[Xor[a][b]][b] = a /\ Xor[a][b] = Xor[b][a]
           /\ Add[a][b] \in Word /\ Sub[a][b] \in Word /\ Sub[Add[a][b]][b] = a
           /\ Reverse[a] \in Word /\ Reverse[Reverse[a]] = a
           /\ DesF[a][b] \in Word /\ BlowfishF[a] \in Word /\ TwofishG[a] \in Word
  <1>1. /\ Xor[a] \in [Word -> Word] /\ Add[a] \in [Word -> Word] /\ Sub[a] \in [Word -> Word]
        /\ DesF[a] \in [Word -> Word]
    BY WordAssumption, RoundAssumption
  <1>2. Xor[a][b] \in Word /\ Add[a][b] \in Word /\ Sub[a][b] \in Word /\ DesF[a][b] \in Word
    BY <1>1
  <1>3. Xor[Xor[a][b]][b] = a /\ Xor[a][b] = Xor[b][a] /\ Sub[Add[a][b]][b] = a
    BY WordAssumption
  <1>4. Reverse[a] \in Word /\ Reverse[Reverse[a]] = a
    BY WordAssumption
  <1>5. BlowfishF[a] \in Word /\ TwofishG[a] \in Word
    BY RoundAssumption
  <1> QED  BY <1>2, <1>3, <1>4, <1>5

\* The exclusive or is associative.
LEMMA XorAssociates ==
    ASSUME NEW a \in Word, NEW b \in Word, NEW d \in Word
    PROVE  Xor[Xor[a][b]][d] = Xor[a][Xor[b][d]]
  BY WordAssumption

\* Rotations stay among the words and undo each other.
LEMMA Rotations ==
    ASSUME NEW a \in Word, NEW m \in 0..WordBits
    PROVE  /\ Ror[m][a] \in Word /\ Rol(m, a) \in Word
           /\ Rol(m, Ror[m][a]) = a /\ Ror[m][Rol(m, a)] = a
  <1>1. WordBits - m \in 0..WordBits /\ WordBits - (WordBits - m) = m
    BY WordAssumption
  <1>2. Ror[m][a] \in Word /\ Ror[WordBits - m][a] \in Word
    <2>1. \A j \in 0..WordBits : Ror[j] \in [Word -> Word]
      BY WordAssumption
    <2>2. \A j \in 0..WordBits : Ror[j][a] \in Word
      BY <2>1
    <2> QED  BY <1>1, <2>2
  <1>3. Ror[WordBits - m][Ror[m][a]] = a
    BY WordAssumption
  <1>4. Ror[WordBits - (WordBits - m)][Ror[WordBits - m][a]] = a
    BY <1>1, WordAssumption
  <1> QED  BY <1>1, <1>2, <1>3, <1>4 DEF Rol

\* A pair is what its two words are.
LEMMA Pairs ==
    /\ \A a, b \in Word : <<a, b>> \in Pair /\ <<a, b>>[1] = a /\ <<a, b>>[2] = b
    /\ \A x \in Pair : x[1] \in Word /\ x[2] \in Word /\ x = <<x[1], x[2]>>
  <1>1. ASSUME NEW a \in Word, NEW b \in Word
        PROVE  <<a, b>> \in Pair /\ <<a, b>>[1] = a /\ <<a, b>>[2] = b
    BY <1>1 DEF Pair
  <1>2. ASSUME NEW x \in Pair PROVE x[1] \in Word /\ x[2] \in Word /\ x = <<x[1], x[2]>>
    <2>1. x[1] \in Word /\ x[2] \in Word /\ DOMAIN x = 1..2
      BY DEF Pair
    <2>2. <<x[1], x[2]>> \in Pair
      BY <1>1, <2>1
    <2>3. \A i \in 1..2 : x[i] = <<x[1], x[2]>>[i]
      BY <1>1, <2>1
    <2> QED  BY <2>1, <2>2, <2>3 DEF Pair
  <1> QED  BY <1>1, <1>2

\* A quad is what its four words are.
LEMMA Quads ==
    /\ \A a, b, c, d \in Word :
         /\ <<a, b, c, d>> \in Quad
         /\ <<a, b, c, d>>[1] = a /\ <<a, b, c, d>>[2] = b
         /\ <<a, b, c, d>>[3] = c /\ <<a, b, c, d>>[4] = d
    /\ \A x \in Quad : x[1] \in Word /\ x[2] \in Word /\ x[3] \in Word /\ x[4] \in Word
    /\ \A x, y \in Quad : x[1] = y[1] /\ x[2] = y[2] /\ x[3] = y[3] /\ x[4] = y[4] => x = y
  <1>1. ASSUME NEW a \in Word, NEW b \in Word, NEW c \in Word, NEW d \in Word
        PROVE  /\ <<a, b, c, d>> \in Quad
               /\ <<a, b, c, d>>[1] = a /\ <<a, b, c, d>>[2] = b
               /\ <<a, b, c, d>>[3] = c /\ <<a, b, c, d>>[4] = d
    BY <1>1 DEF Quad
  <1>2. \A x \in Quad : x[1] \in Word /\ x[2] \in Word /\ x[3] \in Word /\ x[4] \in Word
    BY DEF Quad
  <1>3. ASSUME NEW x \in Quad, NEW y \in Quad,
               x[1] = y[1], x[2] = y[2], x[3] = y[3], x[4] = y[4]
        PROVE  x = y
    <2>1. \A i \in 1..4 : x[i] = y[i]
      BY <1>3
    <2> QED  BY <2>1 DEF Quad
  <1> QED  BY <1>1, <1>2, <1>3

\* Adding a round key twice changes nothing.
LEMMA AddKeyUndoes ==
    ASSUME NEW x \in Quad, NEW k \in Quad
    PROVE  AddKey(x, k) \in Quad /\ AddKey(AddKey(x, k), k) = x
  <1>1. \A i \in 1..4 : x[i] \in Word /\ k[i] \in Word
    BY DEF Quad
  <1>2. \A i \in 1..4 : Xor[x[i]][k[i]] \in Word /\ Xor[Xor[x[i]][k[i]]][k[i]] = x[i]
    BY <1>1, WordOps
  <1>3. AddKey(x, k) \in Quad /\ AddKey(AddKey(x, k), k) \in Quad
    BY <1>2, WordOps, <1>1 DEF AddKey, Quad
  <1>4. \A i \in 1..4 : AddKey(AddKey(x, k), k)[i] = x[i]
    BY <1>2 DEF AddKey
  <1> QED  BY <1>3, <1>4 DEF Quad

-----------------------------------------------------------------------------
(***************************************************************************)
(* AES and Serpent: the leaves undo each other one by one.                 *)
(***************************************************************************)

\* The inverse leaf of a layer undoes it.
LEMMA LayersUndo ==
    ASSUME NEW l \in Layers, NEW x \in Quad
    PROVE  /\ Layer[l][x] \in Quad /\ InvLayer[l][x] \in Quad
           /\ InvLayer[l][Layer[l][x]] = x /\ Layer[l][InvLayer[l][x]] = x
  BY LayerAssumption

\* A leaf of the decrypting AES spec undoes its mirror image.
LEMMA AesUndoes ==
    ASSUME NEW ks \in RoundKeys["aes"], NEW i \in 1..(4 * AesRounds), NEW x \in Quad
    PROVE  /\ AesEncryptNode(ks, i, x) \in Quad
           /\ AesDecryptNode(ks, 4 * AesRounds + 1 - i, AesEncryptNode(ks, i, x)) = x
  <1> DEFINE m == 4 * AesRounds + 1 - i
  <1>0. AesRounds \in Nat \ {0} /\ i \in Nat /\ m \in 1..(4 * AesRounds)
    BY RoundAssumption
  <1>1. \A r \in 0..AesRounds : ks[r] \in Quad
    BY KeyAssumption
  <1>2. {<<"sub-bytes">>, <<"shift-rows">>, <<"mix-columns">>} \subseteq Layers
    BY DEF Layers
  <1>3. CASE i % 4 = 1
    <2> DEFINE q == (i - 1) \div 4
    <2>1. q \in 0..AesRounds /\ i = 4 * q + 1
      BY <1>0, <1>3
    <2> HIDE DEF q
    <2>2. m = 4 * (AesRounds - q) /\ m % 4 = 0 /\ m # 1 /\ AesRounds - (m \div 4) = q
      BY <1>0, <2>1
    <2>3. AesEncryptNode(ks, i, x) = AddKey(x, ks[q])
      BY <1>0, <1>3 DEF AesEncryptNode, q
    <2> HIDE DEF m
    <2>4. \A y : AesDecryptNode(ks, m, y) = AddKey(y, ks[q])
      BY <2>2 DEF AesDecryptNode
    <2> QED  BY <1>1, <2>1, <2>3, <2>4, AddKeyUndoes DEF m
  <1>4. CASE i % 4 = 2
    <2>1. m % 4 = 3 /\ m # 1
      BY <1>0, <1>4
    <2> HIDE DEF m
    <2>2. AesEncryptNode(ks, i, x) = Layer[<<"sub-bytes">>][x]
      BY <1>0, <1>4 DEF AesEncryptNode
    <2>3. \A y : AesDecryptNode(ks, m, y) = InvLayer[<<"sub-bytes">>][y]
      BY <2>1 DEF AesDecryptNode
    <2> QED  BY <1>2, <2>2, <2>3, LayersUndo DEF m
  <1>5. CASE i % 4 = 3
    <2>1. m % 4 = 2 /\ m # 1
      BY <1>0, <1>5
    <2> HIDE DEF m
    <2>2. AesEncryptNode(ks, i, x) = Layer[<<"shift-rows">>][x]
      BY <1>0, <1>5 DEF AesEncryptNode
    <2>3. \A y : AesDecryptNode(ks, m, y) = InvLayer[<<"shift-rows">>][y]
      BY <2>1 DEF AesDecryptNode
    <2> QED  BY <1>2, <2>2, <2>3, LayersUndo DEF m
  <1>6. CASE i % 4 = 0 /\ i < 4 * AesRounds
    <2>1. m % 4 = 1 /\ m > 1 /\ m # 1
      BY <1>0, <1>6
    <2> HIDE DEF m
    <2>2. AesEncryptNode(ks, i, x) = Layer[<<"mix-columns">>][x]
      BY <1>6 DEF AesEncryptNode
    <2>3. \A y : AesDecryptNode(ks, m, y) = InvLayer[<<"mix-columns">>][y]
      BY <2>1 DEF AesDecryptNode
    <2> QED  BY <1>2, <2>2, <2>3, LayersUndo DEF m
  <1>7. CASE i = 4 * AesRounds
    <2>1. m = 1 /\ i % 4 = 0 /\ ~(i < 4 * AesRounds) /\ AesRounds \in 0..AesRounds
      BY <1>0, <1>7
    <2>2. AesEncryptNode(ks, i, x) = AddKey(x, ks[AesRounds])
      BY <1>7, <2>1 DEF AesEncryptNode
    <2>3. \A y : AesDecryptNode(ks, 1, y) = AddKey(y, ks[AesRounds])
      BY DEF AesDecryptNode
    <2> QED  BY <1>1, <2>1, <2>2, <2>3, AddKeyUndoes
  <1>8. i % 4 \in 0..3 /\ (i % 4 = 0 => i < 4 * AesRounds \/ i = 4 * AesRounds)
    BY <1>0
  <1> QED  BY <1>3, <1>4, <1>5, <1>6, <1>7, <1>8

\* A leaf of the decrypting Serpent spec undoes its mirror image.
LEMMA SerpentUndoes ==
    ASSUME NEW ks \in RoundKeys["serpent"], NEW i \in 1..(3 * SerpentRounds + 2), NEW x \in Quad
    PROVE  /\ SerpentEncryptNode(ks, i, x) \in Quad
           /\ SerpentDecryptNode(ks, 3 * SerpentRounds + 3 - i, SerpentEncryptNode(ks, i, x)) = x
  <1> DEFINE R == SerpentRounds
             m == 3 * R + 3 - i
  <1>0. R \in Nat \ {0} /\ i \in Nat /\ m \in 1..(3 * R + 2)
    BY RoundAssumption
  <1>1. \A r \in 0..R : ks[r] \in Quad
    BY KeyAssumption
  <1>2. /\ <<"linear-transform">> \in Layers /\ <<"permutation">> \in Layers
        /\ \A r \in 1..R : SBox(r) \in Layers
    <2>1. \A r \in 1..R : (r - 1) % 8 \in 0..7
      BY <1>0
    <2> QED  BY <2>1 DEF Layers, SBoxes, SBox
  <1>3. CASE i = 1
    <2>1. m = 3 * R + 2 /\ m # 1 /\ m # 2 /\ (m + 1) \div 3 = R + 1
      BY <1>0, <1>3
    <2>2. SerpentEncryptNode(ks, i, x) = Layer[<<"permutation">>][x]
      BY <1>0, <1>3 DEF SerpentEncryptNode
    <2>3. \A y : SerpentDecryptNode(ks, m, y) = InvLayer[<<"permutation">>][y]
      BY <1>0, <2>1 DEF SerpentDecryptNode
    <2> QED  BY <1>2, <2>2, <2>3, LayersUndo
  <1>4. CASE i = 3 * R + 2
    <2>1. m = 1 /\ i # 1
      BY <1>0, <1>4
    <2>2. SerpentEncryptNode(ks, i, x) = InvLayer[<<"permutation">>][x]
      BY <1>0, <1>4, <2>1 DEF SerpentEncryptNode
    <2>3. \A y : SerpentDecryptNode(ks, 1, y) = Layer[<<"permutation">>][y]
      BY <1>0 DEF SerpentDecryptNode
    <2> QED  BY <1>2, <2>1, <2>2, <2>3, LayersUndo
  <1>5. CASE i = 3 * R + 1
    <2>1. m = 2 /\ i # 1 /\ i # 3 * R + 2 /\ i % 3 = 1 /\ (i + 1) \div 3 = R /\ R \in 0..R
      BY <1>0, <1>5
    <2>2. SerpentEncryptNode(ks, i, x) = AddKey(x, ks[R])
      BY <1>5, <2>1, <1>0 DEF SerpentEncryptNode
    <2>3. \A y : SerpentDecryptNode(ks, 2, y) = AddKey(y, ks[R])
      BY <1>0 DEF SerpentDecryptNode
    <2> QED  BY <1>1, <2>1, <2>2, <2>3, AddKeyUndoes
  <1>6. CASE i % 3 = 2 /\ i < 3 * R + 2
    <2> DEFINE q == (i + 1) \div 3
    <2>1. q \in 1..R /\ i = 3 * q - 1 /\ i # 1 /\ q - 1 \in 0..R
      BY <1>0, <1>6
    <2> HIDE DEF q
    <2>2. m = 3 * (R + 1 - q) + 1 /\ m % 3 = 1 /\ m > 2 /\ m # 3 * R + 2 /\ R + 1 - ((m + 1) \div 3) = q
      BY <1>0, <2>1
    <2>3. SerpentEncryptNode(ks, i, x) = AddKey(x, ks[q - 1])
      BY <1>0, <1>6, <2>1 DEF SerpentEncryptNode, q
    <2> HIDE DEF m
    <2>4. \A y : SerpentDecryptNode(ks, m, y) = AddKey(y, ks[q - 1])
      BY <1>0, <2>2 DEF SerpentDecryptNode
    <2> QED  BY <1>1, <2>1, <2>3, <2>4, AddKeyUndoes DEF m
  <1>7. CASE i % 3 = 0
    <2> DEFINE q == (i + 1) \div 3
    <2>1. q \in 1..R /\ i = 3 * q /\ i # 1
      BY <1>0, <1>7
    <2> HIDE DEF q
    <2>2. m = 3 * (R + 1 - q) /\ m % 3 = 0 /\ m > 2 /\ m # 3 * R + 2 /\ R + 1 - ((m + 1) \div 3) = q
      BY <1>0, <2>1
    <2>3. SerpentEncryptNode(ks, i, x) = Layer[SBox(q)][x]
      BY <1>0, <1>7, <2>1 DEF SerpentEncryptNode, q
    <2> HIDE DEF m
    <2>4. \A y : SerpentDecryptNode(ks, m, y) = InvLayer[SBox(q)][y]
      BY <1>0, <2>2 DEF SerpentDecryptNode
    <2> QED  BY <1>2, <2>1, <2>3, <2>4, LayersUndo DEF m
  <1>8. CASE i % 3 = 1 /\ 1 < i /\ i < 3 * R + 1
    <2> DEFINE q == (i + 1) \div 3
    <2>1. q \in 1..(R - 1) /\ i = 3 * q + 1
      BY <1>0, <1>8
    <2> HIDE DEF q
    <2>2. m = 3 * (R + 1 - q) - 1 /\ m % 3 = 2 /\ m > 2 /\ m # 3 * R + 2 /\ R + 1 - ((m + 1) \div 3) = q
      BY <1>0, <2>1
    <2>3. SerpentEncryptNode(ks, i, x) = Layer[<<"linear-transform">>][x]
      BY <1>0, <1>8, <2>1 DEF SerpentEncryptNode, q
    <2> HIDE DEF m
    <2>4. \A y : SerpentDecryptNode(ks, m, y) = InvLayer[<<"linear-transform">>][y]
      BY <1>0, <2>1, <2>2 DEF SerpentDecryptNode
    <2> QED  BY <1>2, <2>3, <2>4, LayersUndo DEF m
  <1>9. \/ i = 1 \/ i = 3 * R + 2 \/ i = 3 * R + 1 \/ i % 3 = 0
        \/ (i % 3 = 2 /\ i < 3 * R + 2) \/ (i % 3 = 1 /\ 1 < i /\ i < 3 * R + 1)
    BY <1>0
  <1> QED  BY <1>3, <1>4, <1>5, <1>6, <1>7, <1>8, <1>9

-----------------------------------------------------------------------------
(***************************************************************************)
(* The Feistel ciphers: a round run on the exchanged halves undoes itself. *)
(***************************************************************************)

\* The two forms of a DES round undo each other and themselves.
LEMMA DesRoundUndoes ==
    ASSUME NEW k \in Word, NEW x \in Pair
    PROVE  /\ DesSwapped(k, x) \in Pair /\ DesUnswapped(k, x) \in Pair
           /\ Swap(x) \in Pair
           /\ DesSwapped(k, DesUnswapped(k, x)) = Swap(x)
           /\ DesSwapped(k, Swap(DesSwapped(k, x))) = Swap(x)
           /\ DesUnswapped(k, Swap(DesSwapped(k, x))) = x
           /\ DesUnswapped(k, DesUnswapped(k, x)) = x
  <1> DEFINE a == x[1]
             b == x[2]
             f == DesF[k][b]
             c == Xor[a][f]
  <1>1. a \in Word /\ b \in Word /\ x = <<a, b>>
    BY Pairs
  <1>2. f \in Word /\ c \in Word /\ Xor[c][f] = a
    BY <1>1, WordOps
  <1>3. DesSwapped(k, x) = <<b, c>> /\ DesUnswapped(k, x) = <<c, b>> /\ Swap(x) = <<b, a>>
    BY DEF DesSwapped, DesUnswapped, Swap
  <1> HIDE DEF a, b, f, c
  <1>4. Swap(<<b, c>>) = <<c, b>>
    BY <1>1, <1>2, Pairs DEF Swap
  <1>5. DesSwapped(k, <<c, b>>) = <<b, a>> /\ DesUnswapped(k, <<c, b>>) = <<a, b>>
    <2>1. <<c, b>>[1] = c /\ <<c, b>>[2] = b
      BY <1>1, <1>2, Pairs
    <2> QED  BY <1>2, <2>1 DEF DesSwapped, DesUnswapped, f
  <1>6. <<b, c>> \in Pair /\ <<c, b>> \in Pair /\ <<b, a>> \in Pair
    BY <1>1, <1>2, Pairs
  <1> QED  BY <1>1, <1>3, <1>4, <1>5, <1>6

\* A node of the decrypting DES spec takes one mirror image to the next.
LEMMA DesUndoes ==
    ASSUME NEW ks \in RoundKeys["des"], NEW i \in 1..(FeistelRounds + 2),
           NEW x \in Pair, NEW y, y = DesNode("encrypt", ks, i, x)
    PROVE  /\ y \in Pair
           /\ DesNode("decrypt", ks, FeistelRounds + 3 - i, IF i \in 2..FeistelRounds THEN Swap(y) ELSE y)
                  = IF i - 1 \in 2..FeistelRounds THEN Swap(x) ELSE x
  <1> DEFINE R == FeistelRounds
             m == R + 3 - i
  <1>0. R \in Nat \ {0} /\ i \in Nat /\ m \in 1..(R + 2)
    BY RoundAssumption
  <1>1. \A r \in 0..(R - 1) : ks[r] \in Word
    BY KeyAssumption
  <1>2. \A z \in Pair : DesIp[z] \in Pair /\ DesFp[z] \in Pair /\ DesFp[DesIp[z]] = z /\ DesIp[DesFp[z]] = z
    BY LayerAssumption
  <1>3. CASE i = 1
    <2>1. y = DesIp[x] /\ m = R + 2 /\ i \notin 2..R /\ i - 1 \notin 2..R
      BY <1>0, <1>3 DEF DesNode
    <2>2. \A z : DesNode("decrypt", ks, R + 2, z) = DesFp[z]
      BY <1>0 DEF DesNode
    <2> QED  BY <1>2, <2>1, <2>2
  <1>4. CASE i = R + 2
    <2>1. y = DesFp[x] /\ m = 1 /\ i \notin 2..R /\ i - 1 \notin 2..R
      BY <1>0, <1>4 DEF DesNode
    <2>2. \A z : DesNode("decrypt", ks, 1, z) = DesIp[z]
      BY <1>0 DEF DesNode
    <2> QED  BY <1>2, <2>1, <2>2
  <1>5. CASE i \in 2..(R + 1)
    <2> DEFINE k == ks[i - 2]
    <2>1. i - 2 \in 0..(R - 1) /\ k \in Word
      BY <1>0, <1>1, <1>5
    <2>2. y = IF i - 1 < R THEN DesSwapped(k, x) ELSE DesUnswapped(k, x)
      BY <1>0, <1>5 DEF DesNode, DesRound
    <2>3. m \in 2..(R + 1) /\ R + 1 - m = i - 2 /\ m # 1 /\ m # R + 2 /\ (m - 1 < R <=> i # 2)
      BY <1>0, <1>5
    <2>4. \A z : DesNode("decrypt", ks, m, z) = IF i # 2 THEN DesSwapped(k, z) ELSE DesUnswapped(k, z)
      <3> HIDE DEF m
      <3> QED  BY <2>3 DEF DesNode, DesRound
    <2>5. (i - 1 < R <=> i \in 2..R) /\ (i # 2 <=> i - 1 \in 2..R)
      BY <1>0, <1>5
    <2> HIDE DEF k, m
    <2>6. y \in Pair
      BY <2>1, <2>2, DesRoundUndoes
    <2>7. DesNode("decrypt", ks, m, IF i \in 2..R THEN Swap(y) ELSE y) = IF i # 2 THEN Swap(x) ELSE x
      <3>1. CASE i \in 2..R /\ i # 2
        BY <2>1, <2>2, <2>4, <2>5, <3>1, DesRoundUndoes
      <3>2. CASE i \in 2..R /\ i = 2
        BY <2>1, <2>2, <2>4, <2>5, <3>2, DesRoundUndoes
      <3>3. CASE i \notin 2..R /\ i # 2
        BY <2>1, <2>2, <2>4, <2>5, <3>3, DesRoundUndoes
      <3>4. CASE i \notin 2..R /\ i = 2
        BY <2>1, <2>2, <2>4, <2>5, <3>4, DesRoundUndoes
      <3> QED  BY <3>1, <3>2, <3>3, <3>4
    <2> QED  BY <2>5, <2>6, <2>7 DEF m
  <1> QED  BY <1>0, <1>3, <1>4, <1>5

\* What the decrypting Blowfish spec holds between two of its rounds: the
\* halves of x exchanged, under the keys of the next two.
Keyed(p, q, x) == <<Xor[x[2]][p], Xor[x[1]][q]>>

\* A Blowfish round and its whitening undone.
LEMMA BlowfishRoundUndoes ==
    ASSUME NEW p \in Word, NEW q \in Word, NEW o \in Word, NEW x \in Pair
    PROVE  /\ BlowfishRound(p, x) \in Pair /\ Keyed(o, q, x) \in Pair /\ Whitened(o, q, x) \in Pair
           /\ Whitened(o, q, x) = Keyed(o, q, x)
           /\ BlowfishRound(o, Keyed(o, q, BlowfishRound(p, x))) = Keyed(q, p, x)
           /\ Whitened(p, q, Keyed(q, p, x)) = x
  <1> DEFINE a == x[1]
             b == x[2]
             l == Xor[a][p]
             f == BlowfishF[l]
             r == Xor[f][b]
  <1>1. a \in Word /\ b \in Word /\ x = <<a, b>>
    BY Pairs
  <1>2. l \in Word /\ f \in Word /\ r \in Word /\ r = Xor[b][f] /\ Xor[r][f] = b /\ Xor[l][p] = a
    <2>1. l \in Word /\ Xor[l][p] = a
      BY <1>1, WordOps
    <2> HIDE DEF a, b, l
    <2>2. f \in Word
      BY <2>1, WordOps
    <2> HIDE DEF f
    <2>3. r \in Word /\ r = Xor[b][f]
      BY <1>1, <2>2, WordOps
    <2>4. Xor[r][f] = b
      BY <1>1, <2>2, <2>3, WordOps
    <2> QED
      BY <2>1, <2>2, <2>3, <2>4
  <1>3. BlowfishRound(p, x) = <<r, l>>
    BY DEF BlowfishRound
  <1>4. Keyed(o, q, x) = <<Xor[b][o], Xor[a][q]>> /\ Whitened(o, q, x) = <<Xor[b][o], Xor[a][q]>>
    BY DEF Keyed, Whitened
  <1>5. Xor[b][o] \in Word /\ Xor[a][q] \in Word
    BY <1>1, WordOps
  <1>6. Keyed(q, p, x) = <<Xor[b][q], l>>
    BY DEF Keyed
  <1> HIDE DEF a, b, l, f, r
  <1>7. Keyed(o, q, <<r, l>>) = <<Xor[l][o], Xor[r][q]>>
    BY <1>2, Pairs DEF Keyed
  <1>8. BlowfishRound(o, <<Xor[l][o], Xor[r][q]>>) = <<Xor[f][Xor[r][q]], l>>
    <2>1. Xor[l][o] \in Word /\ Xor[r][q] \in Word /\ Xor[Xor[l][o]][o] = l
      BY <1>2, WordOps
    <2>2. <<Xor[l][o], Xor[r][q]>>[1] = Xor[l][o] /\ <<Xor[l][o], Xor[r][q]>>[2] = Xor[r][q]
      BY <2>1, Pairs
    <2> QED  BY <2>1, <2>2 DEF BlowfishRound, f
  <1>9. Xor[f][Xor[r][q]] = Xor[b][q]
    <2>1. Xor[f][Xor[r][q]] = Xor[Xor[f][r]][q]
      <3>1. \A c, d \in Word : Xor[Xor[c][d]][q] = Xor[c][Xor[d][q]]
        BY XorAssociates
      <3>2. f \in Word /\ r \in Word
        BY <1>2
      <3> QED  BY ONLY <3>1, <3>2
    <2>2. Xor[f][r] = b
      BY <1>2, WordOps
    <2> QED  BY <2>1, <2>2
  <1>10. Whitened(p, q, <<Xor[b][q], l>>) = <<a, b>>
    <2>1. Xor[b][q] \in Word /\ Xor[Xor[b][q]][q] = b
      BY <1>1, WordOps
    <2>2. <<Xor[b][q], l>>[1] = Xor[b][q] /\ <<Xor[b][q], l>>[2] = l
      BY <1>2, <2>1, Pairs
    <2> QED  BY <1>2, <2>1, <2>2 DEF Whitened
  <1> QED  BY <1>1, <1>2, <1>3, <1>4, <1>5, <1>6, <1>7, <1>8, <1>9, <1>10, Pairs

\* A node of the decrypting Blowfish spec: x is what the mirrored node was
\* given, w what the node before it was.
LEMMA BlowfishUndoes ==
    ASSUME NEW ks \in RoundKeys["blowfish"], NEW i \in 1..(FeistelRounds + 1),
           NEW w \in Pair, NEW x \in Pair, i > 1 => x = BlowfishNode("encrypt", ks, i - 1, w)
    PROVE  /\ BlowfishNode("encrypt", ks, i, x) \in Pair
           /\ BlowfishNode("decrypt", ks, FeistelRounds + 2 - i,
                  IF i \in 1..FeistelRounds THEN Keyed(ks[i], ks[i - 1], x)
                  ELSE BlowfishNode("encrypt", ks, i, x))
                  = IF i > 1 THEN Keyed(ks[i - 1], ks[i - 2], w) ELSE x
  <1> DEFINE R == FeistelRounds
             m == R + 2 - i
  <1>0. R \in Nat \ {0} /\ i \in Nat /\ m \in 1..(R + 1)
    BY RoundAssumption
  <1>1. \A r \in 0..(R + 1) : ks[r] \in Word
    BY KeyAssumption
  <1>2. /\ i <= R => BlowfishNode("encrypt", ks, i, x) = BlowfishRound(ks[i - 1], x)
        /\ i > R => BlowfishNode("encrypt", ks, i, x) = Whitened(ks[R + 1], ks[R], x)
    BY <1>0 DEF BlowfishNode
  <1>3. ks[i - 1] \in Word /\ ks[R + 1] \in Word /\ ks[R] \in Word /\ ks[i] \in Word
    BY <1>0, <1>1
  <1>4. BlowfishNode("encrypt", ks, i, x) \in Pair
    <2>1. BlowfishRound(ks[i - 1], x) \in Pair /\ Whitened(ks[R + 1], ks[R], x) \in Pair
      BY <1>3, BlowfishRoundUndoes
    <2>2. i <= R \/ i > R
      BY <1>0
    <2> QED  BY <1>2, <2>1, <2>2
  <1>5. CASE i = 1
    <2>1. m = R + 1 /\ i \in 1..R /\ ks[1] \in Word /\ ks[0] \in Word
      BY <1>0, <1>1, <1>5
    <2>2. \A z : BlowfishNode("decrypt", ks, R + 1, z) = Whitened(ks[0], ks[1], z)
      BY <1>0 DEF BlowfishNode
    <2>3. Whitened(ks[0], ks[1], Keyed(ks[1], ks[0], x)) = x
      BY <2>1, BlowfishRoundUndoes
    <2> QED  BY <1>4, <1>5, <2>1, <2>2, <2>3
  <1>6. CASE i > 1
    <2>1. /\ ks[i - 2] \in Word /\ m \in Nat /\ m <= R /\ ~(m > R) /\ R + 2 - m = i
          /\ i - 1 \in Nat /\ i - 1 <= R /\ ~(i - 1 > R) /\ (i - 1) - 1 = i - 2
      BY <1>0, <1>1, <1>6
    <2>2. x = BlowfishRound(ks[i - 2], w)
      <3>1. BlowfishNode("encrypt", ks, i - 1, w) = BlowfishRound(ks[(i - 1) - 1], w)
        <4> DEFINE j == i - 1
        <4>1. j <= R /\ ~(j > R)
          BY <2>1
        <4> HIDE DEF j
        <4>2. BlowfishNode("encrypt", ks, j, w) = BlowfishRound(ks[j - 1], w)
          BY <4>1 DEF BlowfishNode
        <4> QED  BY <4>2 DEF j
      <3> QED  BY <1>6, <2>1, <3>1
    <2>3. \A z : BlowfishNode("decrypt", ks, m, z) = BlowfishRound(ks[i], z)
      <3> HIDE DEF m
      <3>1. \A z : BlowfishNode("decrypt", ks, m, z) = BlowfishRound(ks[R + 2 - m], z)
        BY <2>1 DEF BlowfishNode
      <3> QED  BY <2>1, <3>1
    <2> HIDE DEF m
    <2>4. BlowfishRound(ks[i], Keyed(ks[i], ks[i - 1], x)) = Keyed(ks[i - 1], ks[i - 2], w)
      <3> DEFINE a == ks[i]
                 b == ks[i - 1]
                 c == ks[i - 2]
      <3>1. a \in Word /\ b \in Word /\ c \in Word
        BY <1>3, <2>1
      <3>2. x = BlowfishRound(c, w)
        BY <2>2
      <3> HIDE DEF a, b, c
      <3>3. BlowfishRound(a, Keyed(a, b, x)) = Keyed(b, c, w)
        BY <3>1, <3>2, BlowfishRoundUndoes
      <3> QED  BY <3>3 DEF a, b, c
    <2>5. i \notin 1..R => BlowfishNode("encrypt", ks, i, x) = Keyed(ks[i], ks[i - 1], x)
      <3>1. i \notin 1..R => i = R + 1 /\ i - 1 = R
        BY <1>0
      <3>2. Whitened(ks[i], ks[i - 1], x) = Keyed(ks[i], ks[i - 1], x)
        BY DEF Whitened, Keyed
      <3>3. i \notin 1..R => i > R
        BY <1>0
      <3> QED  BY <1>2, <3>1, <3>2, <3>3
    <2> QED  BY <1>4, <1>6, <2>3, <2>4, <2>5 DEF m
  <1> QED  BY <1>0, <1>5, <1>6

\* The pairs of a quad exchanged, and exchanged again.
LEMMA PairsExchanged ==
    ASSUME NEW x \in Quad
    PROVE  /\ SwapPairs(x) \in Quad /\ SwapPairs(SwapPairs(x)) = x
           /\ SwapPairs(x)[1] = x[3] /\ SwapPairs(x)[2] = x[4]
           /\ SwapPairs(x)[3] = x[1] /\ SwapPairs(x)[4] = x[2]
  <1>1. /\ SwapPairs(x) \in Quad
        /\ SwapPairs(x)[1] = x[3] /\ SwapPairs(x)[2] = x[4]
        /\ SwapPairs(x)[3] = x[1] /\ SwapPairs(x)[4] = x[2]
    BY Quads DEF SwapPairs
  <1>2. /\ SwapPairs(SwapPairs(x)) \in Quad
        /\ SwapPairs(SwapPairs(x))[1] = x[1] /\ SwapPairs(SwapPairs(x))[2] = x[2]
        /\ SwapPairs(SwapPairs(x))[3] = x[3] /\ SwapPairs(SwapPairs(x))[4] = x[4]
    <2> DEFINE y == SwapPairs(x)
    <2>1. /\ y \in Quad /\ y[1] \in Word /\ y[2] \in Word /\ y[3] \in Word /\ y[4] \in Word
      BY <1>1, Quads
    <2>2. SwapPairs(y) = <<y[3], y[4], y[1], y[2]>>
      BY DEF SwapPairs
    <2> HIDE DEF y
    <2>3. /\ SwapPairs(y) \in Quad
          /\ SwapPairs(y)[1] = y[3] /\ SwapPairs(y)[2] = y[4]
          /\ SwapPairs(y)[3] = y[1] /\ SwapPairs(y)[4] = y[2]
      BY <2>1, <2>2, Quads
    <2> QED  BY <1>1, <2>3 DEF y
  <1> QED  BY <1>1, <1>2, Quads

\* What a Twofish round adds depends on the first two words only.
LEMMA TwofishWords ==
    ASSUME NEW k \in Word, NEW x \in Quad, NEW y \in Quad, y[1] = x[1], y[2] = x[2]
    PROVE  /\ F0(k, x) \in Word /\ F1(k, x) \in Word
           /\ F0(k, y) = F0(k, x) /\ F1(k, y) = F1(k, x)
  <1>1. x[1] \in Word /\ x[2] \in Word /\ Skew \in 0..WordBits
    BY Quads, WordAssumption
  <1>2. Rol(Skew, x[2]) \in Word
    BY <1>1, Rotations
  <1>3. T1(x) \in Word /\ TwofishG[x[1]] \in Word
    BY <1>1, <1>2, WordOps DEF T1
  <1>4. Add[T1(x)][T1(x)] \in Word /\ Add[TwofishG[x[1]]][T1(x)] \in Word
    BY <1>3, WordOps
  <1>5. F0(k, x) \in Word
    BY <1>4, WordOps DEF F0
  <1>6. Add[TwofishG[x[1]]][Add[T1(x)][T1(x)]] \in Word
    BY <1>3, <1>4, WordOps
  <1>7. F1(k, x) \in Word
    BY <1>6, WordOps DEF F1
  <1> QED  BY <1>5, <1>7 DEF F0, F1, T1

\* A Twofish round undone on the exchanged pairs.
LEMMA TwofishRoundUndoes ==
    ASSUME NEW k \in Word, NEW l \in Word, NEW x \in Quad
    PROVE  /\ TwofishRound("encrypt", k, l, x) \in Quad
           /\ TwofishRound("decrypt", k, l, SwapPairs(TwofishRound("encrypt", k, l, x))) = SwapPairs(x)
  <1> DEFINE c == x[3]
             d == x[4]
             f == F0(k, x)
             g == F1(l, x)
             y == TwofishRound("encrypt", k, l, x)
             z == SwapPairs(y)
             u == Ror[1][Xor[c][f]]
             v == Xor[Rol(1, d)][g]
  <1>1. x[1] \in Word /\ x[2] \in Word /\ c \in Word /\ d \in Word /\ 1 \in 0..WordBits
    BY Quads, WordAssumption
  <1>2. f \in Word /\ g \in Word
    BY TwofishWords
  <1> HIDE DEF f, g
  <1>3. u \in Word /\ v \in Word /\ Xor[Rol(1, u)][f] = c /\ Ror[1][Xor[v][g]] = d
    <2>1. Xor[c][f] \in Word /\ Xor[Xor[c][f]][f] = c /\ Rol(1, d) \in Word
      BY <1>1, <1>2, WordOps, Rotations
    <2>2. u \in Word /\ Rol(1, u) = Xor[c][f]
      BY <1>1, <2>1, Rotations
    <2>3. v \in Word /\ Xor[v][g] = Rol(1, d)
      BY <1>2, <2>1, WordOps
    <2>4. Ror[1][Rol(1, d)] = d
      BY <1>1, Rotations
    <2> QED  BY <2>1, <2>2, <2>3, <2>4
  <1>4. y = <<u, v, x[1], x[2]>>
    BY DEF TwofishRound, f, g
  <1> HIDE DEF c, d, u, v, y
  <1>5. y \in Quad /\ y[1] = u /\ y[2] = v /\ y[3] = x[1] /\ y[4] = x[2]
    BY <1>1, <1>3, <1>4, Quads
  <1>6. z \in Quad /\ z[1] = x[1] /\ z[2] = x[2] /\ z[3] = u /\ z[4] = v
    BY <1>5, PairsExchanged
  <1> HIDE DEF z
  <1>7. F0(k, z) = f /\ F1(l, z) = g
    BY <1>6, TwofishWords DEF f, g
  <1>8. TwofishRound("decrypt", k, l, z) = <<c, d, x[1], x[2]>>
    BY <1>3, <1>6, <1>7 DEF TwofishRound
  <1> QED  BY <1>5, <1>8 DEF SwapPairs, c, d, y, z

\* The two whitenings undo each other under the same keys.
LEMMA WhitensUndo ==
    ASSUME NEW ks, NEW from \in Nat, NEW x \in Quad, \A j \in 1..4 : ks[from + j - 1] \in Word
    PROVE  /\ WhitenIn(ks, from, x) \in Quad /\ WhitenOut(ks, from, x) \in Quad
           /\ WhitenOut(ks, from, SwapPairs(WhitenIn(ks, from, x))) = x
           /\ WhitenIn(ks, from, WhitenOut(ks, from, x)) = SwapPairs(x)
  <1> DEFINE q(j) == ks[from + j - 1]
             a == WhitenIn(ks, from, x)
             b == WhitenOut(ks, from, x)
             s == SwapPairs(x)
  <1>1. \A j \in 1..4 : q(j) \in Word /\ x[j] \in Word /\ s[j] \in Word
    <2>1. s \in Quad
      BY PairsExchanged
    <2> QED  BY <2>1 DEF Quad
  <1>2. a = [j \in 1..4 |-> Xor[Reverse[x[j]]][q(j)]] /\ b = [j \in 1..4 |-> Reverse[Xor[s[j]][q(j)]]]
    BY DEF WhitenIn, WhitenOut
  <1>3. \A j \in 1..4 : /\ a[j] = Xor[Reverse[x[j]]][q(j)] /\ a[j] \in Word
                        /\ Reverse[Xor[a[j]][q(j)]] = x[j]
    <2> TAKE j \in 1..4
    <2> HIDE DEF q, a, s
    <2>1. Reverse[x[j]] \in Word /\ Reverse[Reverse[x[j]]] = x[j]
      BY <1>1, WordOps
    <2>2. /\ Xor[Reverse[x[j]]][q(j)] \in Word
          /\ Xor[Xor[Reverse[x[j]]][q(j)]][q(j)] = Reverse[x[j]]
      BY <1>1, <2>1, WordOps
    <2>3. a[j] = Xor[Reverse[x[j]]][q(j)]
      BY <1>2
    <2> QED  BY <2>1, <2>2, <2>3
  <1>4. \A j \in 1..4 : /\ b[j] \in Word /\ Xor[Reverse[b[j]]][q(j)] = s[j]
    <2> TAKE j \in 1..4
    <2> HIDE DEF q, b, s
    <2>1. Xor[s[j]][q(j)] \in Word /\ Xor[Xor[s[j]][q(j)]][q(j)] = s[j]
      BY <1>1, WordOps
    <2>2. Reverse[Xor[s[j]][q(j)]] \in Word /\ Reverse[Reverse[Xor[s[j]][q(j)]]] = Xor[s[j]][q(j)]
      BY <2>1, WordOps
    <2>3. b[j] = Reverse[Xor[s[j]][q(j)]]
      BY <1>2
    <2> QED  BY <2>1, <2>2, <2>3
  <1>5. a \in Quad /\ b \in Quad
    <2> HIDE DEF q, s
    <2>1. a = [j \in 1..4 |-> a[j]] /\ b = [j \in 1..4 |-> b[j]]
      BY <1>2
    <2> HIDE DEF a, b
    <2> QED  BY <1>3, <1>4, <2>1 DEF Quad
  <1>6. WhitenOut(ks, from, SwapPairs(a)) = x
    <2>1. SwapPairs(SwapPairs(a)) = a
      BY <1>5, PairsExchanged
    <2>2. WhitenOut(ks, from, SwapPairs(a)) = [j \in 1..4 |-> Reverse[Xor[a[j]][q(j)]]]
      BY <2>1 DEF WhitenOut
    <2>3. x = [j \in 1..4 |-> x[j]]
      BY DEF Quad
    <2> HIDE DEF a, q
    <2>4. [j \in 1..4 |-> Reverse[Xor[a[j]][q(j)]]] = [j \in 1..4 |-> x[j]]
      BY <1>3
    <2> QED  BY <2>2, <2>3, <2>4
  <1>7. WhitenIn(ks, from, b) = s
    <2>1. WhitenIn(ks, from, b) = [j \in 1..4 |-> Xor[Reverse[b[j]]][q(j)]]
      BY DEF WhitenIn
    <2>2. s = [j \in 1..4 |-> s[j]]
      BY PairsExchanged DEF Quad
    <2> HIDE DEF b, q, s
    <2>3. [j \in 1..4 |-> Xor[Reverse[b[j]]][q(j)]] = [j \in 1..4 |-> s[j]]
      BY <1>4
    <2> QED  BY <2>1, <2>2, <2>3
  <1> QED  BY <1>5, <1>6, <1>7

\* A node of the decrypting Twofish spec takes one mirror image to the next.
LEMMA TwofishUndoes ==
    ASSUME NEW ks \in RoundKeys["twofish"], NEW i \in 1..(FeistelRounds + 2),
           NEW x \in Quad, NEW y, y = TwofishNode("encrypt", ks, i, x)
    PROVE  /\ y \in Quad
           /\ TwofishNode("decrypt", ks, FeistelRounds + 3 - i,
                  IF i \in 1..(FeistelRounds + 1) THEN SwapPairs(y) ELSE y)
                  = IF i > 1 THEN SwapPairs(x) ELSE x
  <1> DEFINE R == FeistelRounds
             m == R + 3 - i
  <1>0. R \in Nat \ {0} /\ i \in Nat /\ m \in 1..(R + 2)
    BY RoundAssumption
  <1>1. \A r \in 0..(2 * R + 7) : ks[r] \in Word
    BY KeyAssumption
  <1>2. \A j \in 1..4 : ks[0 + j - 1] \in Word /\ ks[4 + j - 1] \in Word
    BY <1>0, <1>1
  <1>3. CASE i = 1
    <2>1. y = WhitenIn(ks, 0, x) /\ m = R + 2 /\ i \in 1..(R + 1)
      BY <1>0, <1>3 DEF TwofishNode
    <2>2. \A z : TwofishNode("decrypt", ks, R + 2, z) = WhitenOut(ks, 0, z)
      BY <1>0 DEF TwofishNode
    <2> QED  BY <1>2, <1>3, <2>1, <2>2, WhitensUndo
  <1>4. CASE i = R + 2
    <2>1. y = WhitenOut(ks, 4, x) /\ m = 1 /\ i \notin 1..(R + 1) /\ i > 1
      BY <1>0, <1>4 DEF TwofishNode
    <2>2. \A z : TwofishNode("decrypt", ks, 1, z) = WhitenIn(ks, 4, z)
      BY <1>0 DEF TwofishNode
    <2> QED  BY <1>2, <2>1, <2>2, WhitensUndo
  <1>5. CASE i \in 2..(R + 1)
    <2> DEFINE k == ks[8 + 2 * (i - 2)]
               l == ks[9 + 2 * (i - 2)]
    <2>1. k \in Word /\ l \in Word
      <3>1. 8 + 2 * (i - 2) \in 0..(2 * R + 7) /\ 9 + 2 * (i - 2) \in 0..(2 * R + 7)
        BY <1>0, <1>5
      <3> QED  BY <1>1, <3>1
    <2>2. y = TwofishRound("encrypt", k, l, x)
      BY <1>0, <1>5 DEF TwofishNode
    <2>3. m \in 2..(R + 1) /\ R + 1 - m = i - 2 /\ m # 1 /\ m # R + 2 /\ i \in 1..(R + 1) /\ i > 1
      BY <1>0, <1>5
    <2>4. \A z : TwofishNode("decrypt", ks, m, z) = TwofishRound("decrypt", k, l, z)
      <3> HIDE DEF m
      <3> QED  BY <2>3 DEF TwofishNode
    <2> HIDE DEF k, l, m
    <2>5. y \in Quad /\ TwofishRound("decrypt", k, l, SwapPairs(y)) = SwapPairs(x)
      BY <2>1, <2>2, TwofishRoundUndoes
    <2> QED  BY <2>3, <2>4, <2>5 DEF m
  <1> QED  BY <1>0, <1>3, <1>4, <1>5

-----------------------------------------------------------------------------
(***************************************************************************)
(* Speck: an inverse round undoes a round.                                 *)
(***************************************************************************)

\* An inverse round recovers both halves.
LEMMA SpeckRoundUndoes ==
    ASSUME NEW k \in Word, NEW x \in Pair
    PROVE  SpeckRound(k, x) \in Pair /\ SpeckRoundInverse(k, SpeckRound(k, x)) = x
  <1> DEFINE a == x[1]
             b == x[2]
             s == Add[Ror[Alpha][a]][b]
             l == Xor[s][k]
             r == Xor[Rol(Beta, b)][l]
  <1>1. a \in Word /\ b \in Word /\ x = <<a, b>> /\ Alpha \in 0..WordBits /\ Beta \in 0..WordBits
    BY Pairs, WordAssumption
  <1> HIDE DEF a, b
  <1>2. Ror[Alpha][a] \in Word /\ Rol(Alpha, Ror[Alpha][a]) = a
    BY <1>1, Rotations
  <1>3. s \in Word /\ Sub[s][b] = Ror[Alpha][a]
    BY <1>1, <1>2, WordOps
  <1>4. l \in Word /\ Xor[l][k] = s
    BY <1>3, WordOps
  <1>5. Rol(Beta, b) \in Word /\ Ror[Beta][Rol(Beta, b)] = b
    BY <1>1, Rotations
  <1>6. r \in Word /\ Xor[r][l] = Rol(Beta, b)
    BY <1>4, <1>5, WordOps
  <1>7. SpeckRound(k, x) = <<l, r>>
    BY DEF SpeckRound, a, b
  <1> HIDE DEF s, l, r
  <1>8. <<l, r>> \in Pair /\ <<l, r>>[1] = l /\ <<l, r>>[2] = r
    BY <1>4, <1>6, Pairs
  <1>9. SpeckRoundInverse(k, <<l, r>>) = <<Rol(Alpha, Sub[Xor[l][k]][b]), b>>
    BY <1>5, <1>6, <1>8 DEF SpeckRoundInverse
  <1> QED  BY <1>1, <1>2, <1>3, <1>4, <1>7, <1>8, <1>9

-----------------------------------------------------------------------------
(***************************************************************************)
(* The mirror relation of two runs.                                        *)
(***************************************************************************)

\* Every body has a node.
LEMMA BodyHasNodes ==
    ASSUME NEW c \in Ciphers
    PROVE  Nodes(c) \in Nat \ {0}
  BY RoundAssumption DEF Nodes, Ciphers

\* Every node of the encrypting spec puts out a block.
LEMMA NodesKeepBlocks ==
    ASSUME NEW c \in Ciphers, NEW ks \in RoundKeys[c], NEW i \in 1..Nodes(c), NEW x \in CipherBlock(c)
    PROVE  Node(c, "encrypt", ks, i, x) \in CipherBlock(c)
  <1>1. CASE c = "aes"
    BY <1>1, AesUndoes DEF Node, Nodes, CipherBlock
  <1>2. CASE c = "serpent"
    BY <1>2, SerpentUndoes DEF Node, Nodes, CipherBlock
  <1>3. CASE c = "des"
    BY <1>3, DesUndoes DEF Node, Nodes, CipherBlock
  <1>4. CASE c = "blowfish"
    <2>1. i \in 1..(FeistelRounds + 1) /\ ks \in RoundKeys["blowfish"] /\ x \in Pair
      BY <1>4 DEF Nodes, CipherBlock
    <2>2. \A r \in 0..(FeistelRounds + 1) : ks[r] \in Word
      BY <2>1, KeyAssumption
    <2>3. FeistelRounds \in Nat \ {0}
      BY RoundAssumption
    <2>4. BlowfishNode("encrypt", ks, i, x) \in Pair
      <3>1. CASE i <= FeistelRounds
        <4>1. ks[i - 1] \in Word
          BY <2>1, <2>2, <2>3
        <4>2. BlowfishNode("encrypt", ks, i, x) = BlowfishRound(ks[i - 1], x)
          BY <2>1, <2>3, <3>1 DEF BlowfishNode
        <4> QED  BY <2>1, <4>1, <4>2, BlowfishRoundUndoes
      <3>2. CASE i > FeistelRounds
        <4>1. ks[FeistelRounds + 1] \in Word /\ ks[FeistelRounds] \in Word
          BY <2>2, <2>3
        <4>2. BlowfishNode("encrypt", ks, i, x) = Whitened(ks[FeistelRounds + 1], ks[FeistelRounds], x)
          BY <2>1, <2>3, <3>2 DEF BlowfishNode
        <4> QED  BY <2>1, <4>1, <4>2, BlowfishRoundUndoes, SMTT(30)
      <3> QED  BY <2>1, <2>3, <3>1, <3>2
    <2> QED  BY <1>4, <2>4 DEF Node, CipherBlock
  <1>5. CASE c = "twofish"
    BY <1>5, TwofishUndoes DEF Node, Nodes, CipherBlock
  <1>6. CASE c = "speck"
    <2>1. ks[i - 1] \in Word
      <3>1. ks \in [0..(SpeckRounds - 1) -> Word] /\ i - 1 \in 0..(SpeckRounds - 1)
        BY <1>6, KeyAssumption, RoundAssumption DEF Nodes
      <3> QED  BY <3>1
    <2> QED  BY <1>6, <2>1, SpeckRoundUndoes DEF Node, SpeckNode, CipherBlock
  <1> QED  BY <1>1, <1>2, <1>3, <1>4, <1>5, <1>6 DEF Ciphers

\* The blocks an encrypting run passes, one node after another.
Chain(c, ks, xs) == \A i \in 1..(Len(xs) - 1) : xs[i + 1] = Node(c, "encrypt", ks, i, xs[i])

\* The mirror relation is the identity at both ends.
LEMMA MirrorEnds ==
    ASSUME NEW c \in Ciphers, NEW ks, NEW xs
    PROVE  /\ Mirrored(c, ks, Nodes(c), xs) = xs[Nodes(c) + 1]
           /\ Mirrored(c, ks, 0, xs) = xs[1]
  <1>1. FeistelRounds \in Nat \ {0}
    BY RoundAssumption
  <1>2. /\ c = "des" => Nodes(c) \notin 2..FeistelRounds
        /\ c = "blowfish" => Nodes(c) \notin 1..FeistelRounds
        /\ c = "twofish" => Nodes(c) \notin 1..(FeistelRounds + 1)
    BY <1>1 DEF Nodes
  <1>3. 0 \notin 2..FeistelRounds /\ 0 \notin 1..FeistelRounds /\ 0 \notin 1..(FeistelRounds + 1)
    BY <1>1
  <1> QED  BY <1>2, <1>3 DEF Mirrored

\* What mirrors a chain of blocks is a block.
LEMMA MirrorKeepsBlocks ==
    ASSUME NEW c \in Ciphers, NEW ks \in RoundKeys[c], NEW xs \in Seq(CipherBlock(c)),
           Len(xs) = Nodes(c) + 1, NEW i \in 0..Nodes(c)
    PROVE  Mirrored(c, ks, i, xs) \in CipherBlock(c)
  <1>1. Nodes(c) \in Nat \ {0} /\ FeistelRounds \in Nat \ {0}
    BY BodyHasNodes, RoundAssumption
  <1>2. xs[i + 1] \in CipherBlock(c) /\ (i > 0 => xs[i] \in CipherBlock(c))
    BY <1>1, ElementOfSeq
  <1>3. CASE c = "des" /\ i \in 2..FeistelRounds
    <2>1. xs[i + 1] \in Pair
      BY <1>2, <1>3 DEF CipherBlock
    <2>2. xs[i + 1][1] \in Word /\ xs[i + 1][2] \in Word
      BY <2>1, Pairs
    <2>3. Swap(xs[i + 1]) \in Pair
      BY <2>2, Pairs DEF Swap
    <2> QED  BY <1>3, <2>3 DEF Mirrored, CipherBlock
  <1>4. CASE c = "blowfish" /\ i \in 1..FeistelRounds
    <2>1. xs[i] \in Pair
      BY <1>1, <1>2, <1>4 DEF CipherBlock
    <2>2. xs[i][1] \in Word /\ xs[i][2] \in Word
      BY <2>1, Pairs
    <2>3. ks[i] \in Word /\ ks[i - 1] \in Word
      <3>1. ks \in [0..(FeistelRounds + 1) -> Word]
        BY <1>4, KeyAssumption
      <3>2. i \in 0..(FeistelRounds + 1) /\ i - 1 \in 0..(FeistelRounds + 1)
        BY <1>1, <1>4
      <3> QED  BY <3>1, <3>2
    <2>4. Xor[xs[i][2]][ks[i]] \in Word /\ Xor[xs[i][1]][ks[i - 1]] \in Word
      BY <2>2, <2>3, WordOps
    <2>5. <<Xor[xs[i][2]][ks[i]], Xor[xs[i][1]][ks[i - 1]]>> \in Pair
      BY <2>4, Pairs
    <2> QED  BY <1>4, <2>5 DEF Mirrored, CipherBlock
  <1>5. CASE c = "twofish" /\ i \in 1..(FeistelRounds + 1)
    <2>1. xs[i + 1] \in Quad
      BY <1>2, <1>5 DEF CipherBlock
    <2>2. SwapPairs(xs[i + 1]) \in Quad
      BY <2>1, PairsExchanged
    <2> QED  BY <1>5, <2>2 DEF Mirrored, CipherBlock
  <1>6. CASE /\ ~(c = "des" /\ i \in 2..FeistelRounds)
             /\ ~(c = "blowfish" /\ i \in 1..FeistelRounds)
             /\ ~(c = "twofish" /\ i \in 1..(FeistelRounds + 1))
    <2>1. Mirrored(c, ks, i, xs) = xs[i + 1]
      BY <1>6 DEF Mirrored
    <2> QED  BY <1>2, <2>1
  <1> QED  BY <1>3, <1>4, <1>5, <1>6

\* A node of the decrypting spec takes the image of one block of the chain to
\* the image of the block before it.
LEMMA MirrorStep ==
    ASSUME NEW c \in Ciphers, NEW ks \in RoundKeys[c], NEW xs \in Seq(CipherBlock(c)),
           Len(xs) = Nodes(c) + 1, Chain(c, ks, xs), NEW i \in 1..Nodes(c)
    PROVE  Node(c, "decrypt", ks, Nodes(c) + 1 - i, Mirrored(c, ks, i, xs))
               = Mirrored(c, ks, i - 1, xs)
  <1> DEFINE w == xs[i - 1]
             x == xs[i]
             y == xs[i + 1]
             R == FeistelRounds
  <1>1. Nodes(c) \in Nat \ {0} /\ R \in Nat \ {0} /\ i \in Nat /\ (i - 1) + 1 = i
    BY BodyHasNodes, RoundAssumption
  <1>2. x \in CipherBlock(c) /\ (i > 1 => w \in CipherBlock(c))
    <2>1. \A j \in 1..Len(xs) : xs[j] \in CipherBlock(c)
      BY ElementOfSeq
    <2>2. i \in 1..Len(xs) /\ (i > 1 => i - 1 \in 1..Len(xs))
      BY <1>1
    <2> QED  BY <2>1, <2>2
  <1>3. y = Node(c, "encrypt", ks, i, x)
    <2>1. i \in 1..(Len(xs) - 1)
      BY <1>1
    <2> QED  BY <2>1 DEF Chain
  <1>4. i > 1 => x = Node(c, "encrypt", ks, i - 1, w)
    <2>1. i > 1 => i - 1 \in 1..(Len(xs) - 1)
      BY <1>1
    <2>2. i > 1 => xs[(i - 1) + 1] = Node(c, "encrypt", ks, i - 1, xs[i - 1])
      BY <2>1 DEF Chain
    <2> QED  BY <1>1, <2>2
  <1>5. xs[(i - 1) + 1] = x
    BY <1>1
  <1>6. CASE c = "aes"
    <2>1. Mirrored(c, ks, i, xs) = y /\ Mirrored(c, ks, i - 1, xs) = x
      BY <1>5, <1>6 DEF Mirrored
    <2>2. y = AesEncryptNode(ks, i, x) /\ x \in Quad /\ i \in 1..(4 * AesRounds) /\ ks \in RoundKeys["aes"]
      BY <1>2, <1>3, <1>6 DEF Node, Nodes, CipherBlock
    <2> HIDE DEF x, y
    <2>3. AesDecryptNode(ks, 4 * AesRounds + 1 - i, y) = x
      BY <2>2, AesUndoes
    <2> QED  BY <1>6, <2>1, <2>3 DEF Node, Nodes
  <1>7. CASE c = "serpent"
    <2>1. Mirrored(c, ks, i, xs) = y /\ Mirrored(c, ks, i - 1, xs) = x
      BY <1>5, <1>7 DEF Mirrored
    <2>2. /\ y = SerpentEncryptNode(ks, i, x) /\ x \in Quad
          /\ i \in 1..(3 * SerpentRounds + 2) /\ ks \in RoundKeys["serpent"]
      BY <1>2, <1>3, <1>7 DEF Node, Nodes, CipherBlock
    <2> HIDE DEF x, y
    <2>3. SerpentDecryptNode(ks, (3 * SerpentRounds + 2) + 1 - i, y) = x
      <3>1. (3 * SerpentRounds + 2) + 1 - i = 3 * SerpentRounds + 3 - i
        BY <1>1, RoundAssumption
      <3> QED  BY <2>2, <3>1, SerpentUndoes
    <2> QED  BY <1>7, <2>1, <2>3 DEF Node, Nodes
  <1>8. CASE c = "des"
    <2>1. /\ Mirrored(c, ks, i, xs) = IF i \in 2..R THEN Swap(y) ELSE y
          /\ Mirrored(c, ks, i - 1, xs) = IF i - 1 \in 2..R THEN Swap(x) ELSE x
      BY <1>5, <1>8 DEF Mirrored
    <2>2. y = DesNode("encrypt", ks, i, x) /\ x \in Pair /\ i \in 1..(R + 2) /\ ks \in RoundKeys["des"]
      BY <1>2, <1>3, <1>8 DEF Node, Nodes, CipherBlock
    <2> HIDE DEF x, y
    <2>3. DesNode("decrypt", ks, (R + 2) + 1 - i, IF i \in 2..R THEN Swap(y) ELSE y)
              = IF i - 1 \in 2..R THEN Swap(x) ELSE x
      <3>1. (R + 2) + 1 - i = R + 3 - i
        BY <1>1
      <3> QED  BY <2>2, <3>1, DesUndoes
    <2> QED  BY <1>8, <2>1, <2>3 DEF Node, Nodes
  <1>9. CASE c = "blowfish"
    <2>1. i \in 1..(R + 1) /\ ks \in RoundKeys["blowfish"] /\ x \in Pair
      BY <1>2, <1>9 DEF Nodes, CipherBlock
    <2>2. Mirrored(c, ks, i, xs) = IF i \in 1..R THEN Keyed(ks[i], ks[i - 1], x) ELSE y
      BY <1>9 DEF Mirrored, Keyed
    <2>3. Mirrored(c, ks, i - 1, xs) = IF i > 1 THEN Keyed(ks[i - 1], ks[i - 2], w) ELSE x
      <3>1. i - 1 \in 1..R <=> i > 1
        BY <1>1, <2>1
      <3>2. (i - 1) - 1 = i - 2
        BY <1>1
      <3> QED  BY <1>5, <1>9, <3>1, <3>2 DEF Mirrored, Keyed
    <2>4. y = BlowfishNode("encrypt", ks, i, x) /\ (i > 1 => x = BlowfishNode("encrypt", ks, i - 1, w))
      BY <1>3, <1>4, <1>9 DEF Node
    <2>5. PICK v \in Pair : i > 1 => v = w
      BY <1>2, <1>9, <2>1 DEF CipherBlock
    <2>6. /\ i > 1 => x = BlowfishNode("encrypt", ks, i - 1, v)
          /\ i > 1 => Keyed(ks[i - 1], ks[i - 2], w) = Keyed(ks[i - 1], ks[i - 2], v)
      BY <2>4, <2>5
    <2> HIDE DEF x, y, w
    <2>7. BlowfishNode("decrypt", ks, R + 2 - i, IF i \in 1..R THEN Keyed(ks[i], ks[i - 1], x) ELSE y)
              = IF i > 1 THEN Keyed(ks[i - 1], ks[i - 2], v) ELSE x
      BY <2>1, <2>4, <2>6, BlowfishUndoes
    <2>8. Nodes(c) + 1 - i = R + 2 - i
      BY <1>1, <1>9 DEF Nodes
    <2> QED  BY <1>9, <2>2, <2>3, <2>6, <2>7, <2>8 DEF Node
  <1>10. CASE c = "twofish"
    <2>1. /\ Mirrored(c, ks, i, xs) = IF i \in 1..(R + 1) THEN SwapPairs(y) ELSE y
          /\ Mirrored(c, ks, i - 1, xs) = IF i - 1 \in 1..(R + 1) THEN SwapPairs(x) ELSE x
      BY <1>5, <1>10 DEF Mirrored
    <2>2. y = TwofishNode("encrypt", ks, i, x) /\ x \in Quad /\ i \in 1..(R + 2) /\ ks \in RoundKeys["twofish"]
      BY <1>2, <1>3, <1>10 DEF Node, Nodes, CipherBlock
    <2>3. (i - 1 \in 1..(R + 1) <=> i > 1) /\ Nodes(c) + 1 - i = R + 3 - i
      BY <1>1, <1>10, <2>2 DEF Nodes
    <2> HIDE DEF x, y
    <2>4. TwofishNode("decrypt", ks, R + 3 - i, IF i \in 1..(R + 1) THEN SwapPairs(y) ELSE y)
              = IF i > 1 THEN SwapPairs(x) ELSE x
      BY <2>2, TwofishUndoes
    <2> QED  BY <1>10, <2>1, <2>3, <2>4 DEF Node
  <1>11. CASE c = "speck"
    <2>1. Mirrored(c, ks, i, xs) = y /\ Mirrored(c, ks, i - 1, xs) = x
      BY <1>5, <1>11 DEF Mirrored
    <2>2. x \in Pair /\ y = SpeckRound(ks[i - 1], x)
      BY <1>2, <1>3, <1>11 DEF Node, SpeckNode, CipherBlock
    <2>3. ks[i - 1] \in Word /\ SpeckRounds - (Nodes(c) + 1 - i) = i - 1
      <3>1. ks \in [0..(SpeckRounds - 1) -> Word] /\ i - 1 \in 0..(SpeckRounds - 1)
        BY <1>1, <1>11, KeyAssumption, RoundAssumption DEF Nodes
      <3>2. SpeckRounds - (Nodes(c) + 1 - i) = i - 1
        BY <1>1, <1>11, RoundAssumption DEF Nodes
      <3> QED  BY <3>1, <3>2
    <2> HIDE DEF x, y
    <2>4. SpeckRoundInverse(ks[i - 1], y) = x
      BY <2>2, <2>3, SpeckRoundUndoes
    <2> QED  BY <1>11, <2>1, <2>3, <2>4 DEF Node, SpeckNode
  <1> QED  BY <1>6, <1>7, <1>8, <1>9, <1>10, <1>11 DEF Ciphers

-----------------------------------------------------------------------------
(***************************************************************************)
(* The invariant and the theorems.                                         *)
(***************************************************************************)

\* What the run that is under way has behind it.
Encrypting ==
    way = "encrypt" =>
        /\ Len(past) = n
        /\ n = 0 => block = plain
        /\ n > 0 => past[1] = plain /\ block = Node(cipher, "encrypt", key, n, past[n])

Decrypting ==
    way = "decrypt" =>
        /\ Len(past) = Nodes(cipher) + 1 /\ past[1] = plain
        /\ block = Mirrored(cipher, key, Nodes(cipher) - n, past)

IInv == BlocksTyped /\ Chain(cipher, key, past) /\ Encrypting /\ Decrypting

\* A chain grows by what its last node put out.
LEMMA ChainGrows ==
    ASSUME NEW c, NEW ks, NEW S, NEW xs \in Seq(S), NEW b \in S, Chain(c, ks, xs),
           Len(xs) > 0 => b = Node(c, "encrypt", ks, Len(xs), xs[Len(xs)])
    PROVE  Chain(c, ks, Append(xs, b))
  <1> DEFINE ys == Append(xs, b)
  <1>1. Len(ys) = Len(xs) + 1 /\ Len(xs) \in Nat
    BY AppendProperties, LenProperties
  <1>2. ys[Len(xs) + 1] = b /\ \A i \in 1..Len(xs) : ys[i] = xs[i]
    BY AppendProperties
  <1> HIDE DEF ys
  <1>3. ASSUME NEW i \in 1..(Len(ys) - 1) PROVE ys[i + 1] = Node(c, "encrypt", ks, i, ys[i])
    <2>1. CASE i = Len(xs)
      BY <1>1, <1>2, <1>3, <2>1
    <2>2. CASE i < Len(xs)
      <3>1. i \in 1..(Len(xs) - 1) /\ i \in 1..Len(xs) /\ i + 1 \in 1..Len(xs)
        BY <1>1, <2>2
      <3> QED  BY <1>2, <3>1 DEF Chain
    <2> QED  BY <1>1, <2>1, <2>2
  <1> QED  BY <1>3 DEF Chain, ys

\* A run begins with the invariant.
LEMMA InitInvariant == CiphersInit => IInv
  <1> SUFFICES ASSUME CiphersInit PROVE IInv
    OBVIOUS
  <1>1. 0 \in 0..Nodes(cipher)
    BY BodyHasNodes DEF CiphersInit
  <1>2. past \in Seq(CipherBlock(cipher)) /\ Len(past) = 0
    BY DEF CiphersInit
  <1> QED  BY <1>1, <1>2 DEF CiphersInit, IInv, BlocksTyped, Chain, Encrypting, Decrypting

\* A node of either run keeps the invariant.
LEMMA RunNodeKeeps == ASSUME IInv, RunNode PROVE IInv'
  <1> USE DEF IInv, BlocksTyped
  <1>1. Nodes(cipher) \in Nat \ {0} /\ n \in Nat /\ n + 1 \in 1..Nodes(cipher)
    BY BodyHasNodes DEF RunNode
  <1>2. CASE way = "encrypt"
    <2>1. block' \in CipherBlock(cipher)
      BY <1>1, <1>2, NodesKeepBlocks DEF RunNode
    <2>2. past' = Append(past, block) /\ way' = way /\ n' = n + 1 /\ Len(past) = n
      BY <1>2 DEF RunNode, Encrypting
    <2>3. past' \in Seq(CipherBlock(cipher)) /\ Len(past') = n' /\ past'[n'] = block
          /\ (n > 0 => past'[1] = past[1])
      BY <1>1, <2>2, AppendProperties
    <2>4. Chain(cipher, key, past')
      BY <1>2, <2>2, ChainGrows DEF Encrypting
    <2>5. past'[1] = plain
      <3>1. CASE n = 0
        BY <1>2, <2>2, <2>3, <3>1 DEF Encrypting
      <3>2. CASE n > 0
        BY <1>2, <2>3, <3>2 DEF Encrypting
      <3> QED  BY <1>1, <3>1, <3>2
    <2>6. block' = Node(cipher, "encrypt", key, n', past'[n'])
      BY <1>2, <2>2, <2>3 DEF RunNode
    <2>7. BlocksTyped'
      BY <1>1, <2>1, <2>2, <2>3 DEF RunNode
    <2>8. Encrypting'
      BY <1>1, <2>2, <2>3, <2>5, <2>6 DEF Encrypting, RunNode
    <2>9. Decrypting'
      BY <1>2, <2>2 DEF Decrypting
    <2>10. Chain(cipher, key, past)'
      BY <2>4 DEF RunNode, Chain
    <2> QED  BY <2>7, <2>8, <2>9, <2>10
  <1>3. CASE way = "decrypt"
    <2> DEFINE i == Nodes(cipher) - n
    <2>1. past' = past /\ way' = way /\ n' = n + 1 /\ cipher' = cipher /\ key' = key /\ plain' = plain
      BY <1>3 DEF RunNode
    <2>2. i \in 1..Nodes(cipher) /\ n + 1 = Nodes(cipher) + 1 - i /\ i - 1 = Nodes(cipher) - n'
          /\ i - 1 \in 0..Nodes(cipher)
      BY <1>1, <2>1
    <2>3. Len(past) = Nodes(cipher) + 1 /\ block = Mirrored(cipher, key, i, past)
      BY <1>3 DEF Decrypting
    <2> HIDE DEF i
    <2>4. block' = Mirrored(cipher, key, i - 1, past)
      <3>1. block' = Node(cipher, "decrypt", key, Nodes(cipher) + 1 - i, Mirrored(cipher, key, i, past))
        BY <1>3, <2>2, <2>3 DEF RunNode
      <3> QED  BY <2>2, <2>3, <3>1, MirrorStep
    <2>5. block' \in CipherBlock(cipher)
      BY <2>2, <2>3, <2>4, MirrorKeepsBlocks
    <2>6. BlocksTyped'
      BY <1>1, <2>1, <2>5
    <2>7. Chain(cipher, key, past)'
      BY <2>1 DEF Chain
    <2>8. Mirrored(cipher, key, Nodes(cipher) - n, past)' = Mirrored(cipher, key, i - 1, past)
      BY <2>1, <2>2
    <2>9. Encrypting' /\ Decrypting'
      BY <1>3, <2>1, <2>3, <2>4, <2>8 DEF Encrypting, Decrypting
    <2> QED  BY <2>6, <2>7, <2>9
  <1> QED  BY <1>2, <1>3

\* The turn from one run to the other keeps the invariant.
LEMMA FlipKeeps == ASSUME IInv, FlipWay PROVE IInv'
  <1> USE DEF IInv, BlocksTyped
  <1>1. Nodes(cipher) \in Nat \ {0} /\ n = Nodes(cipher) /\ way = "encrypt" /\ Len(past) = n
    BY BodyHasNodes DEF FlipWay, Encrypting
  <1>2. past' = Append(past, block) /\ cipher' = cipher /\ key' = key /\ plain' = plain
        /\ block' = block /\ n' = 0 /\ way' = "decrypt"
    BY DEF FlipWay
  <1>3. /\ past' \in Seq(CipherBlock(cipher)) /\ Len(past') = Nodes(cipher) + 1
        /\ past'[1] = past[1] /\ past'[Nodes(cipher) + 1] = block
    BY <1>1, <1>2, AppendProperties
  <1>4. past'[1] = plain
    BY <1>1, <1>3 DEF Encrypting
  <1>5. Chain(cipher, key, past')
    BY <1>1, <1>2, ChainGrows DEF Encrypting
  <1>6. block' = Mirrored(cipher, key, Nodes(cipher), past')
    BY <1>2, <1>3, MirrorEnds
  <1>7. BlocksTyped'
    BY <1>1, <1>2, <1>3
  <1>8. Chain(cipher, key, past)'
    BY <1>2, <1>5 DEF Chain
  <1>9. Mirrored(cipher, key, Nodes(cipher) - n, past)' = Mirrored(cipher, key, Nodes(cipher), past')
    BY <1>1, <1>2
  <1>10. Decrypting'
    <2>1. (Len(past) = Nodes(cipher) + 1)' /\ (past[1] = plain)'
      BY <1>2, <1>3, <1>4
    <2>2. (block = Mirrored(cipher, key, Nodes(cipher) - n, past))'
      BY <1>6, <1>9
    <2> QED  BY <2>1, <2>2 DEF Decrypting
  <1>11. Encrypting'
    BY <1>2 DEF Encrypting
  <1> QED  BY <1>7, <1>8, <1>10, <1>11

\* The invariant holds throughout.
LEMMA Invariant == CiphersSpec => []IInv
  <1>1. CiphersInit => IInv
    BY InitInvariant
  <1>2. IInv /\ [CiphersNext]_cipherVars => IInv'
    <2> SUFFICES ASSUME IInv, [CiphersNext]_cipherVars PROVE IInv'
      OBVIOUS
    <2>1. CASE RunNode
      BY <2>1, RunNodeKeeps
    <2>2. CASE FlipWay
      BY <2>2, FlipKeeps
    <2>3. CASE UNCHANGED cipherVars
      BY <2>3 DEF cipherVars, IInv, BlocksTyped, Chain, Encrypting, Decrypting
    <2> QED  BY <2>1, <2>2, <2>3 DEF CiphersNext
  <1> QED  BY <1>1, <1>2, PTL DEF CiphersSpec

\* A block keeps its size through every node of both specs.
THEOREM TypeCorrect == CiphersSpec => []BlocksTyped
  <1>1. IInv => BlocksTyped
    BY DEF IInv
  <1> QED  BY <1>1, Invariant, PTL

\* The trace of the decrypting spec shows the blocks of the encrypting one
\* backwards.
THEOREM DecryptionBacktracks == CiphersSpec => []Backtracks
  <1>1. IInv => Backtracks
    BY DEF IInv, Decrypting, Backtracks
  <1> QED  BY <1>1, Invariant, PTL

\* The decrypting spec recovers the plaintext of every cipher.
THEOREM DecryptionRecovers == CiphersSpec => []Recovers
  <1>1. IInv => Recovers
    <2> SUFFICES ASSUME IInv, way = "decrypt", n = Nodes(cipher) PROVE block = plain
      BY DEF Recovers
    <2>1. cipher \in Ciphers /\ past[1] = plain /\ Nodes(cipher) \in Nat
      BY BodyHasNodes DEF IInv, BlocksTyped, Decrypting
    <2>2. Nodes(cipher) - n = 0
      BY <2>1
    <2>3. block = Mirrored(cipher, key, 0, past)
      BY <2>2 DEF IInv, Decrypting
    <2> QED  BY <2>1, <2>3, MirrorEnds
  <1> QED  BY <1>1, Invariant, PTL

\* Together: each decrypting spec is the mirror image of its encrypting spec,
\* whatever the word size, the number of rounds, the round function and the keys.
THEOREM CiphersMirrored == CiphersSpec => []DecryptionMirrors
  BY TypeCorrect, DecryptionBacktracks, DecryptionRecovers, PTL DEF DecryptionMirrors

=============================================================================
