---------------------------- MODULE CipherTables ----------------------------
(***************************************************************************)
(* The tables of the block ciphers in src/ciphers that are typed in, not   *)
(* computed.  Tables that follow a rule (DES's IP, FP and E, Serpent's IP  *)
(* and FP) are given by the rule.                                          *)
(***************************************************************************)
EXTENDS Integers

\* A table of bytes read from a sequence.
Table(s) == [b \in 0..255 |-> s[b + 1]]

AES_SBOX == Table(<<
    99, 124, 119, 123, 242, 107, 111, 197, 48, 1, 103, 43, 254, 215, 171, 118, 202, 130, 201, 125, 250, 89,
    71, 240, 173, 212, 162, 175, 156, 164, 114, 192, 183, 253, 147, 38, 54, 63, 247, 204, 52, 165, 229, 241,
    113, 216, 49, 21, 4, 199, 35, 195, 24, 150, 5, 154, 7, 18, 128, 226, 235, 39, 178, 117, 9, 131, 44, 26,
    27, 110, 90, 160, 82, 59, 214, 179, 41, 227, 47, 132, 83, 209, 0, 237, 32, 252, 177, 91, 106, 203, 190,
    57, 74, 76, 88, 207, 208, 239, 170, 251, 67, 77, 51, 133, 69, 249, 2, 127, 80, 60, 159, 168, 81, 163,
    64, 143, 146, 157, 56, 245, 188, 182, 218, 33, 16, 255, 243, 210, 205, 12, 19, 236, 95, 151, 68, 23,
    196, 167, 126, 61, 100, 93, 25, 115, 96, 129, 79, 220, 34, 42, 144, 136, 70, 238, 184, 20, 222, 94, 11,
    219, 224, 50, 58, 10, 73, 6, 36, 92, 194, 211, 172, 98, 145, 149, 228, 121, 231, 200, 55, 109, 141, 213,
    78, 169, 108, 86, 244, 234, 101, 122, 174, 8, 186, 120, 37, 46, 28, 166, 180, 198, 232, 221, 116, 31,
    75, 189, 139, 138, 112, 62, 181, 102, 72, 3, 246, 14, 97, 53, 87, 185, 134, 193, 29, 158, 225, 248, 152,
    17, 105, 217, 142, 148, 155, 30, 135, 233, 206, 85, 40, 223, 140, 161, 137, 13, 191, 230, 66, 104, 65,
    153, 45, 15, 176, 84, 187, 22>>)

AES_INV_SBOX == Table(<<
    82, 9, 106, 213, 48, 54, 165, 56, 191, 64, 163, 158, 129, 243, 215, 251, 124, 227, 57, 130, 155, 47,
    255, 135, 52, 142, 67, 68, 196, 222, 233, 203, 84, 123, 148, 50, 166, 194, 35, 61, 238, 76, 149, 11, 66,
    250, 195, 78, 8, 46, 161, 102, 40, 217, 36, 178, 118, 91, 162, 73, 109, 139, 209, 37, 114, 248, 246,
    100, 134, 104, 152, 22, 212, 164, 92, 204, 93, 101, 182, 146, 108, 112, 72, 80, 253, 237, 185, 218, 94,
    21, 70, 87, 167, 141, 157, 132, 144, 216, 171, 0, 140, 188, 211, 10, 247, 228, 88, 5, 184, 179, 69, 6,
    208, 44, 30, 143, 202, 63, 15, 2, 193, 175, 189, 3, 1, 19, 138, 107, 58, 145, 17, 65, 79, 103, 220, 234,
    151, 242, 207, 206, 240, 180, 230, 115, 150, 172, 116, 34, 231, 173, 53, 133, 226, 249, 55, 232, 28,
    117, 223, 110, 71, 241, 26, 113, 29, 41, 197, 137, 111, 183, 98, 14, 170, 24, 190, 27, 252, 86, 62, 75,
    198, 210, 121, 32, 154, 219, 192, 254, 120, 205, 90, 244, 31, 221, 168, 51, 136, 7, 199, 49, 177, 18,
    16, 89, 39, 128, 236, 95, 96, 81, 127, 169, 25, 181, 74, 13, 45, 229, 122, 159, 147, 201, 156, 239, 160,
    224, 59, 77, 174, 42, 245, 176, 200, 235, 187, 60, 131, 83, 153, 97, 23, 43, 4, 126, 186, 119, 214, 38,
    225, 105, 20, 99, 85, 33, 12, 125>>)

AES_RCON == <<
    0, 1, 2, 4, 8, 16, 32, 64, 128, 27, 54>>

AES_MIX_MATRIX == <<
    <<2, 3, 1, 1>>, <<1, 2, 3, 1>>, <<1, 1, 2, 3>>, <<3, 1, 1, 2>>>>

AES_INV_MIX_MATRIX == <<
    <<14, 11, 13, 9>>, <<9, 14, 11, 13>>, <<13, 9, 14, 11>>, <<11, 13, 9, 14>>>>

AES_SHIFT_ROWS == <<0, 1, 2, 3>>
AES_INV_SHIFT_ROWS == <<0, 3, 2, 1>>

\* Bit i of the output is bit SERPENT_IP[i] of the input, counted from 0.
SERPENT_IP == [i \in 0..127 |-> (32 * (i % 4)) + (i \div 4)]
SERPENT_FP == [i \in 0..127 |-> (4 * (i % 32)) + (i \div 32)]

SERPENT_SBOXES == <<
    <<3, 8, 15, 1, 10, 6, 5, 11, 14, 13, 4, 2, 7, 0, 9, 12>>,
    <<15, 12, 2, 7, 9, 0, 5, 10, 1, 11, 14, 8, 6, 13, 3, 4>>,
    <<8, 6, 7, 9, 3, 12, 10, 15, 13, 1, 14, 4, 0, 11, 5, 2>>,
    <<0, 15, 11, 8, 12, 9, 6, 3, 13, 1, 2, 4, 10, 7, 5, 14>>,
    <<1, 15, 8, 3, 12, 0, 11, 6, 2, 5, 4, 10, 9, 14, 7, 13>>,
    <<15, 5, 2, 11, 4, 10, 9, 12, 0, 3, 14, 8, 13, 6, 7, 1>>,
    <<7, 2, 12, 5, 8, 4, 6, 11, 14, 9, 1, 15, 13, 3, 10, 0>>,
    <<1, 13, 15, 0, 14, 8, 2, 11, 7, 4, 12, 10, 9, 3, 5, 6>>>>

\* The bits of the input whose sum is bit i of the output, an entry for each i from 0.
SERPENT_LT_TABLE == <<
    <<16, 52, 56, 70, 83, 94, 105>>, <<72, 114, 125>>, <<2, 9, 15, 30, 76, 84, 126>>, <<36, 90, 103>>,
    <<20, 56, 60, 74, 87, 98, 109>>, <<1, 76, 118>>, <<2, 6, 13, 19, 34, 80, 88>>, <<40, 94, 107>>,
    <<24, 60, 64, 78, 91, 102, 113>>, <<5, 80, 122>>, <<6, 10, 17, 23, 38, 84, 92>>, <<44, 98, 111>>,
    <<28, 64, 68, 82, 95, 106, 117>>, <<9, 84, 126>>, <<10, 14, 21, 27, 42, 88, 96>>, <<48, 102, 115>>,
    <<32, 68, 72, 86, 99, 110, 121>>, <<2, 13, 88>>, <<14, 18, 25, 31, 46, 92, 100>>, <<52, 106, 119>>,
    <<36, 72, 76, 90, 103, 114, 125>>, <<6, 17, 92>>, <<18, 22, 29, 35, 50, 96, 104>>, <<56, 110, 123>>,
    <<1, 40, 76, 80, 94, 107, 118>>, <<10, 21, 96>>, <<22, 26, 33, 39, 54, 100, 108>>, <<60, 114, 127>>,
    <<5, 44, 80, 84, 98, 111, 122>>, <<14, 25, 100>>, <<26, 30, 37, 43, 58, 104, 112>>, <<3, 118>>,
    <<9, 48, 84, 88, 102, 115, 126>>, <<18, 29, 104>>, <<30, 34, 41, 47, 62, 108, 116>>, <<7, 122>>,
    <<2, 13, 52, 88, 92, 106, 119>>, <<22, 33, 108>>, <<34, 38, 45, 51, 66, 112, 120>>, <<11, 126>>,
    <<6, 17, 56, 92, 96, 110, 123>>, <<26, 37, 112>>, <<38, 42, 49, 55, 70, 116, 124>>, <<2, 15, 76>>,
    <<10, 21, 60, 96, 100, 114, 127>>, <<30, 41, 116>>, <<0, 42, 46, 53, 59, 74, 120>>, <<6, 19, 80>>,
    <<3, 14, 25, 100, 104, 118>>, <<34, 45, 120>>, <<4, 46, 50, 57, 63, 78, 124>>, <<10, 23, 84>>,
    <<7, 18, 29, 104, 108, 122>>, <<38, 49, 124>>, <<0, 8, 50, 54, 61, 67, 82>>, <<14, 27, 88>>,
    <<11, 22, 33, 108, 112, 126>>, <<0, 42, 53>>, <<4, 12, 54, 58, 65, 71, 86>>, <<18, 31, 92>>,
    <<2, 15, 26, 37, 76, 112, 116>>, <<4, 46, 57>>, <<8, 16, 58, 62, 69, 75, 90>>, <<22, 35, 96>>,
    <<6, 19, 30, 41, 80, 116, 120>>, <<8, 50, 61>>, <<12, 20, 62, 66, 73, 79, 94>>, <<26, 39, 100>>,
    <<10, 23, 34, 45, 84, 120, 124>>, <<12, 54, 65>>, <<16, 24, 66, 70, 77, 83, 98>>, <<30, 43, 104>>,
    <<0, 14, 27, 38, 49, 88, 124>>, <<16, 58, 69>>, <<20, 28, 70, 74, 81, 87, 102>>, <<34, 47, 108>>,
    <<0, 4, 18, 31, 42, 53, 92>>, <<20, 62, 73>>, <<24, 32, 74, 78, 85, 91, 106>>, <<38, 51, 112>>,
    <<4, 8, 22, 35, 46, 57, 96>>, <<24, 66, 77>>, <<28, 36, 78, 82, 89, 95, 110>>, <<42, 55, 116>>,
    <<8, 12, 26, 39, 50, 61, 100>>, <<28, 70, 81>>, <<32, 40, 82, 86, 93, 99, 114>>, <<46, 59, 120>>,
    <<12, 16, 30, 43, 54, 65, 104>>, <<32, 74, 85>>, <<36, 90, 103, 118>>, <<50, 63, 124>>,
    <<16, 20, 34, 47, 58, 69, 108>>, <<36, 78, 89>>, <<40, 94, 107, 122>>, <<0, 54, 67>>,
    <<20, 24, 38, 51, 62, 73, 112>>, <<40, 82, 93>>, <<44, 98, 111, 126>>, <<4, 58, 71>>,
    <<24, 28, 42, 55, 66, 77, 116>>, <<44, 86, 97>>, <<2, 48, 102, 115>>, <<8, 62, 75>>,
    <<28, 32, 46, 59, 70, 81, 120>>, <<48, 90, 101>>, <<6, 52, 106, 119>>, <<12, 66, 79>>,
    <<32, 36, 50, 63, 74, 85, 124>>, <<52, 94, 105>>, <<10, 56, 110, 123>>, <<16, 70, 83>>,
    <<0, 36, 40, 54, 67, 78, 89>>, <<56, 98, 109>>, <<14, 60, 114, 127>>, <<20, 74, 87>>,
    <<4, 40, 44, 58, 71, 82, 93>>, <<60, 102, 113>>, <<3, 18, 72, 114, 118, 125>>, <<24, 78, 91>>,
    <<8, 44, 48, 62, 75, 86, 97>>, <<64, 106, 117>>, <<1, 7, 22, 76, 118, 122>>, <<28, 82, 95>>,
    <<12, 48, 52, 66, 79, 90, 101>>, <<68, 110, 121>>, <<5, 11, 26, 80, 122, 126>>, <<32, 86, 99>>>>

SERPENT_INV_LT_TABLE == <<
    <<53, 55, 72>>, <<1, 5, 20, 90>>, <<15, 102>>, <<3, 31, 90>>, <<57, 59, 76>>, <<5, 9, 24, 94>>,
    <<19, 106>>, <<7, 35, 94>>, <<61, 63, 80>>, <<9, 13, 28, 98>>, <<23, 110>>, <<11, 39, 98>>,
    <<65, 67, 84>>, <<13, 17, 32, 102>>, <<27, 114>>, <<1, 3, 15, 20, 43, 102>>, <<69, 71, 88>>,
    <<17, 21, 36, 106>>, <<1, 31, 118>>, <<5, 7, 19, 24, 47, 106>>, <<73, 75, 92>>, <<21, 25, 40, 110>>,
    <<5, 35, 122>>, <<9, 11, 23, 28, 51, 110>>, <<77, 79, 96>>, <<25, 29, 44, 114>>, <<9, 39, 126>>,
    <<13, 15, 27, 32, 55, 114>>, <<81, 83, 100>>, <<1, 29, 33, 48, 118>>, <<2, 13, 43>>,
    <<1, 17, 19, 31, 36, 59, 118>>, <<85, 87, 104>>, <<5, 33, 37, 52, 122>>, <<6, 17, 47>>,
    <<5, 21, 23, 35, 40, 63, 122>>, <<89, 91, 108>>, <<9, 37, 41, 56, 126>>, <<10, 21, 51>>,
    <<9, 25, 27, 39, 44, 67, 126>>, <<93, 95, 112>>, <<2, 13, 41, 45, 60>>, <<14, 25, 55>>,
    <<2, 13, 29, 31, 43, 48, 71>>, <<97, 99, 116>>, <<6, 17, 45, 49, 64>>, <<18, 29, 59>>,
    <<6, 17, 33, 35, 47, 52, 75>>, <<101, 103, 120>>, <<10, 21, 49, 53, 68>>, <<22, 33, 63>>,
    <<10, 21, 37, 39, 51, 56, 79>>, <<105, 107, 124>>, <<14, 25, 53, 57, 72>>, <<26, 37, 67>>,
    <<14, 25, 41, 43, 55, 60, 83>>, <<0, 109, 111>>, <<18, 29, 57, 61, 76>>, <<30, 41, 71>>,
    <<18, 29, 45, 47, 59, 64, 87>>, <<4, 113, 115>>, <<22, 33, 61, 65, 80>>, <<34, 45, 75>>,
    <<22, 33, 49, 51, 63, 68, 91>>, <<8, 117, 119>>, <<26, 37, 65, 69, 84>>, <<38, 49, 79>>,
    <<26, 37, 53, 55, 67, 72, 95>>, <<12, 121, 123>>, <<30, 41, 69, 73, 88>>, <<42, 53, 83>>,
    <<30, 41, 57, 59, 71, 76, 99>>, <<16, 125, 127>>, <<34, 45, 73, 77, 92>>, <<46, 57, 87>>,
    <<34, 45, 61, 63, 75, 80, 103>>, <<1, 3, 20>>, <<38, 49, 77, 81, 96>>, <<50, 61, 91>>,
    <<38, 49, 65, 67, 79, 84, 107>>, <<5, 7, 24>>, <<42, 53, 81, 85, 100>>, <<54, 65, 95>>,
    <<42, 53, 69, 71, 83, 88, 111>>, <<9, 11, 28>>, <<46, 57, 85, 89, 104>>, <<58, 69, 99>>,
    <<46, 57, 73, 75, 87, 92, 115>>, <<13, 15, 32>>, <<50, 61, 89, 93, 108>>, <<62, 73, 103>>,
    <<50, 61, 77, 79, 91, 96, 119>>, <<17, 19, 36>>, <<54, 65, 93, 97, 112>>, <<66, 77, 107>>,
    <<54, 65, 81, 83, 95, 100, 123>>, <<21, 23, 40>>, <<58, 69, 97, 101, 116>>, <<70, 81, 111>>,
    <<58, 69, 85, 87, 99, 104, 127>>, <<25, 27, 44>>, <<62, 73, 101, 105, 120>>, <<74, 85, 115>>,
    <<3, 62, 73, 89, 91, 103, 108>>, <<29, 31, 48>>, <<66, 77, 105, 109, 124>>, <<78, 89, 119>>,
    <<7, 66, 77, 93, 95, 107, 112>>, <<33, 35, 52>>, <<0, 70, 81, 109, 113>>, <<82, 93, 123>>,
    <<11, 70, 81, 97, 99, 111, 116>>, <<37, 39, 56>>, <<4, 74, 85, 113, 117>>, <<86, 97, 127>>,
    <<15, 74, 85, 101, 103, 115, 120>>, <<41, 43, 60>>, <<8, 78, 89, 117, 121>>, <<3, 90>>,
    <<19, 78, 89, 105, 107, 119, 124>>, <<45, 47, 64>>, <<12, 82, 93, 121, 125>>, <<7, 94>>,
    <<0, 23, 82, 93, 109, 111, 123>>, <<49, 51, 68>>, <<1, 16, 86, 97, 125>>, <<11, 98>>,
    <<4, 27, 86, 97, 113, 115, 127>>>>

\* Bits counted from 1, the most significant first.
DES_IP == [i \in 1..64 |-> 58 + (2 * (((i - 1) \div 8) % 4)) - ((i - 1) \div 32) - (8 * ((i - 1) % 8))]
DES_FP == [i \in 1..64 |-> (IF i % 2 = 1 THEN 40 ELSE 8) + (8 * (((i - 1) % 8) \div 2)) - ((i - 1) \div 8)]
DES_E == [i \in 1..48 |-> ((4 * ((i - 1) \div 6) + ((i - 1) % 6) + 31) % 32) + 1]

DES_P == <<
    16, 7, 20, 21, 29, 12, 28, 17, 1, 15, 23, 26, 5, 18, 31, 10, 2, 8, 24, 14, 32, 27, 3, 9, 19, 13, 30, 6,
    22, 11, 4, 25>>

DES_PC1 == <<
    57, 49, 41, 33, 25, 17, 9, 1, 58, 50, 42, 34, 26, 18, 10, 2, 59, 51, 43, 35, 27, 19, 11, 3, 60, 52, 44,
    36, 63, 55, 47, 39, 31, 23, 15, 7, 62, 54, 46, 38, 30, 22, 14, 6, 61, 53, 45, 37, 29, 21, 13, 5, 28, 20,
    12, 4>>

DES_PC2 == <<
    14, 17, 11, 24, 1, 5, 3, 28, 15, 6, 21, 10, 23, 19, 12, 4, 26, 8, 16, 7, 27, 20, 13, 2, 41, 52, 31, 37,
    47, 55, 30, 40, 51, 45, 33, 48, 44, 49, 39, 56, 34, 53, 46, 42, 50, 36, 29, 32>>

DES_SHIFTS == <<
    1, 1, 2, 2, 2, 2, 2, 2, 1, 2, 2, 2, 2, 2, 2, 1>>

\* A row of an S-box is chosen by the outer bits of the input, a column by the inner ones.
DES_SBOXES == <<

    <<<<14, 4, 13, 1, 2, 15, 11, 8, 3, 10, 6, 12, 5, 9, 0, 7>>, <<0, 15, 7, 4, 14, 2, 13, 1, 10, 6, 12, 11, 9, 5, 3, 8>>, <<4, 1, 14, 8, 13, 6, 2, 11, 15, 12, 9, 7, 3, 10, 5, 0>>, <<15, 12, 8, 2, 4, 9, 1, 7, 5, 11, 3, 14, 10, 0, 6, 13>>>>,
    <<<<15, 1, 8, 14, 6, 11, 3, 4, 9, 7, 2, 13, 12, 0, 5, 10>>, <<3, 13, 4, 7, 15, 2, 8, 14, 12, 0, 1, 10, 6, 9, 11, 5>>, <<0, 14, 7, 11, 10, 4, 13, 1, 5, 8, 12, 6, 9, 3, 2, 15>>, <<13, 8, 10, 1, 3, 15, 4, 2, 11, 6, 7, 12, 0, 5, 14, 9>>>>,
    <<<<10, 0, 9, 14, 6, 3, 15, 5, 1, 13, 12, 7, 11, 4, 2, 8>>, <<13, 7, 0, 9, 3, 4, 6, 10, 2, 8, 5, 14, 12, 11, 15, 1>>, <<13, 6, 4, 9, 8, 15, 3, 0, 11, 1, 2, 12, 5, 10, 14, 7>>, <<1, 10, 13, 0, 6, 9, 8, 7, 4, 15, 14, 3, 11, 5, 2, 12>>>>,
    <<<<7, 13, 14, 3, 0, 6, 9, 10, 1, 2, 8, 5, 11, 12, 4, 15>>, <<13, 8, 11, 5, 6, 15, 0, 3, 4, 7, 2, 12, 1, 10, 14, 9>>, <<10, 6, 9, 0, 12, 11, 7, 13, 15, 1, 3, 14, 5, 2, 8, 4>>, <<3, 15, 0, 6, 10, 1, 13, 8, 9, 4, 5, 11, 12, 7, 2, 14>>>>,
    <<<<2, 12, 4, 1, 7, 10, 11, 6, 8, 5, 3, 15, 13, 0, 14, 9>>, <<14, 11, 2, 12, 4, 7, 13, 1, 5, 0, 15, 10, 3, 9, 8, 6>>, <<4, 2, 1, 11, 10, 13, 7, 8, 15, 9, 12, 5, 6, 3, 0, 14>>, <<11, 8, 12, 7, 1, 14, 2, 13, 6, 15, 0, 9, 10, 4, 5, 3>>>>,
    <<<<12, 1, 10, 15, 9, 2, 6, 8, 0, 13, 3, 4, 14, 7, 5, 11>>, <<10, 15, 4, 2, 7, 12, 9, 5, 6, 1, 13, 14, 0, 11, 3, 8>>, <<9, 14, 15, 5, 2, 8, 12, 3, 7, 0, 4, 10, 1, 13, 11, 6>>, <<4, 3, 2, 12, 9, 5, 15, 10, 11, 14, 1, 7, 6, 0, 8, 13>>>>,
    <<<<4, 11, 2, 14, 15, 0, 8, 13, 3, 12, 9, 7, 5, 10, 6, 1>>, <<13, 0, 11, 7, 4, 9, 1, 10, 14, 3, 5, 12, 2, 15, 8, 6>>, <<1, 4, 11, 13, 12, 3, 7, 14, 10, 15, 6, 8, 0, 5, 9, 2>>, <<6, 11, 13, 8, 1, 4, 10, 7, 9, 5, 0, 15, 14, 2, 3, 12>>>>,
    <<<<13, 2, 8, 4, 6, 15, 11, 1, 10, 9, 3, 14, 5, 0, 12, 7>>, <<1, 15, 13, 8, 10, 3, 7, 4, 12, 5, 6, 11, 0, 14, 9, 2>>, <<7, 11, 4, 1, 9, 12, 14, 2, 0, 6, 10, 13, 15, 3, 5, 8>>, <<2, 1, 14, 7, 4, 10, 8, 13, 15, 12, 9, 0, 3, 5, 6, 11>>>>>>

TWOFISH_MDS == <<
    <<1, 239, 91, 91>>, <<91, 239, 239, 1>>, <<239, 91, 1, 239>>, <<239, 1, 239, 91>>>>

TWOFISH_RS == <<
    <<1, 164, 85, 135, 90, 88, 219, 158>>, <<164, 86, 130, 243, 30, 198, 104, 229>>,
    <<2, 161, 252, 193, 71, 174, 61, 25>>, <<164, 85, 135, 90, 88, 219, 158, 3>>>>

TWOFISH_MDS_POLY == 361
TWOFISH_RS_POLY == 333

T_TABLES == <<

    <<<<8, 1, 7, 13, 6, 15, 3, 2, 0, 11, 5, 9, 14, 12, 10, 4>>, <<14, 12, 11, 8, 1, 2, 3, 5, 15, 4, 10, 6, 7, 0, 9, 13>>, <<11, 10, 5, 14, 6, 13, 9, 0, 12, 8, 15, 3, 2, 4, 7, 1>>, <<13, 7, 15, 4, 1, 2, 6, 14, 9, 11, 3, 0, 8, 5, 12, 10>>>>,
    <<<<2, 8, 11, 13, 15, 7, 6, 14, 3, 1, 9, 4, 0, 10, 12, 5>>, <<1, 14, 2, 11, 4, 12, 3, 7, 6, 13, 10, 5, 15, 9, 0, 8>>, <<4, 12, 7, 5, 1, 6, 9, 10, 0, 14, 13, 8, 2, 11, 3, 15>>, <<11, 9, 5, 1, 12, 3, 13, 14, 6, 4, 7, 15, 2, 0, 8, 10>>>>>>

=============================================================================
