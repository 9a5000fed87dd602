----------------------------- MODULE BlockModes -----------------------------
(***************************************************************************)
(* A message encrypted under a block cipher and decrypted again:           *)
(* src/ciphers/modes/*.ts, the padding steps of src/steps, the padding     *)
(* overlay of src/core/spec-mutations.ts, the block loop of                *)
(* src/core/runtime.ts and the length checks of run() in src/ui/App.tsx.   *)
(* A run takes one step per block.  The user flips the direction when the  *)
(* first run is over: its output becomes the input of the second.          *)
(***************************************************************************)
EXTENDS Integers, Sequences, FiniteSets

CONSTANTS B,          \* the bytes of a block
          W,          \* the values of a byte
          Mark,       \* 0x80, the byte that starts an ISO 7816-4 pad
          E, D,       \* the block cipher under the run's key, and its inverse
          XorByte,    \* the exclusive or of two bytes
          MaxBlocks,  \* the blocks the input field takes
          Plaintexts, \* what the user encrypts
          Ivs         \* the initialization vectors

Byte == 0..(W - 1)
Block == [1..B -> Byte]

ASSUME SizeAssumption ==
    /\ B \in Nat \ {0} /\ W \in Nat /\ B < W
    /\ Mark \in 1..(W - 1) /\ MaxBlocks \in Nat \ {0}

ASSUME XorAssumption ==
    /\ XorByte \in [Byte -> [Byte -> Byte]]
    /\ \A a, b \in Byte : XorByte[XorByte[a][b]][b] = a

ASSUME CipherAssumption ==
    /\ E \in [Block -> Block] /\ D \in [Block -> Block]
    /\ \A x \in Block : D[E[x]] = x

\* The field takes 16 blocks (MAX_BLOCKS_UI in src/ui/stores/padding.ts), and
\* the narrowest block has 2^32 values.
ASSUME CounterAssumption == MaxBlocks < Cardinality(Block)

ASSUME InputAssumption == Plaintexts \subseteq Seq(Byte) /\ Ivs \subseteq Block

CipherModes == {"single-block", "ecb", "cbc", "ctr", "cfb", "ofb"}
StreamModes == {"ctr", "cfb", "ofb"}
Schemes == {"none", "pkcs7", "zero-pad", "iso7816-4"}

VARIABLES task,    \* the mode of operation, the padding, the IV and the plaintext
          dir,     \* the direction of the run
          text,    \* the input field
          pc,      \* "start", "loop", "done", or "failed" when a step threw
          source,  \* the bytes the block loop consumes
          k,       \* the blocks it has consumed
          chain,   \* the value it carries from block to block
          out,     \* the blocks it has produced, joined
          forth    \* the carried values of the first run, as its trace shows them

vars == <<task, dir, text, pc, source, k, chain, out, forth>>

-----------------------------------------------------------------------------
(***************************************************************************)
(* Padding.                                                                *)
(***************************************************************************)

Repeat(b, n) == [p \in 1..n |-> b]
FillLength(n) == B - (n % B)

Pkcs7Pad(s) == s \o Repeat(FillLength(Len(s)), FillLength(Len(s)))
ZeroPad(s) == s \o Repeat(0, FillLength(Len(s)) % B)
Iso7816Pad(s) == s \o <<Mark>> \o Repeat(0, FillLength(Len(s)) - 1)

Whole(s) == Len(s) > 0 /\ Len(s) % B = 0
Front(s, n) == SubSeq(s, 1, n)

\* An unpad step throws on malformed padding.
Pkcs7Malformed(s) ==
    LET n == s[Len(s)] IN n \notin 1..B \/ \E p \in (Len(s) - n + 1)..Len(s) : s[p] # n
Pkcs7Unpad(s) == Front(s, Len(s) - s[Len(s)])

\* The positions before the trailing zeros; the last of them, or 0.
NonZero(s) == {p \in 1..Len(s) : s[p] # 0}
LastNonZero(s) == IF NonZero(s) = {} THEN 0 ELSE CHOOSE p \in NonZero(s) : \A q \in NonZero(s) : q <= p
ZeroUnpad(s) == Front(s, LastNonZero(s))

Iso7816Malformed(s) ==
    LET p == LastNonZero(s) IN p < Len(s) - B + 1 \/ s[p] # Mark
Iso7816Unpad(s) == Front(s, LastNonZero(s) - 1)

\* The overlay applies to the modes that push whole blocks through the cipher.
Scheme(t) == IF t.mode \in StreamModes THEN "none" ELSE t.scheme

Padded(t, s) ==
    CASE Scheme(t) = "pkcs7" -> Pkcs7Pad(s)
      [] Scheme(t) = "zero-pad" -> ZeroPad(s)
      [] Scheme(t) = "iso7816-4" -> Iso7816Pad(s)
      [] Scheme(t) = "none" -> s

UnpadThrows(t, s) ==
    CASE Scheme(t) = "pkcs7" -> ~Whole(s) \/ Pkcs7Malformed(s)
      [] Scheme(t) = "zero-pad" -> ~Whole(s)
      [] Scheme(t) = "iso7816-4" -> ~Whole(s) \/ Iso7816Malformed(s)
      [] Scheme(t) = "none" -> FALSE

Unpadded(t, s) ==
    CASE Scheme(t) = "pkcs7" -> Pkcs7Unpad(s)
      [] Scheme(t) = "zero-pad" -> ZeroUnpad(s)
      [] Scheme(t) = "iso7816-4" -> Iso7816Unpad(s)
      [] Scheme(t) = "none" -> s

-----------------------------------------------------------------------------
(***************************************************************************)
(* The body of the block loop, one operator per mode: what it makes of a   *)
(* block and the carried value, and what it carries on.                    *)
(***************************************************************************)

XorBytes(a, b) == [p \in 1..Len(a) |-> XorByte[a[p]][b[p]]]
Trim(a, reference) == Front(a, Len(reference))

\* The counter is one big-endian number and wraps.
Increment(c) ==
    [p \in 1..B |-> IF \A q \in (p + 1)..B : c[q] = W - 1 THEN (c[p] + 1) % W ELSE c[p]]

Result(o, carry) == [out |-> o, carry |-> carry]

EcbBody(way, in, carried) == Result(IF way = "encrypt" THEN E[in] ELSE D[in], carried)

\* Mutant of CbcBody: decryption combines before it runs the cipher.
CbcBodyXorFirst(way, in, carried) ==
    LET x == XorBytes(in, carried)
    IN  Result(IF way = "encrypt" THEN E[x] ELSE D[x], IF way = "encrypt" THEN E[x] ELSE in)

CbcBody(way, in, carried) ==
    LET o == IF way = "encrypt" THEN E[XorBytes(in, carried)] ELSE XorBytes(D[in], carried)
    IN  Result(o, IF way = "encrypt" THEN o ELSE in)

Masked(in, carried) == XorBytes(in, Trim(E[carried], in))

CtrBody(way, in, carried) == Result(Masked(in, carried), Increment(carried))

CfbBody(way, in, carried) ==
    Result(Masked(in, carried), IF way = "encrypt" THEN Masked(in, carried) ELSE in)

OfbBody(way, in, carried) == Result(Masked(in, carried), E[carried])

\* A cipher without a mode runs its body once, on its one block.
Body(m, way, in, carried) ==
    CASE m \in {"single-block", "ecb"} -> EcbBody(way, in, carried)
      [] m = "cbc" -> CbcBody(way, in, carried)
      [] m = "ctr" -> CtrBody(way, in, carried)
      [] m = "cfb" -> CfbBody(way, in, carried)
      [] m = "ofb" -> OfbBody(way, in, carried)

-----------------------------------------------------------------------------
(***************************************************************************)
(* The runs.                                                               *)
(***************************************************************************)

Limits(lo, hi) == [min |-> lo, max |-> hi]

\* paddingLimits
InputLimits(t, way) ==
    LET top == IF t.mode = "single-block" THEN B ELSE MaxBlocks * B
    IN  CASE t.mode \in StreamModes -> Limits(1, top)
          [] t.mode \notin StreamModes /\ (way = "decrypt" \/ t.scheme = "none") -> Limits(B, top)
          [] t.mode \notin StreamModes /\ way = "encrypt" /\ t.scheme = "zero-pad" -> Limits(1, top)
          [] OTHER -> Limits(0, top - 1)

\* What run() accepts in the input field.
Accepts(t, way, s) ==
    /\ InputLimits(t, way).min <= Len(s) /\ Len(s) <= InputLimits(t, way).max
    /\ t.mode \in {"ecb", "cbc"} /\ (way = "decrypt" \/ t.scheme = "none") => Len(s) % B = 0

Tasks == [mode : CipherModes, scheme : Schemes, iv : Ivs, plain : Plaintexts]

Init ==
    /\ task \in {t \in Tasks : Accepts(t, "encrypt", t.plain)}
    /\ dir = "encrypt" /\ text = task.plain /\ pc = "start"
    /\ source = <<>> /\ k = 0 /\ chain = task.iv /\ out = <<>> /\ forth = <<>>

\* The pad step comes first.  The loop throws on a broken last block unless
\* the mode allows one.
Start ==
    /\ pc = "start"
    /\ source' = IF dir = "encrypt" THEN Padded(task, text) ELSE text
    /\ pc' = IF Accepts(task, dir, text) /\ (task.mode \in StreamModes \/ Len(source') % B = 0)
             THEN "loop" ELSE "failed"
    /\ k' = 0 /\ chain' = task.iv /\ out' = <<>>
    /\ UNCHANGED <<task, dir, text, forth>>

BlockAt(s, i) == SubSeq(s, i * B + 1, IF (i + 1) * B <= Len(s) THEN (i + 1) * B ELSE Len(s))

Iterate ==
    /\ pc = "loop" /\ k * B < Len(source)
    /\ LET result == Body(task.mode, dir, BlockAt(source, k), chain)
       IN  out' = out \o result.out /\ chain' = result.carry
    /\ k' = k + 1
    /\ forth' = IF dir = "encrypt" THEN Append(forth, chain) ELSE forth
    /\ UNCHANGED <<task, dir, text, pc, source>>

\* The output becomes the input of the other direction.
Flip ==
    /\ pc = "loop" /\ Len(source) <= k * B /\ dir = "encrypt"
    /\ text' = out /\ dir' = "decrypt" /\ pc' = "start"
    /\ UNCHANGED <<task, source, k, chain, out, forth>>

Finish ==
    /\ pc = "loop" /\ Len(source) <= k * B /\ dir = "decrypt"
    /\ pc' = IF UnpadThrows(task, out) THEN "failed" ELSE "done"
    /\ out' = IF UnpadThrows(task, out) THEN out ELSE Unpadded(task, out)
    /\ UNCHANGED <<task, dir, text, source, k, chain, forth>>

Next == Start \/ Iterate \/ Flip \/ Finish

Spec == Init /\ [][Next]_vars

-----------------------------------------------------------------------------
(***************************************************************************)
(* Properties.                                                             *)
(***************************************************************************)

\* Every value of a run is made of bytes, and every carried value is a block.
TypeOK ==
    /\ task \in Tasks /\ dir \in {"encrypt", "decrypt"}
    /\ pc \in {"start", "loop", "done", "failed"}
    /\ text \in Seq(Byte) /\ source \in Seq(Byte) /\ out \in Seq(Byte)
    /\ k \in Nat /\ chain \in Seq(Byte) /\ forth \in Seq(Block)

\* A message the input field accepts comes back from the other direction as
\* it was, whatever the mode, the padding and the length; zero padding loses
\* the zeros the message ended with and nothing else.
Recovered == IF Scheme(task) = "zero-pad" THEN ZeroUnpad(task.plain) ELSE task.plain
RoundTrip == pc = "done" => out = Recovered

\* No step throws on the way, and the output of the first run is one the
\* input field takes for the second (src/ui/stores/padding.ts leaves a
\* padded message room for its last block).
NeverFails == pc # "failed"

\* A mode that needs no padding produces as many bytes as it was given; the
\* others produce whole blocks.
LengthKept ==
    dir = "decrypt" => IF task.mode \in StreamModes THEN Len(text) = Len(task.plain)
                       ELSE Len(text) % B = 0 /\ Len(text) >= Len(task.plain)

\* The decrypting loop carries into every block what the encrypting loop
\* carried into it.
CarriesAgree ==
    pc = "loop" /\ dir = "decrypt" /\ k < Len(forth) => chain = forth[k + 1]

\* In counter mode no two blocks of a message meet the same counter.
CountersDiffer ==
    task.mode = "ctr" => \A i, j \in 1..Len(forth) : i # j => forth[i] # forth[j]

\* Every accepted message comes through both directions: nothing throws, the
\* lengths are the mode's, the second chain repeats the first, no counter
\* comes twice, and the message is back at the end.
ModeIsCorrect ==
    TypeOK /\ NeverFails /\ LengthKept /\ CarriesAgree /\ CountersDiffer /\ RoundTrip

=============================================================================
