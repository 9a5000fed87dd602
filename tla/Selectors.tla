------------------------------ MODULE Selectors -------------------------------
(***************************************************************************)
(* What the explorer is about to run: the selectors, the input, key and IV *)
(* fields, the pair of specs they resolve to, and what a run, a saved      *)
(* document and a load do with them (src/ui/App.tsx and the stores cipher, *)
(* cipher-mode, padding, iv, forward-input and spec).                      *)
(*                                                                         *)
(* A field holds a sample or text that does not parse. A spec is a record  *)
(* of the selections it was built for; "edited" says that the user has     *)
(* changed it since. A setter is an operator from settings to settings,    *)
(* composed as the handler composes them; the effects that watch the       *)
(* settings run inside each write.                                         *)
(***************************************************************************)
EXTENDS Integers

CONSTANTS
    Offered,          \* the algorithms of the model
    OfferedModes,     \* the modes of operation the user selects
    OfferedPadding,   \* the padding schemes
    TypedLengths,     \* lengths of the inputs and keys the user types
    TypedOutputs,     \* output lengths the user types
    MaxActs           \* bound of the model: handlers in a behaviour

VARIABLES
    ui,        \* the settings
    ran,       \* some run has succeeded; its output is on screen
    shown,     \* what the last run was of, or Nothing
    pending,   \* a debounced run is scheduled
    autoRerun, \* the checkbox
    unrun,     \* what became of edits made in manual mode, see below
    files,     \* the documents saved or shared so far
    marks,     \* history: what the user has done, see the properties
    flipped,   \* history: the input when the mode was last flipped away
    acts       \* handlers so far

-----------------------------------------------------------------------------
(***************************************************************************)
(* The algorithms the explorer offers and the tables its selectors read:   *)
(* src/ui/stores/cipher.ts, cipher-mode.ts, padding.ts, iv.ts, block-      *)
(* cipher-cores.ts and the defaults in App.tsx. Byte strings are compared  *)
(* and measured, never looked into: a sample is a name, equal for two      *)
(* tables exactly when their bytes are, and a length.                      *)
(***************************************************************************)

Categories == {"cipher", "hash", "asymmetric", "prng", "lattice"}

AesCiphers == {"aes-128", "aes-192", "aes-256"}
SpeckCiphers == {"speck-32-64-be", "speck-32-64-le"}
SerpentCiphers == {"serpent-128", "serpent-192", "serpent-256"}
StreamCiphers == {"chacha20", "salsa20"}
Ciphers == AesCiphers \cup SpeckCiphers \cup SerpentCiphers
             \cup {"des", "blowfish", "twofish"} \cup StreamCiphers
KmacHashes == {"kmac128", "kmac256", "kmacxof128", "kmacxof256"}
XofHashes == {"shake128", "shake256", "cshake128", "cshake256"} \cup KmacHashes
Hashes == {"sha-256", "sha3-256"} \cup XofHashes
Asymmetrics == {"rsa", "ml-kem-768", "ml-dsa-44"}
Prngs == {"minstd-rand0", "minstd-rand", "ansi-c-lcg", "mt19937", "chacha20-csprng"}
Lattices == {"ntt-3329-256", "ntt-8380417-256"}

Of == [cipher |-> Ciphers, hash |-> Hashes, asymmetric |-> Asymmetrics,
       prng |-> Prngs, lattice |-> Lattices]
AllAlgorithms == UNION {Of[c] : c \in Categories}

Modes == {"encrypt", "decrypt"}
IvModes == {"cbc", "ctr", "cfb", "ofb", "stream"}
CipherModes == {"single-block", "ecb"} \cup IvModes
PaddingSchemes == {"none", "pkcs7", "zero-pad", "iso7816-4"}

\* The one-way-back schemes: flipping back restores what ran forward.
RestoresForwardInput == {"ml-dsa-44", "ml-kem-768"}

Directed(a) == a \notin Hashes \cup Prngs

-----------------------------------------------------------------------------
(***************************************************************************)
(* Blocks, modes of operation and initialization vectors.                  *)
(***************************************************************************)

\* Zero for a cipher without a block core.
BlockByteLength(c) ==
    CASE c \in AesCiphers \cup SerpentCiphers \cup {"twofish"} -> 16
      [] c \in {"des", "blowfish"} -> 8
      [] c \in SpeckCiphers -> 4
      [] OTHER -> 0

SupportedCipherModes(c) ==
    IF c \in StreamCiphers THEN {"stream"} ELSE CipherModes \ {"stream"}

DefaultCipherMode(c) == IF c \in StreamCiphers THEN "stream" ELSE "single-block"

IsStreamMode(cm) == cm \in {"ctr", "cfb", "ofb", "stream"}

IvByteLength(c) == IF c \in StreamCiphers THEN 16 ELSE BlockByteLength(c)

MaxBlocksUi == 16

Limits(lo, hi) == [min |-> lo, max |-> hi]

\* Bounds of the input field.  A stream cipher's has no upper bound; 4096
\* stands for it.
PaddingLimits(m, scheme, c, cm) ==
    LET B == BlockByteLength(c)
        top == MaxBlocksUi * B
    IN  CASE B = 0 -> Limits(1, 4096)
          [] B > 0 /\ IsStreamMode(cm) -> Limits(1, top)
          [] B > 0 /\ cm \in {"ecb", "cbc"} ->
                 IF m = "decrypt" \/ scheme = "none" THEN Limits(B, top)
                 ELSE IF scheme = "zero-pad" THEN Limits(1, top)
                 ELSE Limits(0, top - 1)
          [] OTHER ->
                 IF m = "decrypt" \/ scheme = "none" THEN Limits(B, B)
                 ELSE IF scheme = "zero-pad" THEN Limits(1, B)
                 ELSE Limits(0, B - 1)

InLimits(n, limits) == limits.min <= n /\ n <= limits.max

-----------------------------------------------------------------------------
(***************************************************************************)
(* Default keys, inputs and IVs.                                           *)
(***************************************************************************)

Sample(kind, name, n) == [kind |-> kind, name |-> name, length |-> n]
NoBytes == Sample("none", "none", 0)

DefaultCipherKey(c) ==
    CASE c \in {"aes-128", "serpent-128", "twofish"} -> Sample("key", "ascending", 16)
      [] c = "serpent-192" -> Sample("key", "ascending", 24)
      [] c \in {"serpent-256", "chacha20"} -> Sample("key", "ascending", 32)
      [] c = "aes-192" -> Sample("key", c, 24)
      [] c \in {"aes-256", "salsa20"} -> Sample("key", c, 32)
      [] OTHER -> Sample("key", c, 8)

DefaultKey(a) ==
    CASE a \in Ciphers -> DefaultCipherKey(a)
      [] a \in KmacHashes -> Sample("key", "kmac", 32)
      [] OTHER -> NoBytes

AesPlaintext == Sample("input", "aes", 16)
ShortPlaintext == Sample("input", "apple", 5)

DefaultPlaintext(c) ==
    CASE BlockByteLength(c) = 16 -> AesPlaintext
      [] c = "chacha20" -> Sample("input", c, 114)
      [] c = "salsa20" -> Sample("input", c, 108)
      [] OTHER -> Sample("input", c, BlockByteLength(c))

DefaultCiphertext(c) == Sample("inverse input", c, DefaultPlaintext(c).length)

\* The lengths of a seed, a polynomial and a signature.
SeedByteLength(p) == IF p = "chacha20-csprng" THEN 32 ELSE 4
PolynomialByteLength(l) == IF l = "ntt-3329-256" THEN 512 ELSE 1024
SignatureByteLength == 2420

DefaultHashInput(h) ==
    IF h \in {"sha-256", "sha3-256", "shake128", "shake256"}
    THEN Sample("input", "abc", 3) ELSE Sample("input", "00010203", 4)

DefaultSeed(p) ==
    CASE p = "mt19937" -> Sample("input", p, 4)
      [] p = "chacha20-csprng" -> Sample("input", p, 32)
      [] OTHER -> Sample("input", "one", 4)

DefaultAsymmetricInput(a, m) ==
    IF m = "encrypt"
    THEN Sample("input", a, CASE a = "rsa" -> 2 [] a = "ml-kem-768" -> 32 [] OTHER -> 13)
    ELSE Sample("inverse input", a,
                CASE a = "rsa" -> 2 [] a = "ml-kem-768" -> 1088 [] OTHER -> SignatureByteLength)

DefaultPolynomial(l, m) ==
    Sample(IF m = "decrypt" THEN "inverse input" ELSE "input", l, PolynomialByteLength(l))

\* algorithmDefaultPt: a cipher's is the plaintext in either direction.
DefaultInput(a, m) ==
    CASE a \in Hashes -> DefaultHashInput(a)
      [] a \in Asymmetrics -> DefaultAsymmetricInput(a, m)
      [] a \in Prngs -> DefaultSeed(a)
      [] a \in Lattices -> DefaultPolynomial(a, m)
      [] OTHER -> DefaultPlaintext(a)

\* canonicalIvFor
CanonicalIv(c) ==
    IF c \in StreamCiphers THEN Sample("iv", c, 16)
    ELSE Sample("iv", "ascending", IvByteLength(c))

-----------------------------------------------------------------------------
(***************************************************************************)
(* Output lengths.                                                         *)
(***************************************************************************)

MaxShakeOutput == 512
MaxKmacKeyLength == 512
MaxPrngOutputFor(p) == IF p = "chacha20-csprng" THEN 256 ELSE 1024

AtLeastOne(n, top) == IF n < 1 THEN 1 ELSE IF n > top THEN top ELSE n

-----------------------------------------------------------------------------
(***************************************************************************)
(* The selectors.                                                          *)
(***************************************************************************)

ASSUME OfferedAssumption == Offered \subseteq AllAlgorithms /\ "aes-128" \in Offered
ASSUME SelectAssumption == OfferedModes \subseteq CipherModes /\ OfferedPadding \subseteq PaddingSchemes
ASSUME TypedAssumption == TypedLengths \subseteq Nat /\ TypedOutputs \subseteq Nat
ASSUME MaxActsAssumption == MaxActs \in Nat

vars == <<ui, ran, shown, pending, autoRerun, unrun, files, marks, flipped, acts>>
rerun == <<autoRerun, unrun>>

Nothing == [algorithm |-> "nothing"]
Unparseable == Sample("garbage", "garbage", 0)
Parses(text) == text # Unparseable
Typed(n) == Sample("typed", "typed", n)
Output(n) == Sample("output", "output", n)

-----------------------------------------------------------------------------
(***************************************************************************)
(* Specs.                                                                  *)
(***************************************************************************)

SlotNames(c) == IF c \in {"hash", "prng"} THEN {"single"} ELSE Modes

\* overlayBlockBytes: zero where no padding overlay applies.
OverlayBlockBytes(c, cm) == IF IsStreamMode(cm) THEN 0 ELSE BlockByteLength(c)

PaddedWith(c, cm, scheme) == IF OverlayBlockBytes(c, cm) = 0 THEN "none" ELSE scheme

\* The canonical spec of an algorithm under the other selections.  The two
\* directions differ only in content the model does not look at.
Slot(a, s) ==
    LET cm == IF a \in Ciphers /\ s.cipherMode \notin SupportedCipherModes(a)
              THEN DefaultCipherMode(a) ELSE s.cipherMode
    IN  [algorithm |-> a,
         cipherMode |-> IF a \in Ciphers THEN cm ELSE "none",
         padding |-> IF a \in Ciphers THEN PaddedWith(a, cm, s.padding) ELSE "none",
         keyLength |-> IF a \in KmacHashes THEN s.kmacLength ELSE DefaultKey(a).length,
         outputLength |-> CASE a \in XofHashes -> s.xofLength
                            [] a \in Prngs -> AtLeastOne(s.prngLength, MaxPrngOutputFor(a))
                            [] OTHER -> 0,
         edited |-> FALSE]

Canonical(c, a, s) == [kind |-> c, slot |-> [n \in SlotNames(c) |-> Slot(a, s)]]

Algorithm(s) == s.chosen[s.category]
ActiveName(s) == IF s.specs.kind \in {"hash", "prng"} THEN "single" ELSE s.mode
Active(s) == s.specs.slot[ActiveName(s)]
IsCustom(s) == Active(s) # Slot(s.chosen[s.specs.kind], s)

UpdateActive(s, spec) == [s EXCEPT !.specs.slot[ActiveName(s)] = spec]

-----------------------------------------------------------------------------
(***************************************************************************)
(* The setters of the spec store.                                          *)
(***************************************************************************)

SetCipher(s, c) ==
    LET t == [s EXCEPT !.category = "cipher", !.chosen.cipher = c,
                       !.cipherMode = IF @ \in SupportedCipherModes(c) THEN @
                                      ELSE DefaultCipherMode(c)]
    IN  [t EXCEPT !.specs = Canonical("cipher", c, t)]

\* setHash, setAsymmetric, setLattice
SetOther(s, c, a) ==
    LET t == [s EXCEPT !.category = c, !.chosen[c] = a]
    IN  [t EXCEPT !.specs = Canonical(c, a, t)]

SetPrng(s, p) ==
    SetOther([s EXCEPT !.prngLength = IF @ > MaxPrngOutputFor(p) THEN MaxPrngOutputFor(p) ELSE @],
             "prng", p)

SetAlgorithm(s, c, a) ==
    CASE c = "cipher" -> SetCipher(s, a)
      [] c = "prng" -> SetPrng(s, a)
      [] OTHER -> SetOther(s, c, a)

SetCipherMode(s, cm) ==
    LET t == [s EXCEPT !.cipherMode = cm]
    IN  [t EXCEPT !.specs = Canonical("cipher", t.chosen.cipher, t)]

\* setPadding overlays the scheme on both specs, keeping their edits.
SetPadding(s, scheme) ==
    LET overlaid(spec) ==
            [spec EXCEPT !.padding = IF s.specs.kind = "cipher"
                                     THEN PaddedWith(s.chosen.cipher, s.cipherMode, scheme)
                                     ELSE "none"]
    IN  [s EXCEPT !.padding = scheme,
                  !.specs.slot = [n \in DOMAIN @ |-> overlaid(@[n])]]

RebuiltHash(s) == [s EXCEPT !.specs = Canonical("hash", s.chosen.hash, s)]
IsKmac(s) == s.chosen.hash \in KmacHashes

\* These two ask which hash is chosen, not whether a hash is active.
SetShakeOutputLength(s, n) ==
    LET t == [s EXCEPT !.xofLength = AtLeastOne(n, MaxShakeOutput)]
    IN  IF t.chosen.hash \in XofHashes THEN RebuiltHash(t) ELSE t

SetKmacKeyLength(s, n) ==
    LET t == [s EXCEPT !.kmacLength = AtLeastOne(n, MaxKmacKeyLength)]
    IN  IF IsKmac(t) THEN RebuiltHash(t) ELSE t

SetPrngOutputLength(s, n) ==
    LET p == s.chosen.prng
    IN  SetPrng([s EXCEPT !.prngLength = AtLeastOne(n, MaxPrngOutputFor(p))], p)

ResetSpec(s) == UpdateActive(s, Slot(s.chosen[s.specs.kind], s))

-----------------------------------------------------------------------------
(***************************************************************************)
(* The fields.                                                             *)
(***************************************************************************)

\* A field that holds the old default takes the new one; no other changes.
Swap(text, old, new) == IF text = old THEN new ELSE text

\* Mutant of ReconcileIvWidth: the IV is left alone.
LeaveIv(s) == s

\* reconcileIvWidth
ReconcileIvWidth(s) ==
    LET c == s.chosen.cipher
    IN  IF s.iv.length = IvByteLength(c) THEN s ELSE [s EXCEPT !.iv = CanonicalIv(c)]

\* Mutant of Recorded: decapsulating and verifying are recorded as well.
RecordedAlways(s) ==
    LET a == Algorithm(s)
    IN  IF a \in RestoresForwardInput /\ Parses(s.input)
        THEN [s EXCEPT !.forward[a] = s.input] ELSE s

\* The effect that remembers what a one-way-back scheme ran forward.
Recorded(s) ==
    LET a == Algorithm(s)
    IN  IF a \in RestoresForwardInput /\ s.mode = "encrypt" /\ Parses(s.input)
        THEN [s EXCEPT !.forward[a] = s.input] ELSE s

SetInput(s, text) == Recorded([s EXCEPT !.input = text])

-----------------------------------------------------------------------------
(***************************************************************************)
(* run()                                                                   *)
(***************************************************************************)

\* What a run computes from. The padding bounds the input of block modes only.
RunInputs(s) ==
    LET a == Algorithm(s)
        cipher == a \in Ciphers
    IN  [algorithm |-> a, spec |-> Active(s), input |-> s.input, key |-> s.key,
         mode |-> IF Directed(a) THEN s.mode ELSE "none",
         cipherMode |-> IF cipher THEN s.cipherMode ELSE "none",
         padding |-> IF cipher THEN PaddedWith(a, s.cipherMode, s.padding) ELSE "none",
         iv |-> IF cipher /\ s.cipherMode \in IvModes THEN s.iv ELSE NoBytes]

CipherInputFits(s) ==
    LET c == s.chosen.cipher
        B == BlockByteLength(c)
        aligned == s.cipherMode \in {"ecb", "cbc"} /\ (s.mode = "decrypt" \/ s.padding = "none")
    IN  /\ InLimits(s.input.length, PaddingLimits(s.mode, s.padding, c, s.cipherMode))
        /\ aligned /\ B > 0 => s.input.length % B = 0

MaxHashInput == 512

InputFits(s) ==
    LET a == Algorithm(s)
        n == s.input.length
    IN  /\ Parses(s.input)
        /\ CASE a \in Ciphers -> CipherInputFits(s)
             [] a \in Hashes -> n <= MaxHashInput
             [] a \in Prngs -> n = SeedByteLength(a)
             [] a \in Lattices -> n = PolynomialByteLength(a)
             [] a = "ml-dsa-44" -> s.mode = "decrypt" => n = SignatureByteLength
             [] OTHER -> TRUE

\* A KMAC key of another length than the spec declares rebuilds the spec.
Resyncs(s) == IsKmac(s) /\ Parses(s.key) /\ s.key.length \notin {0, Active(s).keyLength}
Resynced(s) == IF Resyncs(s) THEN SetKmacKeyLength(s, s.key.length) ELSE s

KeyFits(s) ==
    /\ Parses(s.key)
    /\ IsKmac(s) => s.key.length >= 1
    /\ s.key.length = Active(Resynced(s)).keyLength

\* The steps may still throw: on an edited spec, on an input that is not the
\* scheme's own, on an IV of another width than the spec reads.
MayThrow(s) ==
    LET a == Algorithm(s)
    IN  \/ Active(s).edited
        \/ a \in Asymmetrics /\ s.input # DefaultInput(a, s.mode)
        \/ a \in Ciphers /\ s.cipherMode \in IvModes /\ s.iv.length # IvByteLength(a)
        \/ a # Active(s).algorithm
        \/ a \in Ciphers /\ s.cipherMode # Active(s).cipherMode

-----------------------------------------------------------------------------
(***************************************************************************)
(* The effect that watches the inputs of a run.                            *)
(***************************************************************************)

\* Mutant of Watched: the spec only, as the effect was first written.
WatchedSpecOnly(s) == <<s.specs, ActiveName(s)>>

\* [spec, inputText, keyText, ivBytes]: the spec is read off the pair and, in
\* a pair of directions, the mode. Nothing else of the settings is watched.
Watched(s) == <<s.specs, ActiveName(s), s.input, s.key, s.iv>>

\* Whether the effect sees a handler's write: a change, or a new object that
\* equals the old one.
Seen(s) == {TRUE, Watched(s) # Watched(ui)}

\* The effect cancels the scheduled run; auto mode schedules another, manual
\* mode raises the dirty flag. unrun is "dirty" while the flag is up, and
\* "forgotten" if it was cleared without a run.
Scheduled(seen, scheduled) == IF ran /\ seen THEN autoRerun ELSE scheduled
Flagged(seen, flag) ==
    IF ran /\ seen THEN (IF autoRerun THEN "nothing" ELSE "dirty") ELSE flag

\* run() from the settings s, after writes that left the timer, the flag and
\* the marks so.
RunOn(s, scheduled, flag, m) ==
    LET t == IF InputFits(s) THEN Resynced(s) ELSE s
        resyncs == InputFits(s) /\ Resyncs(s)
    IN  /\ ui' = t
        /\ shown' = RunInputs(t)
        /\ pending' = Scheduled(resyncs, scheduled)
        /\ marks' = m \cup {x \in {"shadowed"} : t # s /\ s.category # "hash"}
        /\ \/ /\ InputFits(s) /\ KeyFits(s)
              /\ ran' = TRUE /\ unrun' = "nothing"
           \/ /\ ~InputFits(s) \/ ~KeyFits(s) \/ MayThrow(s)
              /\ ran' = ran /\ unrun' = Flagged(resyncs, flag)

-----------------------------------------------------------------------------
(***************************************************************************)
(* The handlers.                                                           *)
(***************************************************************************)

CipherInput(c, m) == IF m = "decrypt" THEN DefaultCiphertext(c) ELSE DefaultPlaintext(c)

\* changeCipher: the fields' defaults follow the cipher, an IV of another
\* width is replaced.
ChangeCipher(s, next) ==
    LET prev == s.chosen.cipher
        fields == [s EXCEPT !.key = Swap(@, DefaultCipherKey(prev), DefaultCipherKey(next)),
                            !.input = Swap(@, CipherInput(prev, s.mode), CipherInput(next, s.mode))]
        t == SetCipher(fields, next)
    IN  IF s.iv = CanonicalIv(prev) THEN [t EXCEPT !.iv = CanonicalIv(next)]
        ELSE ReconcileIvWidth(t)

\* changeHash
ChangeHash(s, next) ==
    LET prev == s.chosen.hash
        swapped == s.key = DefaultKey(prev)
        keyed == [s EXCEPT !.key = Swap(@, DefaultKey(prev), DefaultKey(next))]
        t == IF swapped /\ next \in KmacHashes
             THEN SetKmacKeyLength(keyed, DefaultKey(next).length) ELSE keyed
    IN  SetOther([t EXCEPT !.input = Swap(@, DefaultHashInput(prev), DefaultHashInput(next))],
                 "hash", next)

\* changeAsymmetric, changeLattice, changePrng: the input follows, then the
\* algorithm; both writes are recorded.
ChangeUnkeyed(s, c, next) ==
    LET t == SetInput(s, Swap(s.input, DefaultInput(s.chosen[c], s.mode),
                              DefaultInput(next, s.mode)))
    IN  Recorded(SetAlgorithm(t, c, next))

\* changeCategory
ChangeCategory(s, c) ==
    LET prev == Algorithm(s)
        next == s.chosen[c]
        keyed == [s EXCEPT !.key = Swap(@, DefaultKey(prev), DefaultKey(next))]
        t == SetInput(keyed, Swap(s.input, DefaultInput(prev, s.mode),
                                  DefaultInput(next, s.mode)))
    IN  Recorded(SetAlgorithm(t, c, next))

Change(s, c, a) ==
    IF c # s.category THEN ChangeCategory(s, c)
    ELSE CASE c = "cipher" -> ChangeCipher(s, a)
           [] c = "hash" -> ChangeHash(s, a)
           [] OTHER -> ChangeUnkeyed(s, c, a)

\* The select of modes of operation.
ChangeCipherMode(s, cm) == ReconcileIvWidth(SetCipherMode(s, cm))

\* changePadding: the two AES samples make room for each other.
ChangePadding(s, scheme) ==
    LET limits == PaddingLimits(s.mode, scheme, s.chosen.cipher, s.cipherMode)
        unfit == s.mode = "encrypt" /\ Parses(s.input) /\ ~InLimits(s.input.length, limits)
        text == CASE unfit /\ s.input = AesPlaintext /\ limits.max < 16 -> ShortPlaintext
                  [] unfit /\ s.input = ShortPlaintext /\ limits.min = 16 -> AesPlaintext
                  [] OTHER -> s.input
    IN  SetPadding([s EXCEPT !.input = text], scheme)

\* The direction select: the output becomes the input, except that a
\* one-way-back scheme gets back what it ran forward.
FlipMode(s, output) ==
    LET m == IF s.mode = "encrypt" THEN "decrypt" ELSE "encrypt"
        a == Algorithm(s)
        restores == m = "encrypt" /\ a \in RestoresForwardInput /\ s.forward[a] # NoBytes
        text == IF restores THEN s.forward[a] ELSE IF ran THEN output ELSE s.input
    IN  Recorded([s EXCEPT !.mode = m, !.input = text])

\* commitKmacKeyLength, when the key field loses focus.
CommitKey(s) ==
    IF IsKmac(s) /\ Parses(s.key) /\ s.key.length \notin {0, Active(s).keyLength}
    THEN SetKmacKeyLength(s, s.key.length) ELSE s

-----------------------------------------------------------------------------
(***************************************************************************)
(* Documents.                                                              *)
(***************************************************************************)

Session(s) ==
    [mode |-> s.mode, cipher |-> s.chosen.cipher, cipherMode |-> s.cipherMode,
     padding |-> s.padding, input |-> s.input, key |-> s.key,
     iv |-> IF s.cipherMode \in IvModes THEN s.iv ELSE NoBytes]
NoSession ==
    [mode |-> "none", cipher |-> "none", cipherMode |-> "none", padding |-> "none",
     input |-> Unparseable, key |-> Unparseable, iv |-> NoBytes]

\* buildSaveText, with the session or without.  Text that does not parse is
\* left out.  The marks are no part of the file: they say whether the
\* selections described the spec when it was saved.
Document(s, full) ==
    [algorithm |-> Algorithm(s), spec |-> Active(s), full |-> full,
     session |-> IF full THEN Session(s) ELSE NoSession,
     marks |-> marks \cap {"bare", "shadowed"}]

\* The schema's ivBytes has 16 bytes or is absent.
SchemaAccepts(d) == d.session.iv.length \in {0, 16}

\* The half of the pair that the document does not hold is canonical.
WithSpec(s, c, d) ==
    [s EXCEPT !.specs = [kind |-> c,
                         slot |-> [n \in SlotNames(c) |->
                                       IF n \in {"single", s.mode} THEN d.spec
                                       ELSE Slot(d.algorithm, s)]]]

\* setSpecFromDocument, one operator per family.  A full document brings its
\* selections; a bare one names the algorithm and keeps what else it can.
LoadCipher(s, d) ==
    LET t == [s EXCEPT !.category = "cipher", !.chosen.cipher = d.algorithm]
        full == [t EXCEPT !.cipherMode = d.session.cipherMode, !.padding = d.session.padding,
                          !.mode = d.session.mode,
                          !.iv = IF d.session.iv # NoBytes THEN d.session.iv ELSE @]
        bare == [t EXCEPT !.cipherMode = IF @ \in SupportedCipherModes(d.algorithm) THEN @
                                         ELSE DefaultCipherMode(d.algorithm)]
    IN  WithSpec(IF d.full THEN full ELSE bare, "cipher", d)

LoadHash(s, d) ==
    WithSpec([s EXCEPT !.category = "hash", !.chosen.hash = d.algorithm,
                       !.xofLength = IF d.algorithm \in XofHashes THEN d.spec.outputLength ELSE @,
                       !.kmacLength = IF d.algorithm \in KmacHashes THEN d.spec.keyLength ELSE @],
             "hash", d)

LoadPrng(s, d) ==
    WithSpec([s EXCEPT !.category = "prng", !.chosen.prng = d.algorithm,
                       !.prngLength = AtLeastOne(d.spec.outputLength,
                                                 MaxPrngOutputFor(d.algorithm))],
             "prng", d)

\* Three writes, and the effect records after each of them.
LoadTwoWay(s, c, d) ==
    LET t == Recorded([s EXCEPT !.category = c])
        u == Recorded([t EXCEPT !.chosen[c] = d.algorithm])
        v == Recorded([u EXCEPT !.mode = IF d.full THEN d.session.mode ELSE @])
    IN  WithSpec(v, c, d)

CategoryOf(a) == CHOOSE c \in Categories : a \in Of[c]

SetSpecFromDocument(s, d) ==
    LET c == CategoryOf(d.algorithm)
    IN  CASE c = "cipher" -> LoadCipher(s, d)
          [] c = "hash" -> LoadHash(s, d)
          [] c = "prng" -> LoadPrng(s, d)
          [] OTHER -> LoadTwoWay(s, c, d)

\* The document's own bytes, where it has them.
RestoreFields(s, d) ==
    SetInput([s EXCEPT !.key = IF Parses(d.session.key) THEN d.session.key ELSE @],
             IF Parses(d.session.input) THEN d.session.input ELSE s.input)

\* Otherwise the defaults follow the algorithm.
SwapFields(s, prev, a) ==
    LET swapped == s.key = DefaultKey(prev)
        keyed == [s EXCEPT !.key = Swap(@, DefaultKey(prev), DefaultKey(a))]
        t == IF swapped /\ a \in KmacHashes
             THEN SetKmacKeyLength(keyed, DefaultKey(a).length) ELSE keyed
    IN  SetInput(t, Swap(t.input, DefaultInput(prev, t.mode), DefaultInput(a, t.mode)))

\* applyDocument, up to the run.
ApplyDocument(s, d) ==
    LET t == RestoreFields(SetSpecFromDocument(s, d), d)
        wordless == ~Parses(d.session.input) /\ ~Parses(d.session.key)
    IN  IF wordless /\ d.algorithm # Algorithm(s)
        THEN SwapFields(t, Algorithm(s), d.algorithm) ELSE t

-----------------------------------------------------------------------------
(***************************************************************************)
(* Steps.                                                                  *)
(***************************************************************************)

\* What the stores hold when the page opens: the padding scheme and the IV
\* are persisted.
Boot(scheme, iv) ==
    LET start == [cipherMode |-> "single-block", padding |-> scheme,
                  kmacLength |-> 32, xofLength |-> 200, prngLength |-> 42]
    IN  [category |-> "cipher",
         chosen |-> [cipher |-> "aes-128", hash |-> "sha-256", asymmetric |-> "rsa",
                     prng |-> "minstd-rand0", lattice |-> "ntt-3329-256"],
         mode |-> "encrypt", cipherMode |-> start.cipherMode, padding |-> scheme, iv |-> iv,
         input |-> IF PaddingLimits("encrypt", scheme, "aes-128", start.cipherMode).max < 16
                   THEN ShortPlaintext ELSE AesPlaintext,
         key |-> DefaultKey("aes-128"),
         kmacLength |-> start.kmacLength, xofLength |-> start.xofLength,
         prngLength |-> start.prngLength,
         forward |-> [a \in RestoresForwardInput |-> NoBytes],
         specs |-> Canonical("cipher", "aes-128", start)]

\* "apple" is nobody's default.
BootMarks(s) == {x \in {"touched"} : s.input = ShortPlaintext}

Ivs == {CanonicalIv(c) : c \in Offered \cap Ciphers}

Init ==
    /\ \E scheme \in OfferedPadding, iv \in Ivs : ui = Boot(scheme, iv)
    /\ ran \in BOOLEAN
    /\ shown = IF ran THEN RunInputs(ui) ELSE Nothing
    /\ autoRerun \in BOOLEAN /\ unrun = "nothing"
    /\ pending = FALSE /\ files = {} /\ marks = BootMarks(ui) /\ flipped = NoBytes /\ acts = 0

Acts == acts < MaxActs /\ acts' = acts + 1

\* A handler that writes the settings s.
Write(s) ==
    /\ Acts
    /\ ui' = s
    /\ \E seen \in Seen(s) :
          pending' = Scheduled(seen, pending) /\ unrun' = Flagged(seen, unrun)
    /\ UNCHANGED <<ran, shown, autoRerun, files>>

Select(c, a) ==
    /\ a \in Offered /\ a \in Of[c]
    /\ IF c = ui.category THEN a # ui.chosen[c] ELSE a = ui.chosen[c]
    /\ Write(Change(ui, c, a))
    /\ flipped' = NoBytes /\ UNCHANGED marks

SelectCipherMode(cm) ==
    /\ ui.category = "cipher" /\ cm \in SupportedCipherModes(ui.chosen.cipher) \ {ui.cipherMode}
    /\ Write(ChangeCipherMode(ui, cm))
    /\ UNCHANGED <<marks, flipped>>

SelectPadding(scheme) ==
    /\ ui.category = "cipher" /\ scheme # ui.padding
    /\ Write(ChangePadding(ui, scheme))
    /\ marks' = marks \cup {"touched"} /\ UNCHANGED flipped

Flip(n) ==
    /\ Directed(Algorithm(ui))
    /\ Write(FlipMode(ui, Output(n)))
    /\ marks' = marks \cup {"touched"}
    /\ flipped' = IF ui.mode = "encrypt" /\ Parses(ui.input) THEN ui.input ELSE NoBytes

TypeInput(text) ==
    /\ text # ui.input
    /\ Write(SetInput(ui, text))
    /\ marks' = marks \cup {"touched"} /\ UNCHANGED flipped

\* The key field is shown when the spec consumes a key.
TypeKey(text) ==
    /\ Active(ui).keyLength > 0 /\ text # ui.key
    /\ Write([ui EXCEPT !.key = text])
    /\ marks' = marks \cup {"touched"} /\ UNCHANGED flipped

LeaveKeyField ==
    /\ Active(ui).keyLength > 0 /\ CommitKey(ui) # ui
    /\ Write(CommitKey(ui))
    /\ marks' = IF ui.category # "hash" THEN marks \cup {"shadowed"} ELSE marks
    /\ UNCHANGED flipped

\* The IV field takes an IV of the cipher's width.
TypeIv ==
    /\ ui.cipherMode \in IvModes
    /\ Write([ui EXCEPT !.iv = Typed(IvByteLength(ui.chosen.cipher))])
    /\ UNCHANGED <<marks, flipped>>

TypeOutputLength(n) ==
    /\ \/ Algorithm(ui) \in XofHashes /\ Write(SetShakeOutputLength(ui, n))
       \/ Algorithm(ui) \in Prngs /\ Write(SetPrngOutputLength(ui, n))
    /\ UNCHANGED <<marks, flipped>>

EditSpec ==
    /\ ~Active(ui).edited
    /\ Write(UpdateActive(ui, [Active(ui) EXCEPT !.edited = TRUE]))
    /\ UNCHANGED <<marks, flipped>>

\* The reset button is shown beside a custom spec, but not beside a hash.
Reset ==
    /\ IsCustom(ui) /\ ui.category # "hash"
    /\ Write(ResetSpec(ui))
    /\ UNCHANGED <<marks, flipped>>

PressRun ==
    /\ Acts
    /\ RunOn(ui, pending, unrun, marks)
    /\ UNCHANGED <<autoRerun, files, flipped>>

TimerFires ==
    /\ pending
    /\ RunOn(ui, FALSE, unrun, marks)
    /\ UNCHANGED <<autoRerun, files, flipped, acts>>

\* setAutoRerun. Ticking the checkbox clears the dirty flag and runs nothing.
ToggleAutoRerun ==
    /\ Acts
    /\ autoRerun' = ~autoRerun
    /\ unrun' = IF ~autoRerun /\ unrun = "dirty" THEN "forgotten" ELSE unrun
    /\ UNCHANGED <<ui, ran, shown, pending, files, marks, flipped>>

Save(full) ==
    /\ Acts
    /\ files' = files \cup {Document(ui, full)}
    /\ UNCHANGED <<ui, ran, shown, pending, rerun, marks, flipped>>

\* The text of a chosen file or of the link in the address bar arrives, at
\* any time after the user asked for it.
Load(d) ==
    /\ Acts /\ SchemaAccepts(d)
    /\ LET s == ApplyDocument(ui, d)
       IN  \E seen \in Seen(s) :
              RunOn(s, Scheduled(seen, pending), Flagged(seen, unrun),
                    marks \cup {"touched"} \cup d.marks \cup {x \in {"bare"} : ~d.full})
    /\ flipped' = NoBytes /\ UNCHANGED <<autoRerun, files>>

\* The page is reloaded, with a link in the address bar or without.
Reload ==
    /\ Acts
    /\ ui' = Boot(ui.padding, ui.iv)
    /\ ran' \in BOOLEAN
    /\ shown' = IF ran' THEN RunInputs(ui') ELSE Nothing
    /\ unrun' = "nothing"
    /\ pending' = FALSE /\ marks' = BootMarks(ui') /\ flipped' = NoBytes
    /\ UNCHANGED <<autoRerun, files>>

Next ==
    \/ \E c \in Categories : \E a \in Of[c] : Select(c, a)
    \/ \E cm \in OfferedModes : SelectCipherMode(cm)
    \/ \E scheme \in OfferedPadding : SelectPadding(scheme)
    \/ \E n \in TypedLengths : Flip(n) \/ TypeInput(Typed(n)) \/ TypeKey(Typed(n))
    \/ TypeInput(Unparseable) \/ TypeKey(Unparseable)
    \/ LeaveKeyField \/ TypeIv \/ EditSpec \/ Reset
    \/ PressRun \/ TimerFires \/ ToggleAutoRerun \/ Reload
    \/ \E n \in TypedOutputs : TypeOutputLength(n)
    \/ \E full \in BOOLEAN : Save(full)
    \/ \E d \in files : Load(d)

Spec == Init /\ [][Next]_vars

-----------------------------------------------------------------------------
(***************************************************************************)
(* Properties.  The marks: "touched", the user has typed, flipped, padded  *)
(* or loaded; "bare", a document without its selections was loaded;        *)
(* "shadowed", a key was measured for a KMAC that is chosen but not active.*)
(***************************************************************************)

TypeOK ==
    /\ Algorithm(ui) \in Of[ui.category] /\ ui.mode \in Modes
    /\ ui.kmacLength \in 1..MaxKmacKeyLength /\ ui.xofLength \in 1..MaxShakeOutput
    /\ ui.prngLength \in 1..1024
    /\ ui.specs.kind \in Categories /\ DOMAIN ui.specs.slot = SlotNames(ui.specs.kind)
    /\ ran \in BOOLEAN /\ pending \in BOOLEAN
    /\ autoRerun \in BOOLEAN /\ unrun \in {"nothing", "dirty", "forgotten"}
    /\ marks \subseteq {"touched", "bare", "shadowed"}
    /\ acts \in 0..MaxActs

\* The selectors describe the pair of specs they stand over: apart from the
\* user's edits, both halves are what the selections resolve to.
SelectorsDescribeSpec ==
    marks \cap {"bare", "shadowed"} = {} =>
        /\ ui.specs.kind = ui.category
        /\ \A n \in DOMAIN ui.specs.slot :
              [ui.specs.slot[n] EXCEPT !.edited = FALSE] = Slot(Algorithm(ui), ui)

\* The mode of operation is one the cipher has, in every category and after
\* every load.
ModeIsSupported == ui.cipherMode \in SupportedCipherModes(ui.chosen.cipher)

\* An IV that a run reads is as wide as the cipher takes it.
IvFits ==
    /\ ui.category = "cipher" /\ ui.cipherMode \in IvModes /\ "bare" \notin marks
    => ui.iv.length = IvByteLength(ui.chosen.cipher)

\* The number in the output-length field is the number of bytes generated.
LengthShownIsBuilt ==
    "shadowed" \notin marks =>
        /\ ui.category = "prng" => Active(ui).outputLength = ui.prngLength
        /\ Algorithm(ui) \in XofHashes => Active(ui).outputLength = ui.xofLength

\* Whoever only selects can always run: the fields' defaults follow every
\* change of cipher, hash, kind, generator and mode of operation.
DefaultsAlwaysRun ==
    /\ marks = {} /\ (IsKmac(ui) => ui.category = "hash")
    => InputFits(ui) /\ KeyFits(ui)

\* The selections that a run reads beside the watched signals (the algorithm,
\* the mode of operation, the padding) are seen through the spec that they
\* rebuild. So the screen is of the settings on screen, or a run is scheduled,
\* or manual mode has edits to run: in any spec that the selectors describe.
ScreenCatchesUp ==
    /\ ran /\ ~pending /\ unrun = "nothing" /\ marks \cap {"bare", "shadowed"} = {}
    => shown = RunInputs(ui)

SavedInputs(d) ==
    LET cipher == d.algorithm \in Ciphers
    IN  [algorithm |-> d.algorithm, spec |-> d.spec,
         input |-> d.session.input, key |-> d.session.key,
         mode |-> IF Directed(d.algorithm) THEN d.session.mode ELSE "none",
         cipherMode |-> IF cipher THEN d.session.cipherMode ELSE "none",
         padding |-> IF cipher THEN PaddedWith(d.algorithm, d.session.cipherMode,
                                               d.session.padding) ELSE "none",
         iv |-> IF cipher THEN d.session.iv ELSE NoBytes]

\* A document saved with its session computes what it computed when it was
\* saved, whatever the state it is loaded into and whatever came before it.
\* (A KMAC key typed but not yet committed is not the length of its spec.)
SessionReloads ==
    \A d \in files :
        Load(d) /\ d.full /\ d.marks = {} /\ "shadowed" \notin marks'
          /\ Parses(d.session.input) /\ Parses(d.session.key)
          /\ (d.algorithm \in KmacHashes => d.session.key.length = d.spec.keyLength)
        => shown' = SavedInputs(d)

\* Flipping to decapsulation or verification and back leaves the message
\* that went in.
FlipBackRestores ==
    \A n \in TypedLengths :
        Flip(n) /\ ui.mode = "decrypt" /\ Algorithm(ui) \in RestoresForwardInput
          /\ flipped # NoBytes
        => ui'.input = flipped

\* What the user gave comes back: with its file, and after a look at the other
\* direction.
InputsComeBack == [][SessionReloads /\ FlipBackRestores]_vars

\* The screen's selections fit the spec they stand over: every number and
\* choice shown is one the active specs were built with and can run with.
SelectorsFitSpec ==
    /\ TypeOK /\ SelectorsDescribeSpec /\ ModeIsSupported
    /\ IvFits /\ LengthShownIsBuilt /\ DefaultsAlwaysRun

=============================================================================
