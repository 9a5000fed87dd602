--------------------------- MODULE SelectorsProofs ----------------------------
(***************************************************************************)
(* Theorems about Selectors, for any set of offered algorithms, any typed  *)
(* lengths and behaviours of any length.                                   *)
(*                                                                         *)
(* Sound says of the settings, under the marks of what the user has done,  *)
(* what every handler keeps: the pair of specs is the one the selections   *)
(* resolve to, the mode and the IV are the cipher's, the fields of a user  *)
(* who only selects hold the defaults, and the forward input is            *)
(* remembered.  FileSound says the same of a saved document.               *)
(***************************************************************************)
EXTENDS Selectors, TLAPS

-----------------------------------------------------------------------------
(***************************************************************************)
(* The inductive invariant.                                                *)
(***************************************************************************)

SampleKinds == {"none", "garbage", "typed", "output", "input", "inverse input", "key", "iv"}
SampleNames ==
    AllAlgorithms \cup {"none", "garbage", "typed", "output", "ascending", "kmac",
                       "aes", "apple", "abc", "00010203", "one"}
Samples == [kind : SampleKinds, name : SampleNames, length : Nat]

Choices == {f \in [Categories -> AllAlgorithms] : \A c \in Categories : f[c] \in Of[c]}

Specs == [algorithm : AllAlgorithms, cipherMode : CipherModes \cup {"none"},
          padding : PaddingSchemes, keyLength : Nat, outputLength : Nat, edited : BOOLEAN]

Pairs == [kind : Categories, slot : [Modes -> Specs] \cup [{"single"} -> Specs]]

Settings ==
    [category : Categories, chosen : Choices, mode : Modes, cipherMode : CipherModes,
     padding : PaddingSchemes, iv : Samples, input : Samples, key : Samples,
     kmacLength : 1..MaxKmacKeyLength, xofLength : 1..MaxShakeOutput, prngLength : 1..1024,
     forward : [RestoresForwardInput -> Samples], specs : Pairs]

Typing(s) == s \in Settings /\ s.specs.slot \in [SlotNames(s.specs.kind) -> Specs]

ModeFits(s) == s.cipherMode \in SupportedCipherModes(s.chosen.cipher)

PrngFits(s) == s.category = "prng" => s.prngLength <= MaxPrngOutputFor(s.chosen.prng)

\* A spec is of the algorithm and of the lengths the selections name.
BuiltFor(spec, a, s) ==
    /\ spec.algorithm = a
    /\ spec.keyLength = Slot(a, s).keyLength
    /\ spec.outputLength = Slot(a, s).outputLength

Unedited(spec) == [spec EXCEPT !.edited = FALSE]

Built(s, m) ==
    "shadowed" \notin m \/ s.category = "hash" =>
        /\ s.specs.kind = s.category
        /\ \A n \in SlotNames(s.specs.kind) : BuiltFor(s.specs.slot[n], Algorithm(s), s)

Described(s, m) ==
    m \cap {"bare", "shadowed"} = {} =>
        \A n \in SlotNames(s.specs.kind) : Unedited(s.specs.slot[n]) = Slot(Algorithm(s), s)

\* The IV of a mode that reads one, whichever kind is on screen.
IvKept(s, m) ==
    s.cipherMode \in IvModes /\ "bare" \notin m => s.iv.length = IvByteLength(s.chosen.cipher)

\* The fields of a user who has only selected.
Untouched(s, m) ==
    m = {} =>
        /\ s.mode = "encrypt" /\ s.padding \in {"none", "zero-pad"} /\ s.kmacLength = 32
        /\ s.input = DefaultInput(Algorithm(s), "encrypt")
        /\ s.key = DefaultKey(Algorithm(s))

Remembered(s) ==
    Algorithm(s) \in RestoresForwardInput /\ s.mode = "encrypt" /\ Parses(s.input)
    => s.forward[Algorithm(s)] = s.input

Sound(s, m) ==
    /\ Typing(s) /\ ModeFits(s) /\ PrngFits(s) /\ Built(s, m) /\ Described(s, m)
    /\ IvKept(s, m) /\ Untouched(s, m) /\ Remembered(s)

Marks == {"touched", "bare", "shadowed"}

Sessions ==
    [mode : Modes, cipher : Ciphers, cipherMode : CipherModes, padding : PaddingSchemes,
     input : Samples, key : Samples, iv : Samples]

Files ==
    [algorithm : AllAlgorithms, spec : Specs, full : BOOLEAN, marks : SUBSET {"bare", "shadowed"},
     session : Sessions \cup {NoSession}]

\* The settings of which a document's spec is the canonical one.
SettingsOf(d) ==
    [cipherMode |-> d.session.cipherMode, padding |-> d.session.padding,
     kmacLength |-> d.spec.keyLength, xofLength |-> d.spec.outputLength,
     prngLength |-> d.spec.outputLength]

FileSound(d) ==
    /\ d \in Files
    /\ d.full => d.session \in Sessions
    /\ ~d.full => d.session = NoSession
    /\ "shadowed" \notin d.marks \/ d.algorithm \in Hashes =>
           /\ BuiltFor(d.spec, d.algorithm, SettingsOf(d))
           /\ d.algorithm \in KmacHashes => d.spec.keyLength \in 1..MaxKmacKeyLength
           /\ d.algorithm \in XofHashes => d.spec.outputLength \in 1..MaxShakeOutput
    /\ d.full /\ d.marks = {} => Unedited(d.spec) = Slot(d.algorithm, SettingsOf(d))
    /\ d.full /\ d.algorithm \in Ciphers =>
           /\ d.session.cipherMode \in SupportedCipherModes(d.algorithm)
           /\ d.session.cipherMode \in IvModes /\ "bare" \notin d.marks
              => d.session.iv.length = IvByteLength(d.algorithm)
           /\ d.session.cipherMode \notin IvModes => d.session.iv = NoBytes

\* What a flip back will restore.
Kept ==
    flipped # NoBytes /\ ui.mode = "decrypt" /\ Algorithm(ui) \in RestoresForwardInput
    => ui.forward[Algorithm(ui)] = flipped

RerunTyped == autoRerun \in BOOLEAN /\ unrun \in {"nothing", "dirty", "forgotten"}

IInv ==
    /\ Sound(ui, marks) /\ Kept
    /\ \A d \in files : FileSound(d)
    /\ ran \in BOOLEAN /\ pending \in BOOLEAN /\ acts \in 0..MaxActs
    /\ RerunTyped
    /\ marks \subseteq Marks /\ flipped \in Samples

-----------------------------------------------------------------------------
(***************************************************************************)
(* The tables.                                                             *)
(***************************************************************************)

LEMMA OfKinds ==
    /\ Of["cipher"] = Ciphers /\ Of["hash"] = Hashes /\ Of["asymmetric"] = Asymmetrics
    /\ Of["prng"] = Prngs /\ Of["lattice"] = Lattices
    /\ \A c \in Categories : Of[c] \subseteq AllAlgorithms
  BY DEF Of, AllAlgorithms

\* No algorithm is of two kinds.
LEMMA OneKind ==
    ASSUME NEW c \in Categories, NEW a \in Of[c]
    PROVE  /\ a \in Ciphers <=> c = "cipher"
           /\ a \in Hashes <=> c = "hash"
           /\ a \in Asymmetrics <=> c = "asymmetric"
           /\ a \in Prngs <=> c = "prng"
           /\ a \in Lattices <=> c = "lattice"
  BY OfKinds
  DEF Categories, Ciphers, Hashes, Asymmetrics, Prngs, Lattices, AesCiphers, SpeckCiphers,
      SerpentCiphers, StreamCiphers, XofHashes, KmacHashes

LEMMA Subkinds ==
    /\ KmacHashes \subseteq XofHashes /\ XofHashes \subseteq Hashes
    /\ RestoresForwardInput \subseteq Asymmetrics /\ StreamCiphers \subseteq Ciphers
    /\ "aes-128" \in Ciphers
  BY DEF KmacHashes, XofHashes, Hashes, RestoresForwardInput, Asymmetrics, StreamCiphers, Ciphers,
         AesCiphers

LEMMA KindOf ==
    ASSUME NEW a \in AllAlgorithms
    PROVE  /\ CategoryOf(a) \in Categories /\ a \in Of[CategoryOf(a)]
           /\ \A c \in Categories : a \in Of[c] => CategoryOf(a) = c
<1>1. \E c \in Categories : a \in Of[c]
  BY DEF AllAlgorithms
<1>2. CategoryOf(a) \in Categories /\ a \in Of[CategoryOf(a)]
  BY <1>1 DEF CategoryOf
<1>3. ASSUME NEW c \in Categories, a \in Of[c], NEW d \in Categories, a \in Of[d]
      PROVE  c = d
  BY <1>3, OneKind DEF Categories
<1>4. QED
  BY <1>2, <1>3

LEMMA BlockLengths ==
    ASSUME NEW c \in Ciphers
    PROVE  /\ BlockByteLength(c) \in {0, 4, 8, 16} /\ IvByteLength(c) \in {4, 8, 16}
           /\ BlockByteLength(c) = 0 <=> c \in StreamCiphers
  BY DEF Ciphers, StreamCiphers, BlockByteLength, IvByteLength, AesCiphers, SerpentCiphers,
         SpeckCiphers

\* Every default is a sample that parses.
LEMMA DefaultSamples ==
    ASSUME NEW a \in AllAlgorithms, NEW m \in Modes
    PROVE  /\ DefaultKey(a) \in Samples /\ Parses(DefaultKey(a))
           /\ DefaultInput(a, m) \in Samples /\ Parses(DefaultInput(a, m))
<1>1. DefaultKey(a) \in Samples /\ Parses(DefaultKey(a))
  BY DEF DefaultKey, DefaultCipherKey, NoBytes, Sample, Samples, SampleKinds,
          SampleNames, Parses, Unparseable
<1>2. a \in SampleNames /\ \A n \in {"aes", "abc", "00010203", "one"} : n \in SampleNames
  BY DEF SampleNames
<1>3. BlockByteLength(a) \in {0, 4, 8, 16}
  BY DEF BlockByteLength
<1>4. DefaultPlaintext(a) \in Samples /\ Parses(DefaultPlaintext(a))
  BY <1>2, <1>3 DEF DefaultPlaintext, AesPlaintext, Sample, Samples, SampleKinds, Parses, Unparseable
<1>5. DefaultHashInput(a) \in Samples /\ Parses(DefaultHashInput(a))
  BY <1>2 DEF DefaultHashInput, Sample, Samples, SampleKinds, Parses, Unparseable
<1>6. DefaultSeed(a) \in Samples /\ Parses(DefaultSeed(a))
  BY <1>2 DEF DefaultSeed, Sample, Samples, SampleKinds, Parses, Unparseable
<1>s. \A k \in SampleKinds \ {"garbage"}, l \in Nat :
         Sample(k, a, l) \in Samples /\ Parses(Sample(k, a, l))
  BY <1>2 DEF Sample, Samples, Parses, Unparseable
<1>7. DefaultAsymmetricInput(a, m) \in Samples /\ Parses(DefaultAsymmetricInput(a, m))
  <2> DEFINE forth == CASE a = "rsa" -> 2 [] a = "ml-kem-768" -> 32 [] OTHER -> 13
             back == CASE a = "rsa" -> 2 [] a = "ml-kem-768" -> 1088
                       [] OTHER -> SignatureByteLength
  <2>1. forth \in Nat /\ back \in Nat
    BY DEF SignatureByteLength
  <2>2. DefaultAsymmetricInput(a, m) = IF m = "encrypt" THEN Sample("input", a, forth)
                                       ELSE Sample("inverse input", a, back)
    BY DEF DefaultAsymmetricInput
  <2> HIDE DEF forth, back
  <2>3. QED
    BY <1>s, <2>1, <2>2 DEF SampleKinds
<1>8. DefaultPolynomial(a, m) \in Samples /\ Parses(DefaultPolynomial(a, m))
  <2>1. PolynomialByteLength(a) \in Nat
    BY DEF PolynomialByteLength
  <2>2. QED
    BY <1>s, <2>1 DEF DefaultPolynomial, SampleKinds
<1>9. QED
  BY <1>1, <1>4, <1>5, <1>6, <1>7, <1>8 DEF DefaultInput

LEMMA OtherSamples ==
    /\ \A n \in Nat : Typed(n) \in Samples /\ Output(n) \in Samples
    /\ Unparseable \in Samples /\ NoBytes \in Samples
    /\ AesPlaintext \in Samples /\ ShortPlaintext \in Samples
    /\ \A c \in Ciphers : /\ CanonicalIv(c) \in Samples
                          /\ CanonicalIv(c).length = IvByteLength(c)
    /\ \A c \in Ciphers, m \in Modes : CipherInput(c, m) \in Samples
<1>1. ASSUME NEW c \in Ciphers
      PROVE  CanonicalIv(c) \in Samples /\ CanonicalIv(c).length = IvByteLength(c)
  <2>1. c \in SampleNames /\ "aes" \in SampleNames /\ "ascending" \in SampleNames
    BY OfKinds DEF SampleNames, Categories
  <2>2. QED
    BY <2>1, BlockLengths DEF CanonicalIv, IvByteLength, Sample, Samples, SampleKinds
<1>2. ASSUME NEW c \in Ciphers, NEW m \in Modes
      PROVE  CipherInput(c, m) \in Samples
  <2>1. c \in SampleNames /\ "aes" \in SampleNames /\ "ascending" \in SampleNames
    BY OfKinds DEF SampleNames, Categories
  <2>2. DefaultPlaintext(c) \in Samples
    BY <2>1, BlockLengths DEF DefaultPlaintext, AesPlaintext, Sample, Samples, SampleKinds
  <2>3. DefaultCiphertext(c) \in Samples
    BY <2>1, <2>2 DEF DefaultCiphertext, Sample, Samples, SampleKinds
  <2>4. QED
    BY <2>2, <2>3 DEF CipherInput
<1>3. QED
  BY <1>1, <1>2 DEF Typed, Output, Unparseable, NoBytes, AesPlaintext, ShortPlaintext, Sample,
         Samples, SampleKinds, SampleNames

-----------------------------------------------------------------------------
(***************************************************************************)
(* Specs.                                                                  *)
(***************************************************************************)

\* What the canonical spec is read from.
Readable(s) ==
    /\ s.cipherMode \in CipherModes /\ s.padding \in PaddingSchemes
    /\ s.kmacLength \in Nat /\ s.xofLength \in Nat /\ s.prngLength \in Nat

LEMMA Clamped ==
    /\ \A n \in Nat, top \in Nat \ {0} : AtLeastOne(n, top) \in 1..top
    /\ \A top \in Nat : \A n \in 1..top : AtLeastOne(n, top) = n
    /\ \A p : MaxPrngOutputFor(p) \in 1..1024
    /\ MaxShakeOutput = 512 /\ MaxKmacKeyLength = 512
  BY DEF AtLeastOne, MaxPrngOutputFor, MaxShakeOutput, MaxKmacKeyLength

LEMMA SupportedModes ==
    ASSUME NEW c \in Ciphers
    PROVE  /\ DefaultCipherMode(c) \in SupportedCipherModes(c)
           /\ SupportedCipherModes(c) \subseteq CipherModes
  BY DEF DefaultCipherMode, SupportedCipherModes, CipherModes, IvModes

LEMMA SlotTyped ==
    ASSUME NEW a \in AllAlgorithms, NEW s, Readable(s)
    PROVE  Slot(a, s) \in Specs /\ Slot(a, s).algorithm = a /\ Slot(a, s).edited = FALSE
<1>1. DefaultKey(a).length \in Nat
  BY DefaultSamples DEF Modes, Samples
<1>2. \A cm : PaddedWith(a, cm, s.padding) \in PaddingSchemes
  BY DEF Readable, PaddedWith, PaddingSchemes
<1>3. DefaultCipherMode(a) \in CipherModes
  BY DEF DefaultCipherMode, CipherModes, IvModes
<1>4. /\ Slot(a, s).algorithm = a /\ Slot(a, s).edited = FALSE
      /\ Slot(a, s).cipherMode \in CipherModes \cup {"none"}
  BY <1>3 DEF Slot, Readable
<1>5. Slot(a, s).padding \in PaddingSchemes
  BY <1>2 DEF Slot, PaddingSchemes
<1>6. Slot(a, s).keyLength \in Nat
  BY <1>1 DEF Slot, Readable
<1>7. Slot(a, s).outputLength \in Nat
  <2>1. AtLeastOne(s.prngLength, MaxPrngOutputFor(a)) \in Nat
    <3>1. MaxPrngOutputFor(a) \in 1..1024 /\ s.prngLength \in Nat
      BY Clamped DEF Readable
    <3>2. QED
      BY <3>1 DEF AtLeastOne
  <2>2. QED
    BY <2>1 DEF Slot, Readable
<1>8. Slot(a, s) = [algorithm |-> Slot(a, s).algorithm, cipherMode |-> Slot(a, s).cipherMode,
                    padding |-> Slot(a, s).padding, keyLength |-> Slot(a, s).keyLength,
                    outputLength |-> Slot(a, s).outputLength, edited |-> Slot(a, s).edited]
  BY DEF Slot
<1>9. QED
  BY <1>4, <1>5, <1>6, <1>7, <1>8 DEF Specs

\* The canonical spec reads no other setting.
LEMMA SlotReads ==
    ASSUME NEW a, NEW s, NEW t,
           t.cipherMode = s.cipherMode, t.padding = s.padding, t.kmacLength = s.kmacLength,
           t.xofLength = s.xofLength, t.prngLength = s.prngLength
    PROVE  Slot(a, t) = Slot(a, s)
  BY DEF Slot

LEMMA SlotNameSets ==
    /\ \A c : SlotNames(c) \in {{"single"}, Modes}
    /\ \A c \in Categories, m \in Modes :
          (IF c \in {"hash", "prng"} THEN "single" ELSE m) \in SlotNames(c)
  BY DEF SlotNames

LEMMA CanonicalTyped ==
    ASSUME NEW c \in Categories, NEW a \in AllAlgorithms, NEW s, Readable(s)
    PROVE  /\ Canonical(c, a, s) \in Pairs /\ Canonical(c, a, s).kind = c
           /\ Canonical(c, a, s).slot \in [SlotNames(c) -> Specs]
           /\ \A n \in SlotNames(c) : Canonical(c, a, s).slot[n] = Slot(a, s)
<1>1. Slot(a, s) \in Specs
  BY SlotTyped
<1>2. [n \in SlotNames(c) |-> Slot(a, s)] \in [SlotNames(c) -> Specs]
  BY <1>1
<1>3. [n \in SlotNames(c) |-> Slot(a, s)] \in [Modes -> Specs] \cup [{"single"} -> Specs]
  BY <1>2, SlotNameSets
<1>4. QED
  BY <1>2, <1>3 DEF Canonical, Pairs

LEMMA Read ==
    ASSUME NEW s \in Settings
    PROVE  /\ Readable(s)
           /\ Algorithm(s) \in Of[s.category] /\ Algorithm(s) \in AllAlgorithms
           /\ \A c \in Categories : s.chosen[c] \in Of[c]
           /\ s.chosen.cipher \in Ciphers /\ s.chosen.hash \in Hashes /\ s.chosen.prng \in Prngs
<1>1. Readable(s)
  <2>1. /\ s.cipherMode \in CipherModes /\ s.padding \in PaddingSchemes
        /\ s.kmacLength \in 1..MaxKmacKeyLength /\ s.xofLength \in 1..MaxShakeOutput
        /\ s.prngLength \in 1..1024
    BY DEF Settings
  <2>2. QED
    BY <2>1, SMTT(30) DEF Readable, MaxKmacKeyLength, MaxShakeOutput
<1>2. s.category \in Categories /\ s.chosen \in Choices
  BY DEF Settings
<1>3. \A c \in Categories : s.chosen[c] \in Of[c] /\ s.chosen[c] \in AllAlgorithms
  BY <1>2 DEF Choices
<1>4. QED
  BY <1>1, <1>2, <1>3, OfKinds DEF Algorithm, Categories

\* The pair is the one that the selections resolve to.
Fresh(s) == s.specs = Canonical(s.category, Algorithm(s), s)

LEMMA FreshIsBuilt ==
    ASSUME NEW s \in Settings, Fresh(s), NEW m
    PROVE  Typing(s) /\ Built(s, m) /\ Described(s, m)
<1>1. /\ s.specs.kind = s.category
      /\ s.specs.slot \in [SlotNames(s.category) -> Specs]
      /\ \A n \in SlotNames(s.category) : s.specs.slot[n] = Slot(Algorithm(s), s)
  BY CanonicalTyped, Read DEF Fresh, Settings
<1>2. Slot(Algorithm(s), s) \in Specs /\ Slot(Algorithm(s), s).algorithm = Algorithm(s)
      /\ Slot(Algorithm(s), s).edited = FALSE
  BY Read, SlotTyped
<1>3. Unedited(Slot(Algorithm(s), s)) = Slot(Algorithm(s), s)
  BY <1>2 DEF Unedited, Specs
<1>4. QED
  BY <1>1, <1>2, <1>3 DEF Typing, Built, Described, BuiltFor

\* The selections and the specs of two settings are the same.
Steady(s, t) ==
    /\ t.category = s.category /\ t.chosen = s.chosen /\ t.mode = s.mode
    /\ t.cipherMode = s.cipherMode /\ t.padding = s.padding /\ t.kmacLength = s.kmacLength
    /\ t.xofLength = s.xofLength /\ t.prngLength = s.prngLength /\ t.specs = s.specs

\* But perhaps the direction.
SameSelections(s, t) ==
    /\ t.category = s.category /\ t.chosen = s.chosen
    /\ t.cipherMode = s.cipherMode /\ t.padding = s.padding /\ t.kmacLength = s.kmacLength
    /\ t.xofLength = s.xofLength /\ t.prngLength = s.prngLength /\ t.specs = s.specs

LEMMA SelectionsFit ==
    ASSUME NEW s, NEW t, NEW m, SameSelections(s, t),
           ModeFits(s), PrngFits(s), Built(s, m), Described(s, m)
    PROVE  ModeFits(t) /\ PrngFits(t) /\ Built(t, m) /\ Described(t, m)
<1>1. Algorithm(t) = Algorithm(s) /\ Slot(Algorithm(t), t) = Slot(Algorithm(s), s)
  BY SlotReads DEF SameSelections, Algorithm
<1>2. QED
  BY <1>1 DEF SameSelections, ModeFits, PrngFits, Built, Described, BuiltFor

LEMMA SteadyFits ==
    ASSUME NEW s, NEW t, NEW m, Steady(s, t), ModeFits(s), PrngFits(s), Built(s, m), Described(s, m)
    PROVE  ModeFits(t) /\ PrngFits(t) /\ Built(t, m) /\ Described(t, m)
  BY SelectionsFit DEF Steady, SameSelections

\* Marks are only added.
LEMMA MoreMarks ==
    ASSUME NEW s, NEW m, NEW n, m \subseteq n, Sound(s, m)
    PROVE  Sound(s, n)
  BY DEF Sound, Built, Described, IvKept, Untouched

\* The effect that remembers touches no other setting.
LEMMA RecordedFields ==
    ASSUME NEW s \in Settings
    PROVE  /\ Recorded(s) \in Settings /\ Steady(s, Recorded(s)) /\ Remembered(Recorded(s))
           /\ Recorded(s).iv = s.iv /\ Recorded(s).input = s.input /\ Recorded(s).key = s.key
           /\ \A a : a # Algorithm(s) \/ s.mode # "encrypt"
                     => Recorded(s).forward[a] = s.forward[a]
<1> DEFINE a == Algorithm(s)
<1>1. CASE a \in RestoresForwardInput /\ s.mode = "encrypt" /\ Parses(s.input)
  <2>1. Recorded(s) = [s EXCEPT !.forward[a] = s.input]
    BY <1>1 DEF Recorded
  <2>2. Recorded(s) \in Settings
    BY <2>1, <1>1 DEF Settings
  <2>3. Steady(s, Recorded(s)) /\ Recorded(s).iv = s.iv /\ Recorded(s).input = s.input
        /\ Recorded(s).key = s.key /\ Recorded(s).forward = [s.forward EXCEPT ![a] = s.input]
    BY <2>1 DEF Steady, Settings
  <2>4. Recorded(s).forward[a] = s.input /\ Algorithm(Recorded(s)) = a
    BY <2>3, <1>1 DEF Settings, Steady, Algorithm
  <2>5. QED
    BY <2>2, <2>3, <2>4, <1>1 DEF Remembered, Settings
<1>2. CASE ~(a \in RestoresForwardInput /\ s.mode = "encrypt" /\ Parses(s.input))
  BY <1>2 DEF Recorded, Steady, Remembered
<1>3. QED
  BY <1>1, <1>2

LEMMA InputFields ==
    ASSUME NEW s \in Settings, NEW text \in Samples
    PROVE  /\ SetInput(s, text) \in Settings /\ Steady(s, SetInput(s, text))
           /\ Remembered(SetInput(s, text))
           /\ SetInput(s, text).iv = s.iv /\ SetInput(s, text).input = text
           /\ SetInput(s, text).key = s.key
           /\ s.mode # "encrypt" => SetInput(s, text).forward = s.forward
<1> DEFINE t == [s EXCEPT !.input = text]
<1>1. t \in Settings /\ Steady(s, t) /\ t.iv = s.iv /\ t.input = text /\ t.key = s.key
      /\ t.forward = s.forward
  BY DEF Settings, Steady
<1>2. SetInput(s, text) = Recorded(t)
  BY DEF SetInput
<1>3. s.mode # "encrypt" => Recorded(t) = t
  BY <1>1 DEF Recorded, Steady
<1> HIDE DEF t
<1>4. QED
  BY <1>1, <1>2, <1>3, RecordedFields DEF Steady

-----------------------------------------------------------------------------
(***************************************************************************)
(* The setters of the spec store.                                          *)
(***************************************************************************)

\* t is s with another algorithm selected.
Selected(s, t, c, a) ==
    /\ t \in Settings /\ Fresh(t) /\ ModeFits(t)
    /\ t.category = c /\ t.chosen[c] = a
    /\ \A d \in Categories \ {c} : t.chosen[d] = s.chosen[d]
    /\ t.mode = s.mode /\ t.padding = s.padding /\ t.iv = s.iv /\ t.input = s.input
    /\ t.key = s.key /\ t.kmacLength = s.kmacLength /\ t.xofLength = s.xofLength
    /\ t.forward = s.forward
    /\ c # "cipher" => t.cipherMode = s.cipherMode
    /\ s.cipherMode \in SupportedCipherModes(t.chosen.cipher) => t.cipherMode = s.cipherMode
    /\ c # "prng" => t.prngLength = s.prngLength
    /\ c = "prng" => t.prngLength <= MaxPrngOutputFor(a)

LEMMA SameField ==
    ASSUME NEW s \in Settings
    PROVE  /\ [s EXCEPT !.padding = s.padding] = s /\ [s EXCEPT !.mode = s.mode] = s
           /\ [s EXCEPT !.iv = s.iv] = s
  BY DEF Settings

\* The settings t with the pair they resolve to.
Resolved(t) == [t EXCEPT !.specs = Canonical(t.category, Algorithm(t), t)]

\* All but the specs is the same.
SameButSpecs(s, t) ==
    /\ t.category = s.category /\ t.chosen = s.chosen /\ t.mode = s.mode
    /\ t.cipherMode = s.cipherMode /\ t.padding = s.padding /\ t.iv = s.iv /\ t.input = s.input
    /\ t.key = s.key /\ t.kmacLength = s.kmacLength /\ t.xofLength = s.xofLength
    /\ t.prngLength = s.prngLength /\ t.forward = s.forward

LEMMA SpecsReplaced ==
    ASSUME NEW s \in Settings, NEW pair \in Pairs
    PROVE  /\ [s EXCEPT !.specs = pair] \in Settings
           /\ SameButSpecs(s, [s EXCEPT !.specs = pair])
           /\ [s EXCEPT !.specs = pair].specs = pair
  BY DEF Settings, SameButSpecs

LEMMA ResolvedIsFresh ==
    ASSUME NEW s \in Settings
    PROVE  Resolved(s) \in Settings /\ SameButSpecs(s, Resolved(s)) /\ Fresh(Resolved(s))
<1> DEFINE pair == Canonical(s.category, Algorithm(s), s)
           t == [s EXCEPT !.specs = pair]
<1>1. pair \in Pairs
  BY Read, CanonicalTyped DEF Settings
<1>2. Resolved(s) = t
  BY DEF Resolved
<1> HIDE DEF pair
<1>3. t \in Settings /\ SameButSpecs(s, t) /\ t.specs = pair
  BY <1>1, SpecsReplaced
<1> HIDE DEF t
<1>4. Algorithm(t) = Algorithm(s) /\ Slot(Algorithm(s), t) = Slot(Algorithm(s), s)
  BY <1>3, SlotReads DEF SameButSpecs, Algorithm
<1>5. pair = Canonical(t.category, Algorithm(t), t)
  BY <1>3, <1>4 DEF pair, Canonical, SameButSpecs
<1>6. QED
  BY <1>2, <1>3, <1>5 DEF Fresh

LEMMA CipherSelected ==
    ASSUME NEW s \in Settings, NEW a \in Ciphers
    PROVE  Selected(s, SetCipher(s, a), "cipher", a)
<1> DEFINE mode == IF s.cipherMode \in SupportedCipherModes(a) THEN s.cipherMode
                   ELSE DefaultCipherMode(a)
           chosen == [s.chosen EXCEPT !.cipher = a]
           t == [s EXCEPT !.category = "cipher", !.chosen = chosen, !.cipherMode = mode]
<1>1. mode \in SupportedCipherModes(a) /\ mode \in CipherModes
  BY SupportedModes
<1>2. chosen \in Choices /\ chosen["cipher"] = a /\ chosen.cipher = a
      /\ \A d \in Categories \ {"cipher"} : chosen[d] = s.chosen[d]
  BY OfKinds DEF Settings, Choices, Categories
<1>3. SetCipher(s, a) = [t EXCEPT !.specs = Canonical("cipher", a, t)]
  <2> DEFINE v == [s EXCEPT !.category = "cipher", !.chosen.cipher = a, !.cipherMode = mode]
  <2>1. v = t
    BY DEF Settings
  <2>2. SetCipher(s, a) = [v EXCEPT !.specs = Canonical("cipher", a, v)]
    BY DEF SetCipher, Settings
  <2> HIDE DEF v, t
  <2>3. QED
    BY <2>1, <2>2
<1> HIDE DEF chosen, mode
<1>t. t \in Settings
  <2> DEFINE x == [s EXCEPT !.category = "cipher"]
             y == [x EXCEPT !.chosen = chosen]
  <2>1. x \in Settings
    BY DEF Settings, Categories
  <2>2. t = [y EXCEPT !.cipherMode = mode]
    OBVIOUS
  <2> HIDE DEF x, t
  <2>3. y \in Settings
    BY <2>1, <1>2 DEF Settings
  <2> HIDE DEF y
  <2>4. QED
    BY <2>2, <2>3, <1>1 DEF Settings
<1>4. /\ t.chosen = chosen /\ t.category = "cipher" /\ t.cipherMode = mode
      /\ t.mode = s.mode /\ t.padding = s.padding /\ t.iv = s.iv /\ t.input = s.input
      /\ t.key = s.key /\ t.kmacLength = s.kmacLength /\ t.xofLength = s.xofLength
      /\ t.forward = s.forward /\ t.prngLength = s.prngLength
  BY DEF Settings
<1> HIDE DEF t
<1>5. SetCipher(s, a) = Resolved(t)
  BY <1>2, <1>3, <1>4 DEF Resolved, Algorithm
<1>6. QED
  BY <1>t, <1>1, <1>2, <1>4, <1>5, ResolvedIsFresh DEF Selected, SameButSpecs, ModeFits, mode

LEMMA OtherSelected ==
    ASSUME NEW s \in Settings, ModeFits(s), NEW c \in Categories \ {"cipher"}, NEW a \in Of[c],
           c = "prng" => s.prngLength <= MaxPrngOutputFor(a)
    PROVE  Selected(s, SetOther(s, c, a), c, a)
<1> DEFINE chosen == [s.chosen EXCEPT ![c] = a]
           t == [s EXCEPT !.category = c, !.chosen = chosen]
<1>1. a \in AllAlgorithms
  BY OfKinds
<1>2. chosen \in Choices /\ chosen[c] = a /\ \A d \in Categories \ {c} : chosen[d] = s.chosen[d]
  BY <1>1 DEF Settings, Choices
<1>3. SetOther(s, c, a) = [t EXCEPT !.specs = Canonical(c, a, t)]
  <2> DEFINE v == [s EXCEPT !.category = c, !.chosen[c] = a]
  <2>1. v = t
    BY DEF Settings
  <2>2. SetOther(s, c, a) = [v EXCEPT !.specs = Canonical(c, a, v)]
    BY DEF SetOther
  <2> HIDE DEF v, t
  <2>3. QED
    BY <2>1, <2>2
<1> HIDE DEF chosen
<1>t. t \in Settings
  <2> DEFINE x == [s EXCEPT !.category = c]
  <2>1. t = [x EXCEPT !.chosen = chosen]
    OBVIOUS
  <2>2. x \in Settings
    BY DEF Settings
  <2> HIDE DEF x, t
  <2>3. QED
    BY <2>1, <2>2, <1>2 DEF Settings
<1>4. /\ t.chosen = chosen /\ t.category = c /\ t.cipherMode = s.cipherMode
      /\ t.mode = s.mode /\ t.padding = s.padding /\ t.iv = s.iv /\ t.input = s.input
      /\ t.key = s.key /\ t.kmacLength = s.kmacLength /\ t.xofLength = s.xofLength
      /\ t.forward = s.forward /\ t.prngLength = s.prngLength
  BY DEF Settings
<1> HIDE DEF t
<1>5. SetOther(s, c, a) = Resolved(t)
  BY <1>2, <1>3, <1>4 DEF Resolved, Algorithm
<1>6. t.chosen.cipher = s.chosen.cipher
  BY <1>2, <1>4 DEF Categories
<1>7. QED
  BY <1>t, <1>2, <1>4, <1>5, <1>6, ResolvedIsFresh DEF Selected, SameButSpecs, ModeFits

LEMMA AlgorithmSelected ==
    ASSUME NEW s \in Settings, ModeFits(s), NEW c \in Categories, NEW a \in Of[c]
    PROVE  Selected(s, SetAlgorithm(s, c, a), c, a)
<1>1. CASE c = "cipher"
  BY <1>1, CipherSelected, OfKinds DEF SetAlgorithm
<1>2. CASE c = "prng"
  <2> DEFINE top == MaxPrngOutputFor(a)
             length == IF s.prngLength > top THEN top ELSE s.prngLength
             t == [s EXCEPT !.prngLength = length]
  <2>a. top \in 1..1024 /\ s.prngLength \in 1..1024
    BY Clamped DEF Settings
  <2> HIDE DEF top
  <2>1. length \in 1..1024 /\ length <= top
    <3>1. PICK given \in 1..1024 : given = s.prngLength
      BY <2>a
    <3>2. PICK most \in 1..1024 : most = top
      BY <2>a
    <3>3. length = IF given > most THEN most ELSE given
      BY <3>1, <3>2
    <3>4. /\ (IF given > most THEN most ELSE given) \in 1..1024
          /\ (IF given > most THEN most ELSE given) <= most
      OBVIOUS
    <3> HIDE DEF length
    <3>5. length \in 1..1024 /\ length <= most
      BY <3>3, <3>4
    <3>6. QED
      BY <3>2, <3>5
  <2> HIDE DEF length
  <2>b. t \in Settings
    BY <2>1 DEF Settings
  <2>2. t \in Settings /\ t.prngLength = length
    BY <2>b DEF Settings
  <2>3. /\ t.category = s.category /\ t.chosen = s.chosen /\ t.mode = s.mode
        /\ t.cipherMode = s.cipherMode /\ t.padding = s.padding /\ t.iv = s.iv
        /\ t.input = s.input /\ t.key = s.key /\ t.kmacLength = s.kmacLength
        /\ t.xofLength = s.xofLength /\ t.forward = s.forward
    BY DEF Settings
  <2>4. SetAlgorithm(s, c, a) = SetOther(t, "prng", a)
    BY <1>2 DEF SetAlgorithm, SetPrng, length, top
  <2>5. ModeFits(t)
    BY <2>3 DEF ModeFits
  <2> HIDE DEF t
  <2>6. Selected(t, SetOther(t, "prng", a), "prng", a)
    BY <2>1, <2>2, <2>5, <1>2, OtherSelected DEF Categories, top
  <2>7. QED
    BY <2>3, <2>4, <2>6, <1>2 DEF Selected
<1>3. CASE c \notin {"cipher", "prng"}
  BY <1>3, OtherSelected DEF SetAlgorithm
<1>4. QED
  BY <1>1, <1>2, <1>3

\* What Selected says for the invariant.
LEMMA SelectedFits ==
    ASSUME NEW s, NEW t, NEW c, NEW a, NEW m, Selected(s, t, c, a)
    PROVE  /\ Typing(t) /\ ModeFits(t) /\ PrngFits(t) /\ Built(t, m) /\ Described(t, m)
           /\ Algorithm(t) = a
  BY FreshIsBuilt DEF Selected, PrngFits, Algorithm

-----------------------------------------------------------------------------
(***************************************************************************)
(* The handlers of the selectors.                                          *)
(***************************************************************************)

LEMMA SteadyTyping ==
    ASSUME NEW s, NEW t \in Settings, Steady(s, t), Typing(s)
    PROVE  Typing(t)
  BY DEF Steady, Typing

\* Writing the fields leaves the selections.
LEMMA FieldsWritten ==
    ASSUME NEW s \in Settings, NEW v \in Samples
    PROVE  /\ [s EXCEPT !.key = v] \in Settings /\ Steady(s, [s EXCEPT !.key = v])
           /\ [s EXCEPT !.key = v].key = v /\ [s EXCEPT !.key = v].input = s.input
           /\ [s EXCEPT !.key = v].iv = s.iv /\ [s EXCEPT !.key = v].forward = s.forward
           /\ [s EXCEPT !.iv = v] \in Settings /\ Steady(s, [s EXCEPT !.iv = v])
           /\ [s EXCEPT !.iv = v].iv = v /\ [s EXCEPT !.iv = v].input = s.input
           /\ [s EXCEPT !.iv = v].key = s.key /\ [s EXCEPT !.iv = v].forward = s.forward
           /\ [s EXCEPT !.input = v] \in Settings /\ Steady(s, [s EXCEPT !.input = v])
           /\ [s EXCEPT !.input = v].input = v /\ [s EXCEPT !.input = v].iv = s.iv
           /\ [s EXCEPT !.input = v].key = s.key /\ [s EXCEPT !.input = v].forward = s.forward
<1>1. /\ [s EXCEPT !.key = v] \in Settings /\ [s EXCEPT !.iv = v] \in Settings
      /\ [s EXCEPT !.input = v] \in Settings
  <2>1. \A x \in Samples : /\ [s EXCEPT !.iv = x] \in Settings
                           /\ [s EXCEPT !.input = x] \in Settings
                           /\ [s EXCEPT !.key = x] \in Settings
    BY DEF Settings
  <2>2. QED
    BY <2>1, Zenon
<1>2. /\ [s EXCEPT !.key = v].key = v /\ [s EXCEPT !.iv = v].iv = v
      /\ [s EXCEPT !.input = v].input = v
  BY DEF Settings
<1>3. /\ Steady(s, [s EXCEPT !.key = v]) /\ [s EXCEPT !.key = v].input = s.input
      /\ [s EXCEPT !.key = v].iv = s.iv /\ [s EXCEPT !.key = v].forward = s.forward
  BY DEF Steady
<1>4. /\ Steady(s, [s EXCEPT !.iv = v]) /\ [s EXCEPT !.iv = v].input = s.input
      /\ [s EXCEPT !.iv = v].key = s.key /\ [s EXCEPT !.iv = v].forward = s.forward
  BY DEF Steady
<1>5. /\ Steady(s, [s EXCEPT !.input = v]) /\ [s EXCEPT !.input = v].iv = s.iv
      /\ [s EXCEPT !.input = v].key = s.key /\ [s EXCEPT !.input = v].forward = s.forward
  BY DEF Steady
<1>6. QED
  BY <1>1, <1>2, <1>3, <1>4, <1>5

\* The fields of a user who only selects, for the algorithm selected next.
FieldsFor(a, s, m) ==
    m = {} =>
        /\ s.mode = "encrypt" /\ s.padding \in {"none", "zero-pad"} /\ s.kmacLength = 32
        /\ s.input = DefaultInput(a, "encrypt") /\ s.key = DefaultKey(a)

LEMMA SelectionSound ==
    ASSUME NEW t \in Settings, NEW m, NEW c \in Categories, NEW a \in Of[c],
           ModeFits(t), IvKept(t, m), FieldsFor(a, t, m), c = "cipher" => a = t.chosen.cipher
    PROVE  /\ Sound(Recorded(SetAlgorithm(t, c, a)), m)
           /\ a \notin RestoresForwardInput => Sound(SetAlgorithm(t, c, a), m)
<1> DEFINE u == SetAlgorithm(t, c, a)
           v == Recorded(u)
<1>1. Selected(t, u, c, a)
  BY AlgorithmSelected
<1> HIDE DEF u
<1>2. Typing(u) /\ ModeFits(u) /\ PrngFits(u) /\ Built(u, m) /\ Described(u, m) /\ Algorithm(u) = a
  BY <1>1, SelectedFits
<1>3. u \in Settings /\ u.iv = t.iv /\ u.input = t.input /\ u.key = t.key
      /\ u.mode = t.mode /\ u.padding = t.padding /\ u.kmacLength = t.kmacLength
  BY <1>1 DEF Selected
<1>4. u.chosen.cipher = t.chosen.cipher
  BY <1>1 DEF Selected, Categories
<1>5. u.cipherMode = t.cipherMode
  BY <1>1, <1>4 DEF Selected, ModeFits
<1>6. IvKept(u, m) /\ Untouched(u, m)
  BY <1>2, <1>3, <1>4, <1>5 DEF IvKept, Untouched, FieldsFor
<1>7. /\ v \in Settings /\ Steady(u, v) /\ Remembered(v)
      /\ v.iv = u.iv /\ v.input = u.input /\ v.key = u.key
  BY <1>3, RecordedFields
<1> HIDE DEF v
<1>8. Typing(v) /\ ModeFits(v) /\ PrngFits(v) /\ Built(v, m) /\ Described(v, m)
  BY <1>2, <1>7, SteadyTyping, SteadyFits
<1>9. Algorithm(v) = Algorithm(u) /\ IvKept(v, m) /\ Untouched(v, m)
  BY <1>6, <1>7 DEF IvKept, Untouched, Steady, Algorithm
<1>10. Sound(v, m)
  BY <1>7, <1>8, <1>9 DEF Sound
<1>11. a \notin RestoresForwardInput => Sound(u, m)
  BY <1>2, <1>6 DEF Sound, Remembered
<1>12. QED
  BY <1>10, <1>11 DEF u, v

LEMMA Swapped ==
    ASSUME NEW text \in Samples, NEW old, NEW new \in Samples
    PROVE  Swap(text, old, new) \in Samples /\ (text = old => Swap(text, old, new) = new)
  BY DEF Swap

LEMMA CategorySound ==
    ASSUME NEW s, NEW m, Sound(s, m), NEW c \in Categories
    PROVE  Sound(ChangeCategory(s, c), m)
<1> DEFINE prev == Algorithm(s)
           next == s.chosen[c]
           key == Swap(s.key, DefaultKey(prev), DefaultKey(next))
           keyed == [s EXCEPT !.key = key]
           input == Swap(s.input, DefaultInput(prev, s.mode), DefaultInput(next, s.mode))
           t == SetInput(keyed, input)
<1>1. s \in Settings /\ s.key \in Samples /\ s.input \in Samples /\ s.mode \in Modes
  BY DEF Sound, Typing, Settings
<1>2. prev \in AllAlgorithms /\ next \in AllAlgorithms /\ next \in Of[c]
  BY <1>1, Read, OfKinds
<1>3. key \in Samples /\ input \in Samples
  BY <1>1, <1>2, DefaultSamples, Swapped
<1> HIDE DEF key, input
<1>4. keyed \in Settings /\ Steady(s, keyed) /\ keyed.key = key /\ keyed.iv = s.iv
  BY <1>1, <1>3, FieldsWritten
<1> HIDE DEF keyed
<1>5. t \in Settings /\ Steady(keyed, t) /\ t.iv = s.iv /\ t.input = input /\ t.key = key
  BY <1>3, <1>4, InputFields
<1> HIDE DEF t
<1>6. Steady(s, t)
  BY <1>4, <1>5 DEF Steady
<1>7. ModeFits(t) /\ IvKept(t, m) /\ (c = "cipher" => next = t.chosen.cipher)
  BY <1>5, <1>6 DEF Sound, Steady, ModeFits, IvKept
<1>8. FieldsFor(next, t, m)
  BY <1>5, <1>6 DEF Sound, Untouched, FieldsFor, Steady, Swap, key, input
<1>9. ChangeCategory(s, c) = Recorded(SetAlgorithm(t, c, next))
  BY DEF ChangeCategory, t, keyed, key, input
<1>10. QED
  BY <1>2, <1>5, <1>7, <1>8, <1>9, SelectionSound

LEMMA UnkeyedSound ==
    ASSUME NEW s, NEW m, Sound(s, m), NEW c \in Categories \ {"cipher", "hash"}, c = s.category,
           NEW a \in Of[c]
    PROVE  Sound(ChangeUnkeyed(s, c, a), m)
<1> DEFINE input == Swap(s.input, DefaultInput(s.chosen[c], s.mode), DefaultInput(a, s.mode))
           t == SetInput(s, input)
<1>1. s \in Settings /\ s.input \in Samples /\ s.mode \in Modes
  BY DEF Sound, Typing, Settings
<1>2. /\ Algorithm(s) \in AllAlgorithms /\ Algorithm(s) \in Of[c]
      /\ a \in AllAlgorithms /\ s.chosen[c] = Algorithm(s)
  BY <1>1, Read, OfKinds DEF Algorithm
<1>3. input \in Samples
  BY <1>1, <1>2, DefaultSamples, Swapped
<1> HIDE DEF input
<1>4. t \in Settings /\ Steady(s, t) /\ t.iv = s.iv /\ t.input = input /\ t.key = s.key
  BY <1>1, <1>3, InputFields
<1> HIDE DEF t
<1>5. ModeFits(t) /\ IvKept(t, m)
  BY <1>4 DEF Sound, Steady, ModeFits, IvKept
<1>6. DefaultKey(Algorithm(s)) = NoBytes /\ DefaultKey(a) = NoBytes
  BY <1>2, OneKind, Subkinds DEF DefaultKey
<1>7. FieldsFor(a, t, m)
  BY <1>2, <1>4, <1>6 DEF Sound, Untouched, FieldsFor, Steady, Swap, input
<1>8. ChangeUnkeyed(s, c, a) = Recorded(SetAlgorithm(t, c, a))
  BY DEF ChangeUnkeyed, t, input
<1>9. QED
  BY <1>4, <1>5, <1>7, <1>8, SelectionSound

LEMMA HashRebuilt ==
    ASSUME NEW s \in Settings
    PROVE  /\ RebuiltHash(s) \in Settings /\ SameButSpecs(s, RebuiltHash(s))
           /\ Typing(RebuiltHash(s))
           /\ s.category = "hash" => Fresh(RebuiltHash(s))
<1> DEFINE a == s.chosen.hash
           pair == Canonical("hash", a, s)
           t == [s EXCEPT !.specs = pair]
<1>1. a \in Hashes /\ a \in AllAlgorithms /\ Readable(s) /\ "hash" \in Categories
  BY Read, OfKinds DEF Categories
<1>2. pair \in Pairs /\ pair.kind = "hash" /\ pair.slot \in [SlotNames("hash") -> Specs]
  BY <1>1, CanonicalTyped
<1>3. RebuiltHash(s) = t
  BY DEF RebuiltHash
<1>4. s.category = "hash" => t = Resolved(s)
  BY DEF Resolved, Algorithm
<1> HIDE DEF pair
<1>5. t \in Settings /\ SameButSpecs(s, t) /\ t.specs = pair
  BY <1>2, SpecsReplaced
<1> HIDE DEF t
<1>6. Typing(t)
  BY <1>2, <1>5 DEF Typing
<1>7. s.category = "hash" => Fresh(t)
  BY <1>4, ResolvedIsFresh
<1>8. QED
  BY <1>3, <1>5, <1>6, <1>7

\* All but the specs and the length of a KMAC key is the same.
SameButKmac(s, t) ==
    /\ t.category = s.category /\ t.chosen = s.chosen /\ t.mode = s.mode
    /\ t.cipherMode = s.cipherMode /\ t.padding = s.padding /\ t.iv = s.iv /\ t.input = s.input
    /\ t.key = s.key /\ t.xofLength = s.xofLength /\ t.prngLength = s.prngLength
    /\ t.forward = s.forward

LEMMA KmacLengthSet ==
    ASSUME NEW s \in Settings, IsKmac(s), NEW n \in Nat
    PROVE  /\ SetKmacKeyLength(s, n) \in Settings /\ SameButKmac(s, SetKmacKeyLength(s, n))
           /\ SetKmacKeyLength(s, n).kmacLength = AtLeastOne(n, MaxKmacKeyLength)
           /\ Typing(SetKmacKeyLength(s, n))
           /\ s.category = "hash" => Fresh(SetKmacKeyLength(s, n))
<1> DEFINE length == AtLeastOne(n, MaxKmacKeyLength)
           t == [s EXCEPT !.kmacLength = length]
<1>1. length \in 1..MaxKmacKeyLength
  BY DEF AtLeastOne, MaxKmacKeyLength
<1>2. t \in Settings
  BY <1>1 DEF Settings
<1>3. SameButKmac(s, t) /\ t.kmacLength = length
  BY DEF SameButKmac, Settings
<1>4. SetKmacKeyLength(s, n) = IF IsKmac(t) THEN RebuiltHash(t) ELSE t
  BY DEF SetKmacKeyLength
<1> HIDE DEF t, length
<1>5. IsKmac(t)
  BY <1>3 DEF SameButKmac, IsKmac
<1>6. QED
  BY <1>2, <1>3, <1>4, <1>5, HashRebuilt DEF SameButKmac, SameButSpecs, length

LEMMA HashSound ==
    ASSUME NEW s, NEW m, Sound(s, m), s.category = "hash", NEW a \in Hashes
    PROVE  Sound(ChangeHash(s, a), m)
<1> DEFINE prev == s.chosen.hash
           swapped == s.key = DefaultKey(prev)
           key == Swap(s.key, DefaultKey(prev), DefaultKey(a))
           keyed == [s EXCEPT !.key = key]
           rekeyed == swapped /\ a \in KmacHashes
           t == IF rekeyed THEN SetKmacKeyLength(keyed, DefaultKey(a).length) ELSE keyed
           input == Swap(t.input, DefaultHashInput(prev), DefaultHashInput(a))
           u == [t EXCEPT !.input = input]
<1>1. s \in Settings /\ s.key \in Samples /\ s.input \in Samples /\ s.mode \in Modes
  BY DEF Sound, Typing, Settings
<1>2. /\ prev \in Hashes /\ prev \in AllAlgorithms /\ a \in AllAlgorithms /\ a \in Of["hash"]
      /\ Algorithm(s) = prev /\ "hash" \in Categories
  BY <1>1, Read, OfKinds DEF Algorithm, Categories
<1>3. /\ key \in Samples /\ DefaultKey(a).length \in Nat
      /\ DefaultHashInput(a) \in Samples /\ DefaultHashInput(a) = DefaultInput(a, "encrypt")
      /\ DefaultHashInput(prev) = DefaultInput(prev, "encrypt")
  <2>1. DefaultKey(a) \in Samples /\ DefaultInput(a, "encrypt") \in Samples
    BY <1>2, DefaultSamples DEF Modes
  <2>2. \A h \in Hashes : DefaultHashInput(h) = DefaultInput(h, "encrypt")
    BY OneKind, OfKinds DEF DefaultInput, Categories
  <2>3. QED
    BY <1>1, <1>2, <2>1, <2>2, Swapped DEF Samples
<1> HIDE DEF key
<1>4. keyed \in Settings /\ Steady(s, keyed) /\ keyed.key = key /\ keyed.iv = s.iv
      /\ keyed.input = s.input
  BY <1>1, <1>3, FieldsWritten
<1>5. IsKmac(keyed) <=> prev \in KmacHashes
  BY <1>4 DEF IsKmac, Steady
<1> HIDE DEF keyed
<1>6. /\ t \in Settings /\ t.category = s.category /\ t.chosen = s.chosen /\ t.mode = s.mode
      /\ t.cipherMode = s.cipherMode /\ t.padding = s.padding /\ t.iv = s.iv
      /\ t.input = s.input /\ t.key = key
      /\ t.kmacLength = IF rekeyed THEN AtLeastOne(DefaultKey(a).length, MaxKmacKeyLength)
                        ELSE s.kmacLength
  <2>1. CASE ~rekeyed
    BY <1>4, <2>1 DEF Steady
  <2>2. CASE rekeyed /\ prev \in KmacHashes
    <3>1. t = SetKmacKeyLength(keyed, DefaultKey(a).length)
      BY <2>2
    <3>2. QED
      BY <2>2, <1>3, <1>4, <1>5, <3>1, KmacLengthSet DEF SameButKmac, Steady
  <2>3. CASE rekeyed /\ prev \notin KmacHashes
    <3> DEFINE length == AtLeastOne(DefaultKey(a).length, MaxKmacKeyLength)
               v == [keyed EXCEPT !.kmacLength = length]
    <3>1. length \in 1..MaxKmacKeyLength
      BY <1>3 DEF AtLeastOne, MaxKmacKeyLength
    <3> HIDE DEF length
    <3>a. v \in Settings
      BY <1>4, <3>1 DEF Settings
    <3>2. v.kmacLength = length /\ v.chosen = keyed.chosen
      BY <1>4 DEF Settings
    <3>3. t = IF IsKmac(v) THEN RebuiltHash(v) ELSE v
      BY <2>3 DEF SetKmacKeyLength, length
    <3>4. ~IsKmac(v)
      BY <2>3, <1>5, <3>2 DEF IsKmac
    <3>5. t = v
      BY <3>3, <3>4
    <3>6. SameButKmac(keyed, v)
      BY <1>4 DEF SameButKmac, Settings
    <3> HIDE DEF v
    <3>7. QED
      BY <2>3, <1>4, <3>a, <3>2, <3>5, <3>6 DEF SameButKmac, Steady, length
  <2>4. QED
    BY <2>1, <2>2, <2>3
<1> HIDE DEF t
<1>7. input \in Samples
  BY <1>1, <1>3, <1>6, Swapped
<1> HIDE DEF input
<1>8. u \in Settings /\ Steady(t, u) /\ u.iv = s.iv /\ u.input = input /\ u.key = key
  BY <1>6, <1>7, FieldsWritten
<1>9. ModeFits(u) /\ IvKept(u, m)
  BY <1>6, <1>8 DEF Sound, Steady, ModeFits, IvKept
<1>10. FieldsFor(a, u, m)
  <2>1. a \in KmacHashes => AtLeastOne(DefaultKey(a).length, MaxKmacKeyLength) = 32
    BY <1>2, OneKind DEF DefaultKey, Sample, AtLeastOne, MaxKmacKeyLength, Categories
  <2>2. QED
    BY <1>2, <1>3, <1>6, <1>8, <2>1 DEF Sound, Untouched, FieldsFor, Steady, Swap, key, input
<1>11. ChangeHash(s, a) = SetOther(u, "hash", a)
  BY DEF ChangeHash, u, t, keyed, key, input
<1>12. SetOther(u, "hash", a) = SetAlgorithm(u, "hash", a)
  BY DEF SetAlgorithm
<1>13. a \notin RestoresForwardInput
  BY <1>2, OneKind, Subkinds
<1> HIDE DEF u
<1>14. QED
  BY <1>2, <1>8, <1>9, <1>10, <1>11, <1>12, <1>13, SelectionSound

\* An IV of the cipher's width may replace another at any time.
LEMMA IvReconciled ==
    ASSUME NEW s \in Settings
    PROVE  /\ ReconcileIvWidth(s) \in Settings /\ Steady(s, ReconcileIvWidth(s))
           /\ ReconcileIvWidth(s).iv.length = IvByteLength(s.chosen.cipher)
           /\ ReconcileIvWidth(s).input = s.input /\ ReconcileIvWidth(s).key = s.key
           /\ ReconcileIvWidth(s).forward = s.forward
<1> DEFINE iv == CanonicalIv(s.chosen.cipher)
<1>1. iv \in Samples /\ iv.length = IvByteLength(s.chosen.cipher)
  BY Read, OtherSamples
<1> HIDE DEF iv
<1>2. CASE s.iv.length = IvByteLength(s.chosen.cipher)
  BY <1>2 DEF ReconcileIvWidth, Steady
<1>3. CASE s.iv.length # IvByteLength(s.chosen.cipher)
  BY <1>1, <1>3, FieldsWritten DEF ReconcileIvWidth, iv
<1>4. QED
  BY <1>2, <1>3

LEMMA CipherSound ==
    ASSUME NEW s, NEW m, Sound(s, m), s.category = "cipher", NEW a \in Ciphers
    PROVE  Sound(ChangeCipher(s, a), m)
<1> DEFINE prev == s.chosen.cipher
           key == Swap(s.key, DefaultCipherKey(prev), DefaultCipherKey(a))
           input == Swap(s.input, CipherInput(prev, s.mode), CipherInput(a, s.mode))
           fields == [s EXCEPT !.key = key, !.input = input]
           t == SetCipher(fields, a)
           u == IF s.iv = CanonicalIv(prev) THEN [t EXCEPT !.iv = CanonicalIv(a)]
                ELSE ReconcileIvWidth(t)
<1>1. s \in Settings /\ s.key \in Samples /\ s.input \in Samples /\ s.mode \in Modes
  BY DEF Sound, Typing, Settings
<1>2. /\ prev \in Ciphers /\ prev \in AllAlgorithms /\ a \in AllAlgorithms
      /\ Algorithm(s) = prev
  BY <1>1, Read, OfKinds DEF Algorithm, Categories
<1>3. \A c \in Ciphers : /\ DefaultCipherKey(c) = DefaultKey(c) /\ DefaultKey(c) \in Samples
                         /\ CipherInput(c, "encrypt") = DefaultInput(c, "encrypt")
  <2>1. \A c \in Ciphers : DefaultKey(c) \in Samples
    BY DefaultSamples, OfKinds DEF Modes, Categories
  <2>2. ASSUME NEW c \in Ciphers
        PROVE  DefaultCipherKey(c) = DefaultKey(c)
               /\ CipherInput(c, "encrypt") = DefaultInput(c, "encrypt")
    <3>1. c \notin Hashes /\ c \notin Asymmetrics /\ c \notin Prngs /\ c \notin Lattices
      BY OneKind, OfKinds DEF Categories
    <3>2. c \notin KmacHashes
      BY <3>1, Subkinds
    <3>3. QED
      BY <3>1, <3>2 DEF DefaultKey, DefaultInput, CipherInput
  <2>3. QED
    BY <2>1, <2>2
<1>4. key \in Samples /\ input \in Samples
  BY <1>1, <1>2, <1>3, OtherSamples, Swapped
<1> HIDE DEF key, input
<1>5. fields \in Settings /\ Steady(s, fields) /\ fields.key = key /\ fields.input = input
      /\ fields.iv = s.iv
  <2>1. fields = [[s EXCEPT !.key = key] EXCEPT !.input = input]
    OBVIOUS
  <2>2. fields \in Settings
    <3> DEFINE x == [s EXCEPT !.key = key]
    <3>1. x \in Settings
      BY <1>1, <1>4 DEF Settings
    <3>2. fields = [x EXCEPT !.input = input]
      BY <2>1
    <3> HIDE DEF x, fields
    <3>3. QED
      BY <1>4, <3>1, <3>2 DEF Settings
  <2>3. QED
    BY <1>1, <2>2 DEF Steady, Settings
<1> HIDE DEF fields
<1>6. Selected(fields, t, "cipher", a)
  BY <1>5, CipherSelected
<1>7. Typing(t) /\ ModeFits(t) /\ PrngFits(t) /\ Built(t, m) /\ Described(t, m) /\ Algorithm(t) = a
  BY <1>6, SelectedFits
<1>8. /\ t \in Settings /\ t.chosen.cipher = a /\ t.input = input /\ t.key = key
      /\ t.mode = s.mode /\ t.padding = s.padding /\ t.kmacLength = s.kmacLength
  BY <1>5, <1>6 DEF Selected, Steady
<1> HIDE DEF t
<1>9. /\ u \in Settings /\ Steady(t, u) /\ u.input = t.input /\ u.key = t.key
      /\ u.iv.length = IvByteLength(a)
  <2>1. CanonicalIv(a) \in Samples /\ CanonicalIv(a).length = IvByteLength(a)
    BY OtherSamples
  <2>2. CASE s.iv = CanonicalIv(prev)
    BY <1>8, <2>1, <2>2, FieldsWritten
  <2>3. CASE s.iv # CanonicalIv(prev)
    BY <1>8, <2>3, IvReconciled
  <2>4. QED
    BY <2>2, <2>3
<1> HIDE DEF u
<1>10. Typing(u) /\ ModeFits(u) /\ PrngFits(u) /\ Built(u, m) /\ Described(u, m)
  BY <1>7, <1>9, SteadyTyping, SteadyFits
<1>11. Algorithm(u) = a /\ u.chosen.cipher = a
  BY <1>7, <1>8, <1>9 DEF Steady, Algorithm
<1>12. IvKept(u, m)
  BY <1>9, <1>11 DEF IvKept
<1>13. Untouched(u, m)
  BY <1>2, <1>3, <1>8, <1>9, <1>11 DEF Sound, Untouched, Steady, Swap, key, input
<1>14. Remembered(u)
  BY <1>11, OneKind, Subkinds, OfKinds DEF Remembered, Categories
<1>15. ChangeCipher(s, a) = u
  BY DEF ChangeCipher, u, t, fields, key, input
<1>16. QED
  BY <1>10, <1>12, <1>13, <1>14, <1>15 DEF Sound

\* Every change of the algorithm.
LEMMA ChangeSound ==
    ASSUME NEW s, NEW m, Sound(s, m), NEW c \in Categories, NEW a \in Of[c]
    PROVE  Sound(Change(s, c, a), m)
<1>1. CASE c # s.category
  BY <1>1, CategorySound DEF Change
<1>2. CASE c = s.category /\ c = "cipher"
  BY <1>2, CipherSound, OfKinds DEF Change
<1>3. CASE c = s.category /\ c = "hash"
  BY <1>3, HashSound, OfKinds DEF Change
<1>4. CASE c = s.category /\ c \notin {"cipher", "hash"}
  BY <1>4, UnkeyedSound DEF Change
<1>5. QED
  BY <1>1, <1>2, <1>3, <1>4

LEMMA CipherModeSound ==
    ASSUME NEW s, NEW m, Sound(s, m), s.category = "cipher",
           NEW cm \in SupportedCipherModes(s.chosen.cipher)
    PROVE  Sound(ChangeCipherMode(s, cm), m)
<1> DEFINE t == [s EXCEPT !.cipherMode = cm]
           u == SetCipherMode(s, cm)
           v == ReconcileIvWidth(u)
<1>1. s \in Settings /\ cm \in CipherModes
  BY Read, SupportedModes DEF Sound, Typing
<1>2. t \in Settings
  BY <1>1 DEF Settings
<1>3. /\ t.cipherMode = cm /\ t.category = s.category /\ t.chosen = s.chosen /\ t.mode = s.mode
      /\ t.padding = s.padding /\ t.kmacLength = s.kmacLength /\ t.xofLength = s.xofLength
      /\ t.prngLength = s.prngLength /\ t.input = s.input /\ t.key = s.key
  BY <1>1 DEF Settings
<1>4. u = [t EXCEPT !.specs = Canonical("cipher", t.chosen.cipher, t)]
  BY DEF SetCipherMode
<1> HIDE DEF t, u
<1>5. u = Resolved(t)
  BY <1>3, <1>4 DEF Resolved, Algorithm
<1>6. u \in Settings /\ SameButSpecs(t, u) /\ Fresh(u)
  BY <1>2, <1>5, ResolvedIsFresh
<1>7. Typing(u) /\ Built(u, m) /\ Described(u, m)
  BY <1>6, FreshIsBuilt
<1>8. ModeFits(u) /\ PrngFits(u)
  BY <1>3, <1>6 DEF SameButSpecs, ModeFits, PrngFits, Sound
<1>9. /\ v \in Settings /\ Steady(u, v) /\ v.iv.length = IvByteLength(u.chosen.cipher)
      /\ v.input = u.input /\ v.key = u.key
  BY <1>6, IvReconciled
<1> HIDE DEF v
<1>10. Typing(v) /\ ModeFits(v) /\ PrngFits(v) /\ Built(v, m) /\ Described(v, m)
  BY <1>7, <1>8, <1>9, SteadyTyping, SteadyFits
<1>11. Algorithm(v) = Algorithm(s) /\ Algorithm(v) = s.chosen.cipher /\ IvKept(v, m)
  BY <1>3, <1>6, <1>9 DEF SameButSpecs, Steady, Algorithm, IvKept
<1>12. Untouched(v, m)
  BY <1>3, <1>6, <1>9, <1>11 DEF SameButSpecs, Steady, Untouched, Sound
<1>a. s.chosen.cipher \in Ciphers
  BY <1>1, Read
<1>b. s.chosen.cipher \notin RestoresForwardInput
  BY <1>a, OneKind, Subkinds, OfKinds DEF Categories
<1>13. Remembered(v)
  BY <1>11, <1>b DEF Remembered
<1>14. QED
  BY <1>10, <1>11, <1>12, <1>13 DEF Sound, ChangeCipherMode, u, v

-----------------------------------------------------------------------------
(***************************************************************************)
(* The handlers of the fields.                                             *)
(***************************************************************************)

\* Once the user has typed, any field may hold anything.
LEMMA TouchedSound ==
    ASSUME NEW s, NEW m, Sound(s, m), NEW n, m \subseteq n, n # {},
           NEW t \in Settings, SameSelections(s, t), IvKept(t, n), Remembered(t)
    PROVE  Sound(t, n)
<1>1. Sound(s, n)
  BY MoreMarks
<1>2. ModeFits(t) /\ PrngFits(t) /\ Built(t, n) /\ Described(t, n)
  BY <1>1, SelectionsFit DEF Sound
<1>3. Typing(t)
  BY DEF Sound, Typing, SameSelections
<1>4. QED
  BY <1>2, <1>3 DEF Sound, Untouched

LEMMA InputSound ==
    ASSUME NEW s, NEW m, Sound(s, m), NEW text \in Samples
    PROVE  Sound(SetInput(s, text), m \cup {"touched"})
<1>1. s \in Settings
  BY DEF Sound, Typing
<1>2. /\ SetInput(s, text) \in Settings /\ Steady(s, SetInput(s, text))
      /\ Remembered(SetInput(s, text)) /\ SetInput(s, text).iv = s.iv
  BY <1>1, InputFields
<1>3. IvKept(SetInput(s, text), m \cup {"touched"})
  BY <1>2 DEF Sound, IvKept, Steady
<1>4. SameSelections(s, SetInput(s, text))
  BY <1>2 DEF Steady, SameSelections
<1>5. QED
  BY <1>2, <1>3, <1>4, TouchedSound

LEMMA KeySound ==
    ASSUME NEW s, NEW m, Sound(s, m), NEW text \in Samples
    PROVE  Sound([s EXCEPT !.key = text], m \cup {"touched"})
<1> DEFINE t == [s EXCEPT !.key = text]
<1>1. t \in Settings /\ Steady(s, t) /\ t.iv = s.iv /\ t.input = s.input /\ t.forward = s.forward
  BY FieldsWritten DEF Sound, Typing
<1> HIDE DEF t
<1>2. IvKept(t, m \cup {"touched"}) /\ Remembered(t) /\ SameSelections(s, t)
  BY <1>1 DEF Sound, IvKept, Remembered, Steady, Algorithm, SameSelections
<1>3. QED
  BY <1>1, <1>2, TouchedSound DEF t

LEMMA IvSound ==
    ASSUME NEW s, NEW m, Sound(s, m), NEW iv \in Samples, iv.length = IvByteLength(s.chosen.cipher)
    PROVE  Sound([s EXCEPT !.iv = iv], m)
<1> DEFINE t == [s EXCEPT !.iv = iv]
<1>1. /\ t \in Settings /\ Steady(s, t) /\ t.iv = iv /\ t.input = s.input /\ t.key = s.key
      /\ t.forward = s.forward
  BY FieldsWritten DEF Sound, Typing
<1> HIDE DEF t
<1>2. Typing(t) /\ ModeFits(t) /\ PrngFits(t) /\ Built(t, m) /\ Described(t, m)
  BY <1>1, SteadyTyping, SteadyFits DEF Sound
<1>3. IvKept(t, m) /\ Remembered(t) /\ Untouched(t, m)
  BY <1>1 DEF Sound, IvKept, Remembered, Untouched, Steady, Algorithm
<1>4. QED
  BY <1>2, <1>3 DEF Sound, t

LEMMA FlipSound ==
    ASSUME NEW s, NEW m, Sound(s, m), NEW output \in Samples
    PROVE  Sound(FlipMode(s, output), m \cup {"touched"})
<1> DEFINE mode == IF s.mode = "encrypt" THEN "decrypt" ELSE "encrypt"
           a == Algorithm(s)
           restores == mode = "encrypt" /\ a \in RestoresForwardInput /\ s.forward[a] # NoBytes
           text == IF restores THEN s.forward[a] ELSE IF ran THEN output ELSE s.input
           t == [s EXCEPT !.mode = mode, !.input = text]
           u == Recorded(t)
<1>1. s \in Settings
  BY DEF Sound, Typing
<1>2. mode \in Modes /\ text \in Samples
  BY <1>1 DEF Settings, Modes
<1>3. FlipMode(s, output) = u
  BY DEF FlipMode
<1> HIDE DEF mode, text
<1>4. t = [[s EXCEPT !.mode = mode] EXCEPT !.input = text]
  OBVIOUS
<1>5. t \in Settings
  <2> DEFINE x == [s EXCEPT !.mode = mode]
  <2>1. x \in Settings
    BY <1>1, <1>2 DEF Settings
  <2>2. t = [x EXCEPT !.input = text]
    BY <1>4
  <2> HIDE DEF x, t
  <2>3. QED
    BY <1>2, <2>1, <2>2 DEF Settings
<1>6. SameSelections(s, t) /\ t.iv = s.iv
  BY DEF SameSelections, Settings
<1> HIDE DEF t
<1>7. u \in Settings /\ Steady(t, u) /\ Remembered(u) /\ u.iv = t.iv
  BY <1>5, RecordedFields
<1> HIDE DEF u
<1>8. IvKept(u, m \cup {"touched"}) /\ SameSelections(s, u)
  BY <1>6, <1>7 DEF Sound, IvKept, Steady, SameSelections
<1>9. QED
  BY <1>3, <1>7, <1>8, TouchedSound

LEMMA CipherSlot ==
    ASSUME NEW a \in Ciphers, NEW s, s.cipherMode \in SupportedCipherModes(a)
    PROVE  Slot(a, s) = [algorithm |-> a, cipherMode |-> s.cipherMode,
                         padding |-> PaddedWith(a, s.cipherMode, s.padding),
                         keyLength |-> DefaultKey(a).length, outputLength |-> 0, edited |-> FALSE]
<1>1. a \notin Hashes /\ a \notin Prngs
  BY OneKind, OfKinds DEF Categories
<1>2. a \notin KmacHashes /\ a \notin XofHashes
  BY <1>1, Subkinds
<1>3. QED
  BY <1>1, <1>2 DEF Slot

LEMMA PaddingSound ==
    ASSUME NEW s, NEW m, Sound(s, m), s.category = "cipher", NEW scheme \in PaddingSchemes
    PROVE  Sound(ChangePadding(s, scheme), m \cup {"touched"})
<1> DEFINE limits == PaddingLimits(s.mode, scheme, s.chosen.cipher, s.cipherMode)
           unfit == s.mode = "encrypt" /\ Parses(s.input) /\ ~InLimits(s.input.length, limits)
           text == CASE unfit /\ s.input = AesPlaintext /\ limits.max < 16 -> ShortPlaintext
                     [] unfit /\ s.input = ShortPlaintext /\ limits.min = 16 -> AesPlaintext
                     [] OTHER -> s.input
           t == [s EXCEPT !.input = text]
           padding == IF s.specs.kind = "cipher"
                      THEN PaddedWith(s.chosen.cipher, s.cipherMode, scheme) ELSE "none"
           slots == [n \in DOMAIN s.specs.slot |-> [s.specs.slot[n] EXCEPT !.padding = padding]]
           pair == [s.specs EXCEPT !.slot = slots]
           u == [[t EXCEPT !.padding = scheme] EXCEPT !.specs = pair]
           n == m \cup {"touched"}
<1>1. s \in Settings /\ Typing(s)
  BY DEF Sound, Typing
<1>2. text \in Samples
  BY <1>1, OtherSamples DEF Settings
<1>3. ChangePadding(s, scheme) = u
  BY <1>1 DEF ChangePadding, SetPadding, Settings, Pairs
<1> HIDE DEF text
<1>4. t \in Settings /\ Steady(s, t) /\ t.iv = s.iv
  BY <1>1, <1>2, FieldsWritten
<1> HIDE DEF t
<1>5. padding \in PaddingSchemes
  BY DEF PaddedWith, PaddingSchemes
<1> HIDE DEF padding
<1>6. /\ s.specs.slot \in [SlotNames(s.specs.kind) -> Specs]
      /\ \A k \in SlotNames(s.specs.kind) : slots[k] = [s.specs.slot[k] EXCEPT !.padding = padding]
      /\ DOMAIN slots = SlotNames(s.specs.kind)
  BY <1>1 DEF Typing
<1>7. /\ slots \in [SlotNames(s.specs.kind) -> Specs]
      /\ \A k \in SlotNames(s.specs.kind) :
            /\ slots[k].algorithm = s.specs.slot[k].algorithm
            /\ slots[k].keyLength = s.specs.slot[k].keyLength
            /\ slots[k].outputLength = s.specs.slot[k].outputLength
  <2>1. \A spec \in Specs : /\ [spec EXCEPT !.padding = padding] \in Specs
                            /\ [spec EXCEPT !.padding = padding].algorithm = spec.algorithm
                            /\ [spec EXCEPT !.padding = padding].keyLength = spec.keyLength
                            /\ [spec EXCEPT !.padding = padding].outputLength = spec.outputLength
    BY <1>5 DEF Specs
  <2>2. \A k \in SlotNames(s.specs.kind) : s.specs.slot[k] \in Specs
    BY <1>6
  <2>3. slots \in [DOMAIN slots -> Specs]
    BY <1>6, <2>1, <2>2
  <2>4. QED
    BY <1>6, <2>1, <2>2, <2>3
<1> HIDE DEF slots
<1>8. pair \in Pairs /\ pair.kind = s.specs.kind /\ pair.slot = slots
  <2>1. s.specs \in Pairs
    BY <1>1 DEF Settings
  <2>2. slots \in [Modes -> Specs] \cup [{"single"} -> Specs]
    BY <1>7, SlotNameSets
  <2>3. QED
    BY <2>1, <2>2 DEF Pairs
<1> HIDE DEF pair
<1>9. /\ u \in Settings /\ u.specs = pair /\ u.padding = scheme /\ u.category = s.category
      /\ u.chosen = s.chosen /\ u.mode = s.mode /\ u.cipherMode = s.cipherMode /\ u.iv = s.iv
      /\ u.kmacLength = s.kmacLength /\ u.xofLength = s.xofLength /\ u.prngLength = s.prngLength
  <2>1. [t EXCEPT !.padding = scheme] \in Settings
    BY <1>4 DEF Settings
  <2>2. u \in Settings
    <3> DEFINE x == [t EXCEPT !.padding = scheme]
    <3>1. x \in Settings /\ u = [x EXCEPT !.specs = pair]
      BY <2>1
    <3> HIDE DEF x, u
    <3>2. QED
      BY <1>8, <3>1 DEF Settings
  <2>3. u.specs = pair /\ u.padding = scheme
    BY <1>4 DEF Settings
  <2>4. QED
    BY <1>4, <2>2, <2>3 DEF Steady
<1> HIDE DEF u
<1>10. /\ Algorithm(u) = Algorithm(s) /\ Algorithm(s) = s.chosen.cipher /\ s.chosen.cipher \in Ciphers
       /\ s.cipherMode \in SupportedCipherModes(s.chosen.cipher)
  BY <1>1, <1>9, Read DEF Algorithm, Sound, ModeFits
<1>11. Slot(Algorithm(u), u) = [Slot(Algorithm(s), s) EXCEPT
                                  !.padding = PaddedWith(s.chosen.cipher, s.cipherMode, scheme)]
  <2> DEFINE c == s.chosen.cipher
             r == Slot(c, s)
             q == Slot(c, u)
  <2>1. r \in Specs /\ q \in Specs
    BY <1>1, <1>9, <1>10, Read, SlotTyped
  <2>2. /\ r.algorithm = c /\ r.cipherMode = s.cipherMode /\ r.keyLength = DefaultKey(c).length
        /\ r.outputLength = 0 /\ r.edited = FALSE
    BY <1>10, CipherSlot
  <2>3. /\ q.algorithm = c /\ q.cipherMode = s.cipherMode /\ q.keyLength = DefaultKey(c).length
        /\ q.outputLength = 0 /\ q.edited = FALSE /\ q.padding = PaddedWith(c, s.cipherMode, scheme)
    BY <1>9, <1>10, CipherSlot
  <2> HIDE DEF r, q
  <2>4. \A x, y \in Specs :
           /\ x.algorithm = y.algorithm /\ x.cipherMode = y.cipherMode
           /\ x.keyLength = y.keyLength /\ x.outputLength = y.outputLength /\ x.edited = y.edited
           => y = [x EXCEPT !.padding = y.padding]
    BY DEF Specs
  <2>5. q = [r EXCEPT !.padding = q.padding]
    BY <2>1, <2>2, <2>3, <2>4
  <2>6. Algorithm(s) = c /\ Algorithm(u) = c
    BY <1>10
  <2>7. QED
    BY <2>3, <2>5, <2>6 DEF r, q
<1>12. Slot(Algorithm(s), s) \in Specs
  BY <1>1, Read, SlotTyped
<1>13. Built(u, n)
  <2>1. /\ Slot(Algorithm(u), u).keyLength = Slot(Algorithm(s), s).keyLength
        /\ Slot(Algorithm(u), u).outputLength = Slot(Algorithm(s), s).outputLength
    BY <1>11, <1>12 DEF Specs
  <2>2. Built(s, n)
    BY MoreMarks DEF Sound
  <2>3. QED
    BY <1>7, <1>8, <1>9, <1>10, <2>1, <2>2 DEF Built, BuiltFor
<1>14. Described(u, n)
  <2> SUFFICES ASSUME n \cap {"bare", "shadowed"} = {}, NEW k \in SlotNames(u.specs.kind)
               PROVE  Unedited(u.specs.slot[k]) = Slot(Algorithm(u), u)
    BY DEF Described
  <2>1. s.specs.kind = "cipher" /\ Unedited(s.specs.slot[k]) = Slot(Algorithm(s), s)
    BY <1>8, <1>9 DEF Sound, Built, Described
  <2>2. padding = PaddedWith(s.chosen.cipher, s.cipherMode, scheme)
    BY <2>1 DEF padding
  <2>3. u.specs.slot[k] = [s.specs.slot[k] EXCEPT !.padding = padding] /\ s.specs.slot[k] \in Specs
    BY <1>6, <1>8, <1>9
  <2>4. Unedited([s.specs.slot[k] EXCEPT !.padding = padding])
          = [Unedited(s.specs.slot[k]) EXCEPT !.padding = padding]
    BY <2>3 DEF Unedited, Specs
  <2>5. QED
    BY <1>11, <2>1, <2>2, <2>3, <2>4
<1>15. ModeFits(u) /\ PrngFits(u) /\ Typing(u)
  BY <1>1, <1>7, <1>8, <1>9 DEF Sound, ModeFits, PrngFits, Typing
<1>16. IvKept(u, n) /\ Untouched(u, n)
  BY <1>9 DEF Sound, IvKept, Untouched
<1>17. Remembered(u)
  BY <1>10, OneKind, Subkinds, OfKinds DEF Remembered, Categories
<1>18. QED
  BY <1>3, <1>13, <1>14, <1>15, <1>16, <1>17 DEF Sound

-----------------------------------------------------------------------------
(***************************************************************************)
(* The active spec.                                                        *)
(***************************************************************************)

LEMMA ActiveSlot ==
    ASSUME NEW s, Typing(s)
    PROVE  ActiveName(s) \in SlotNames(s.specs.kind) /\ Active(s) \in Specs
<1>1. s.mode \in Modes /\ s.specs.kind \in Categories
  BY DEF Typing, Settings, Pairs
<1>2. ActiveName(s) \in SlotNames(s.specs.kind)
  BY <1>1, SlotNameSets DEF ActiveName
<1>3. QED
  BY <1>2 DEF Typing, Active

LEMMA UneditedSlot ==
    ASSUME NEW s \in Settings, NEW a \in AllAlgorithms
    PROVE  Unedited(Slot(a, s)) = Slot(a, s)
<1>1. Slot(a, s) \in Specs /\ Slot(a, s).edited = FALSE
  BY Read, SlotTyped
<1>2. QED
  BY <1>1 DEF Unedited, Specs

LEMMA SlotWritten ==
    ASSUME NEW s \in Settings, NEW n, NEW spec
    PROVE  [s EXCEPT !.specs.slot[n] = spec]
             = [s EXCEPT !.specs = [s.specs EXCEPT !.slot = [s.specs.slot EXCEPT ![n] = spec]]]
  OBVIOUS

LEMMA UpdateSound ==
    ASSUME NEW s, NEW m, Sound(s, m), NEW spec \in Specs,
           "shadowed" \notin m \/ s.category = "hash" => BuiltFor(spec, Algorithm(s), s),
           m \cap {"bare", "shadowed"} = {} => Unedited(spec) = Slot(Algorithm(s), s)
    PROVE  Sound(UpdateActive(s, spec), m)
<1> DEFINE name == ActiveName(s)
           slots == [s.specs.slot EXCEPT ![name] = spec]
           pair == [s.specs EXCEPT !.slot = slots]
           t == [s EXCEPT !.specs = pair]
<1>1. s \in Settings /\ s.specs \in Pairs /\ s.specs.slot \in [SlotNames(s.specs.kind) -> Specs]
      /\ name \in SlotNames(s.specs.kind)
  BY ActiveSlot DEF Sound, Typing, Settings
<1>2. UpdateActive(s, spec) = t
  <2>1. UpdateActive(s, spec) = [s EXCEPT !.specs.slot[ActiveName(s)] = spec]
    BY DEF UpdateActive
  <2>2. QED
    BY <1>1, <2>1, SlotWritten
<1>3. /\ slots \in [SlotNames(s.specs.kind) -> Specs]
      /\ \A n \in SlotNames(s.specs.kind) : slots[n] = IF n = name THEN spec ELSE s.specs.slot[n]
  BY <1>1
<1> HIDE DEF slots, name
<1>4. pair \in Pairs /\ pair.kind = s.specs.kind /\ pair.slot = slots
  BY <1>1, <1>3, SlotNameSets DEF Pairs
<1> HIDE DEF pair
<1>5. t \in Settings /\ SameButSpecs(s, t) /\ t.specs = pair
  BY <1>1, <1>4, SpecsReplaced
<1> HIDE DEF t
<1>6. Typing(t)
  BY <1>3, <1>4, <1>5 DEF Typing
<1>7. Algorithm(t) = Algorithm(s) /\ Slot(Algorithm(t), t) = Slot(Algorithm(s), s)
  BY <1>5, SlotReads DEF SameButSpecs, Algorithm
<1>8. Built(t, m)
  BY <1>3, <1>4, <1>5, <1>7 DEF Sound, Built, BuiltFor, SameButSpecs
<1>9. Described(t, m)
  BY <1>3, <1>4, <1>5, <1>7 DEF Sound, Described
<1>10. ModeFits(t) /\ PrngFits(t) /\ IvKept(t, m) /\ Untouched(t, m) /\ Remembered(t)
  BY <1>5, <1>7 DEF Sound, ModeFits, PrngFits, IvKept, Untouched, Remembered, SameButSpecs
<1>11. QED
  BY <1>2, <1>6, <1>8, <1>9, <1>10 DEF Sound

LEMMA EditSound ==
    ASSUME NEW s, NEW m, Sound(s, m)
    PROVE  Sound(UpdateActive(s, [Active(s) EXCEPT !.edited = TRUE]), m)
<1> DEFINE spec == [Active(s) EXCEPT !.edited = TRUE]
<1>1. ActiveName(s) \in SlotNames(s.specs.kind) /\ Active(s) \in Specs
  BY ActiveSlot DEF Sound
<1>2. /\ spec \in Specs /\ Unedited(spec) = Unedited(Active(s))
      /\ spec.algorithm = Active(s).algorithm /\ spec.keyLength = Active(s).keyLength
      /\ spec.outputLength = Active(s).outputLength
  BY <1>1 DEF Specs, Unedited
<1> HIDE DEF spec
<1>3. "shadowed" \notin m \/ s.category = "hash" => BuiltFor(spec, Algorithm(s), s)
  BY <1>1, <1>2 DEF Sound, Built, BuiltFor, Active
<1>4. m \cap {"bare", "shadowed"} = {} => Unedited(spec) = Slot(Algorithm(s), s)
  BY <1>1, <1>2 DEF Sound, Described, Active
<1>5. QED
  BY <1>2, <1>3, <1>4, UpdateSound DEF spec

LEMMA ResetSound ==
    ASSUME NEW s, NEW m, Sound(s, m)
    PROVE  Sound(ResetSpec(s), m)
<1> DEFINE a == s.chosen[s.specs.kind]
           spec == Slot(a, s)
<1>1. s \in Settings /\ s.specs.kind \in Categories
  BY DEF Sound, Typing, Settings, Pairs
<1>2. a \in AllAlgorithms /\ Readable(s)
  BY <1>1, Read, OfKinds
<1>3. spec \in Specs /\ spec.algorithm = a /\ Unedited(spec) = spec
  BY <1>1, <1>2, SlotTyped, UneditedSlot
<1>4. "shadowed" \notin m \/ s.category = "hash" => a = Algorithm(s)
  BY DEF Sound, Built, Algorithm
<1>5. "shadowed" \notin m \/ s.category = "hash" => BuiltFor(spec, Algorithm(s), s)
  BY <1>3, <1>4 DEF BuiltFor
<1>6. m \cap {"bare", "shadowed"} = {} => Unedited(spec) = Slot(Algorithm(s), s)
  BY <1>3, <1>4
<1> HIDE DEF spec
<1>7. QED
  BY <1>3, <1>5, <1>6, UpdateSound DEF ResetSpec, spec

\* The length in the active spec is the length of the default key, for a
\* user who has only selected.
LEMMA DefaultKeyFits ==
    ASSUME NEW s, Sound(s, {})
    PROVE  Active(s).keyLength = s.key.length
<1> DEFINE a == Algorithm(s)
<1>1. a \in AllAlgorithms
  BY Read DEF Sound, Typing
<1>2. Active(s).keyLength = Slot(a, s).keyLength
  BY ActiveSlot DEF Sound, Built, BuiltFor, Active
<1>3. a \in KmacHashes => a \notin Ciphers
  BY <1>1, OneKind, Subkinds, OfKinds DEF Categories
<1>4. Slot(a, s).keyLength = DefaultKey(a).length
  BY <1>3 DEF Slot, Sound, Untouched, DefaultKey, Sample
<1>5. QED
  BY <1>2, <1>4 DEF Sound, Untouched

\* A KMAC key is measured: where no hash is on screen, the spec of a hash
\* replaces the spec on screen.
LEMMA KmacLengthSound ==
    ASSUME NEW s, NEW m, Sound(s, m), NEW n, m \subseteq n, n # {},
           s.category = "hash" \/ "shadowed" \in n, IsKmac(s), NEW length \in Nat
    PROVE  Sound(SetKmacKeyLength(s, length), n)
<1> DEFINE t == SetKmacKeyLength(s, length)
<1>1. s \in Settings
  BY DEF Sound, Typing
<1>2. t \in Settings /\ SameButKmac(s, t) /\ Typing(t) /\ (s.category = "hash" => Fresh(t))
  BY <1>1, KmacLengthSet
<1> HIDE DEF t
<1>3. Built(t, n) /\ Described(t, n)
  <2>1. CASE s.category = "hash"
    BY <1>2, <2>1, FreshIsBuilt
  <2>2. CASE s.category # "hash"
    BY <1>2, <2>2 DEF Built, Described, SameButKmac
  <2>3. QED
    BY <2>1, <2>2
<1>4. ModeFits(t) /\ PrngFits(t) /\ IvKept(t, n) /\ Untouched(t, n) /\ Remembered(t)
  BY <1>2 DEF Sound, ModeFits, PrngFits, IvKept, Untouched, Remembered, SameButKmac, Algorithm
<1>5. QED
  BY <1>2, <1>3, <1>4 DEF Sound, t

\* What measuring the key may do to a hash that is chosen but not active.
Shadowing(s, t) == {x \in {"shadowed"} : t # s /\ s.category # "hash"}

LEMMA ResyncSound ==
    ASSUME NEW s, NEW m, Sound(s, m)
    PROVE  /\ Sound(Resynced(s), m \cup Shadowing(s, Resynced(s)))
           /\ SameButKmac(s, Resynced(s))
           /\ m = {} => Resynced(s) = s
           /\ Resynced(s) = CommitKey(s)
<1> DEFINE t == Resynced(s)
           measured == Resyncs(s)
           n == m \cup Shadowing(s, t)
<1>1. s \in Settings /\ s.key.length \in Nat
  BY DEF Sound, Typing, Settings, Samples
<1>2. m = {} => ~measured
  BY DefaultKeyFits DEF Resyncs
<1>3. t = IF measured THEN SetKmacKeyLength(s, s.key.length) ELSE s
  BY DEF Resynced
<1> HIDE DEF t
<1>4. CASE t = s
  BY <1>4, MoreMarks DEF SameButKmac, t, Resynced, Resyncs, CommitKey
<1>5. CASE t # s
  <2>1. measured /\ t = SetKmacKeyLength(s, s.key.length) /\ m # {}
    BY <1>2, <1>3, <1>5
  <2>2. SameButKmac(s, t)
    BY <1>1, <2>1, KmacLengthSet DEF Resyncs
  <2>3. s.category = "hash" \/ "shadowed" \in n
    BY <1>5 DEF Shadowing
  <2>4. Sound(t, n)
    BY <1>1, <2>1, <2>3, KmacLengthSound DEF Resyncs
  <2>5. QED
    BY <2>1, <2>2, <2>4 DEF t, Resynced, Resyncs, CommitKey
<1>6. QED
  BY <1>4, <1>5 DEF t

LEMMA ShakeLengthSound ==
    ASSUME NEW s, NEW m, Sound(s, m), Algorithm(s) \in XofHashes, NEW n \in Nat
    PROVE  Sound(SetShakeOutputLength(s, n), m)
<1> DEFINE length == AtLeastOne(n, MaxShakeOutput)
           t == [s EXCEPT !.xofLength = length]
           u == RebuiltHash(t)
<1>1. s \in Settings
  BY DEF Sound, Typing
<1>2. s.category = "hash"
  <2>1. s.category \in Categories /\ Algorithm(s) \in Of[s.category]
    BY <1>1, Read DEF Settings
  <2>2. QED
    BY <2>1, OneKind, Subkinds
<1>3. length \in 1..MaxShakeOutput
  BY DEF AtLeastOne, MaxShakeOutput
<1>4. SetShakeOutputLength(s, n) = IF t.chosen.hash \in XofHashes THEN u ELSE t
  BY DEF SetShakeOutputLength
<1> HIDE DEF length
<1>5. t \in Settings
  BY <1>1, <1>3 DEF Settings
<1>6. /\ t.category = s.category /\ t.chosen = s.chosen /\ t.mode = s.mode
      /\ t.cipherMode = s.cipherMode /\ t.padding = s.padding /\ t.iv = s.iv
      /\ t.input = s.input /\ t.key = s.key /\ t.kmacLength = s.kmacLength
      /\ t.prngLength = s.prngLength /\ t.forward = s.forward
  BY DEF Settings
<1> HIDE DEF t
<1>7. t.chosen.hash = Algorithm(s)
  BY <1>2, <1>6 DEF Algorithm
<1>8. u \in Settings /\ SameButSpecs(t, u) /\ Fresh(u)
  BY <1>2, <1>5, <1>6, HashRebuilt
<1> HIDE DEF u
<1>9. Typing(u) /\ Built(u, m) /\ Described(u, m)
  BY <1>8, FreshIsBuilt
<1>10. ModeFits(u) /\ PrngFits(u) /\ IvKept(u, m) /\ Untouched(u, m) /\ Remembered(u)
  BY <1>2, <1>6, <1>8 DEF Sound, ModeFits, PrngFits, IvKept, Untouched, Remembered, SameButSpecs,
                          Algorithm
<1>11. QED
  BY <1>4, <1>7, <1>9, <1>10 DEF Sound

LEMMA PrngLengthSound ==
    ASSUME NEW s, NEW m, Sound(s, m), Algorithm(s) \in Prngs, NEW n \in Nat
    PROVE  Sound(SetPrngOutputLength(s, n), m)
<1> DEFINE p == s.chosen.prng
           length == AtLeastOne(n, MaxPrngOutputFor(p))
           t == [s EXCEPT !.prngLength = length]
<1>1. s \in Settings
  BY DEF Sound, Typing
<1>2. s.category = "prng" /\ "prng" \in Categories /\ p \in Prngs
  <2>1. s.category \in Categories /\ Algorithm(s) \in Of[s.category]
    BY <1>1, Read DEF Settings
  <2>2. QED
    BY <1>1, <2>1, OneKind, Read DEF Categories
<1>3. length \in 1..1024
  <2>1. MaxPrngOutputFor(p) \in 1..1024
    BY Clamped
  <2> HIDE DEF p
  <2>2. QED
    BY <2>1 DEF AtLeastOne
<1>4. SetPrngOutputLength(s, n) = SetAlgorithm(t, "prng", p)
  BY DEF SetPrngOutputLength, SetAlgorithm
<1> HIDE DEF length
<1>5. t \in Settings
  BY <1>1, <1>3 DEF Settings
<1>6. /\ t.iv = s.iv /\ t.input = s.input /\ t.key = s.key /\ t.mode = s.mode
      /\ t.padding = s.padding /\ t.cipherMode = s.cipherMode /\ t.kmacLength = s.kmacLength
      /\ t.chosen = s.chosen
  BY DEF Settings
<1> HIDE DEF t
<1>7. p = Algorithm(s)
  BY <1>2 DEF Algorithm
<1>8. FieldsFor(p, t, m) /\ ModeFits(t) /\ IvKept(t, m)
  BY <1>6, <1>7 DEF FieldsFor, Sound, Untouched, ModeFits, IvKept
<1>9. p \in Of["prng"] /\ p \notin RestoresForwardInput
  BY <1>2, OneKind, OfKinds, Subkinds
<1>10. QED
  BY <1>2, <1>4, <1>5, <1>8, <1>9, SelectionSound

-----------------------------------------------------------------------------
(***************************************************************************)
(* Documents.                                                              *)
(***************************************************************************)

LEMMA EqualSpecs ==
    ASSUME NEW x \in Specs, NEW y \in Specs,
           x.algorithm = y.algorithm, x.cipherMode = y.cipherMode, x.padding = y.padding,
           x.keyLength = y.keyLength, x.outputLength = y.outputLength, x.edited = y.edited
    PROVE  x = y
  BY DEF Specs

\* A canonical spec is the canonical one of the lengths it has.
LEMMA SlotAgain ==
    ASSUME NEW s, Readable(s), NEW a \in AllAlgorithms, NEW spec \in Specs, BuiltFor(spec, a, s),
           NEW r, r.kmacLength = spec.keyLength,
           r.xofLength = spec.outputLength, r.prngLength = spec.outputLength
    PROVE  /\ Slot(a, r).keyLength = Slot(a, s).keyLength
           /\ Slot(a, r).outputLength = Slot(a, s).outputLength
           /\ r.cipherMode = s.cipherMode /\ r.padding = s.padding => Slot(a, r) = Slot(a, s)
<1>1. Slot(a, r).keyLength = Slot(a, s).keyLength
  BY DEF Slot, BuiltFor
<1>2. Slot(a, r).outputLength = Slot(a, s).outputLength
  <2>1. CASE a \in XofHashes
    <3>1. a \notin Prngs
      BY <2>1, OneKind, Subkinds, OfKinds DEF Categories
    <3>2. QED
      BY <2>1, <3>1 DEF Slot, BuiltFor
  <2>2. CASE a \in Prngs
    <3> DEFINE top == MaxPrngOutputFor(a)
               length == AtLeastOne(s.prngLength, top)
    <3>1. a \notin XofHashes
      BY <2>2, OneKind, Subkinds, OfKinds DEF Categories
    <3>2. Slot(a, s).outputLength = length /\ Slot(a, r).outputLength = AtLeastOne(r.prngLength, top)
      BY <2>2, <3>1 DEF Slot
    <3>3. r.prngLength = length
      BY <3>2 DEF BuiltFor
    <3>a. top \in 1..1024
      BY Clamped
    <3> HIDE DEF top
    <3>4. top \in Nat \ {0} /\ top \in Nat
      BY <3>a
    <3>5. length \in 1..top
      BY <3>4, Clamped DEF Readable
    <3> HIDE DEF length
    <3>6. AtLeastOne(length, top) = length
      BY <3>4, <3>5, Clamped
    <3>7. QED
      BY <3>2, <3>3, <3>6
  <2>3. CASE a \notin XofHashes /\ a \notin Prngs
    BY <2>3 DEF Slot
  <2>4. QED
    BY <2>1, <2>2, <2>3
<1>3. ASSUME r.cipherMode = s.cipherMode, r.padding = s.padding
      PROVE  Slot(a, r) = Slot(a, s)
  <2>1. Readable(r)
    BY <1>3 DEF Readable, Specs
  <2>2. Slot(a, r) \in Specs /\ Slot(a, s) \in Specs
        /\ Slot(a, r).algorithm = a /\ Slot(a, s).algorithm = a
        /\ Slot(a, r).edited = FALSE /\ Slot(a, s).edited = FALSE
    BY <2>1, SlotTyped
  <2>3. Slot(a, r).cipherMode = Slot(a, s).cipherMode /\ Slot(a, r).padding = Slot(a, s).padding
    BY <1>3 DEF Slot
  <2>4. QED
    BY <1>1, <1>2, <2>2, <2>3, EqualSpecs
<1>4. QED
  BY <1>1, <1>2, <1>3

LEMMA SessionTyped ==
    ASSUME NEW s \in Settings
    PROVE  Session(s) \in Sessions
<1>1. (IF s.cipherMode \in IvModes THEN s.iv ELSE NoBytes) \in Samples
  BY OtherSamples DEF Settings
<1>2. s.chosen.cipher \in Ciphers
  BY Read
<1>3. QED
  BY <1>1, <1>2 DEF Session, Sessions, Settings

LEMMA DocumentSound ==
    ASSUME NEW s, Sound(s, marks), marks \subseteq Marks, NEW full \in BOOLEAN
    PROVE  FileSound(Document(s, full))
<1> DEFINE a == Algorithm(s)
           spec == Active(s)
           d == Document(s, full)
           session == IF full THEN Session(s) ELSE NoSession
<1>1. s \in Settings /\ a \in AllAlgorithms /\ a \in Of[s.category] /\ s.category \in Categories
      /\ Readable(s)
  BY Read DEF Sound, Typing, Settings
<1>2. ActiveName(s) \in SlotNames(s.specs.kind) /\ spec \in Specs
  BY ActiveSlot DEF Sound
<1>3. /\ session \in Sessions \cup {NoSession} /\ (~full => session = NoSession)
      /\ full => session = Session(s) /\ session \in Sessions
  BY <1>1, SessionTyped
<1> HIDE DEF session
<1>4. /\ d.algorithm = a /\ d.spec = spec /\ d.full = full /\ d.session = session
      /\ d.marks = marks \cap {"bare", "shadowed"}
  BY DEF Document, session
<1>5. d \in Files
  BY <1>1, <1>2, <1>3 DEF Document, Files, session
<1> HIDE DEF d, spec
<1>6. /\ SettingsOf(d).kmacLength = spec.keyLength /\ SettingsOf(d).xofLength = spec.outputLength
      /\ SettingsOf(d).prngLength = spec.outputLength
      /\ SettingsOf(d).cipherMode = session.cipherMode /\ SettingsOf(d).padding = session.padding
  BY <1>4 DEF SettingsOf
<1>7. ASSUME "shadowed" \notin d.marks \/ d.algorithm \in Hashes
      PROVE  BuiltFor(spec, a, s)
  <2>1. "shadowed" \notin marks \/ s.category = "hash"
    BY <1>1, <1>4, <1>7, OneKind
  <2>2. QED
    BY <1>2, <2>1 DEF Sound, Built, spec, Active
<1>8. ASSUME "shadowed" \notin d.marks \/ d.algorithm \in Hashes
      PROVE  /\ BuiltFor(d.spec, d.algorithm, SettingsOf(d))
             /\ d.algorithm \in KmacHashes => d.spec.keyLength \in 1..MaxKmacKeyLength
             /\ d.algorithm \in XofHashes => d.spec.outputLength \in 1..MaxShakeOutput
  <2>1. BuiltFor(spec, a, s)
    BY <1>7, <1>8
  <2>2. /\ Slot(a, SettingsOf(d)).keyLength = Slot(a, s).keyLength
        /\ Slot(a, SettingsOf(d)).outputLength = Slot(a, s).outputLength
    BY <1>1, <1>2, <1>6, <2>1, SlotAgain DEF spec
  <2>3. a \in KmacHashes => spec.keyLength = s.kmacLength
    BY <2>1 DEF BuiltFor, Slot
  <2>4. a \in XofHashes => spec.outputLength = s.xofLength
    <3>1. a \in XofHashes => a \notin Prngs
      BY <1>1, OneKind, Subkinds, OfKinds DEF Categories
    <3>2. QED
      BY <2>1, <3>1 DEF BuiltFor, Slot
  <2>5. s.kmacLength \in 1..MaxKmacKeyLength /\ s.xofLength \in 1..MaxShakeOutput
    BY <1>1 DEF Settings
  <2>6. BuiltFor(spec, a, SettingsOf(d))
    BY <2>1, <2>2 DEF BuiltFor
  <2>7. QED
    BY <1>4, <2>3, <2>4, <2>5, <2>6
<1>9. ASSUME d.full, d.marks = {}
      PROVE  Unedited(d.spec) = Slot(d.algorithm, SettingsOf(d))
  <2>1. Unedited(spec) = Slot(a, s)
    BY <1>2, <1>4, <1>9 DEF Sound, Described, spec, Active
  <2>2. SettingsOf(d).cipherMode = s.cipherMode /\ SettingsOf(d).padding = s.padding
    BY <1>3, <1>4, <1>6, <1>9 DEF Session
  <2>3. Slot(a, SettingsOf(d)) = Slot(a, s)
    BY <1>1, <1>2, <1>6, <1>7, <1>9, <2>2, SlotAgain DEF spec
  <2>4. QED
    BY <1>4, <2>1, <2>3
<1>10. ASSUME d.full, d.algorithm \in Ciphers
       PROVE  /\ d.session.cipherMode \in SupportedCipherModes(d.algorithm)
              /\ d.session.cipherMode \in IvModes /\ "bare" \notin d.marks
                 => d.session.iv.length = IvByteLength(d.algorithm)
              /\ d.session.cipherMode \notin IvModes => d.session.iv = NoBytes
  <2>1. s.category = "cipher" /\ a = s.chosen.cipher
    BY <1>1, <1>4, <1>10, OneKind DEF Algorithm
  <2>2. d.session.cipherMode = s.cipherMode
        /\ d.session.iv = IF s.cipherMode \in IvModes THEN s.iv ELSE NoBytes
    BY <1>3, <1>4, <1>10 DEF Session
  <2>3. QED
    BY <1>4, <2>1, <2>2 DEF Sound, ModeFits, IvKept
<1>11. FileSound(d)
  BY <1>3, <1>4, <1>5, <1>8, <1>9, <1>10 DEF FileSound
<1>12. QED
  BY <1>11 DEF d

\* Written over settings that the document's spec is built for, the pair is sound.
LEMMA WithSpecSound ==
    ASSUME NEW t \in Settings, NEW d, FileSound(d), NEW n, n # {},
           ModeFits(t), PrngFits(t), IvKept(t, n), Remembered(t), Algorithm(t) = d.algorithm,
           "shadowed" \notin n \/ t.category = "hash" => BuiltFor(d.spec, d.algorithm, t),
           n \cap {"bare", "shadowed"} = {} => Unedited(d.spec) = Slot(d.algorithm, t)
    PROVE  /\ Sound(WithSpec(t, t.category, d), n)
           /\ SameButSpecs(t, WithSpec(t, t.category, d))
           /\ Active(WithSpec(t, t.category, d)) = d.spec
<1> DEFINE a == d.algorithm
           c == t.category
           slots == [x \in SlotNames(c) |-> IF x \in {"single", t.mode} THEN d.spec ELSE Slot(a, t)]
           pair == [kind |-> c, slot |-> slots]
           u == [t EXCEPT !.specs = pair]
<1>1. c \in Categories /\ a \in AllAlgorithms /\ Readable(t) /\ d.spec \in Specs /\ t.mode \in Modes
  BY Read DEF Settings, FileSound, Files
<1>2. Slot(a, t) \in Specs /\ Unedited(Slot(a, t)) = Slot(a, t)
  BY <1>1, SlotTyped, UneditedSlot
<1>3. /\ slots \in [SlotNames(c) -> Specs]
      /\ \A x \in SlotNames(c) : slots[x] \in {d.spec, Slot(a, t)}
      /\ \A x \in SlotNames(c) : x \in {"single", t.mode} => slots[x] = d.spec
  BY <1>1, <1>2
<1>4. WithSpec(t, c, d) = u
  BY DEF WithSpec
<1> HIDE DEF slots
<1>5. pair \in Pairs /\ pair.kind = c /\ pair.slot = slots
  BY <1>1, <1>3, SlotNameSets DEF Pairs
<1> HIDE DEF pair
<1>6. u \in Settings /\ SameButSpecs(t, u) /\ u.specs = pair
  BY <1>5, SpecsReplaced
<1> HIDE DEF u
<1>7. Typing(u)
  BY <1>3, <1>5, <1>6 DEF Typing
<1>8. Algorithm(u) = a /\ Slot(a, u) = Slot(a, t) /\ u.category = c
  BY <1>6, SlotReads DEF SameButSpecs, Algorithm
<1>9. Built(u, n)
  <2>1. BuiltFor(Slot(a, t), a, t)
    BY <1>1, SlotTyped DEF BuiltFor
  <2>2. QED
    BY <2>1, <1>3, <1>5, <1>6, <1>8 DEF Built, BuiltFor
<1>10. Described(u, n)
  BY <1>2, <1>3, <1>5, <1>6, <1>8 DEF Described
<1>11. ModeFits(u) /\ PrngFits(u) /\ IvKept(u, n) /\ Untouched(u, n) /\ Remembered(u)
  BY <1>6, <1>8 DEF ModeFits, PrngFits, IvKept, Untouched, Remembered, SameButSpecs
<1>12. Active(u) = d.spec
  <2>1. ActiveName(u) \in SlotNames(c) /\ ActiveName(u) \in {"single", t.mode}
    BY <1>1, <1>5, <1>6, SlotNameSets DEF ActiveName, SameButSpecs
  <2>2. QED
    BY <2>1, <1>3, <1>5, <1>6 DEF Active
<1>13. QED
  BY <1>4, <1>6, <1>7, <1>9, <1>10, <1>11, <1>12 DEF Sound

\* The settings have the lengths that the document's spec was built with.
LengthsOf(d, t) ==
    /\ d.algorithm \in KmacHashes => t.kmacLength = d.spec.keyLength
    /\ d.algorithm \in XofHashes => t.xofLength = d.spec.outputLength
    /\ d.algorithm \in Prngs
       => t.prngLength = AtLeastOne(d.spec.outputLength, MaxPrngOutputFor(d.algorithm))

LEMMA LengthsLoad ==
    ASSUME NEW t \in Settings, NEW d, FileSound(d), LengthsOf(d, t)
    PROVE  /\ Slot(d.algorithm, t).keyLength = Slot(d.algorithm, SettingsOf(d)).keyLength
           /\ Slot(d.algorithm, t).outputLength = Slot(d.algorithm, SettingsOf(d)).outputLength
<1> DEFINE a == d.algorithm
           r == SettingsOf(d)
<1>1. r.kmacLength = d.spec.keyLength /\ r.xofLength = d.spec.outputLength
      /\ r.prngLength = d.spec.outputLength
  BY DEF SettingsOf
<1> HIDE DEF r
<1>2. Slot(a, t).keyLength = Slot(a, r).keyLength
  BY <1>1 DEF Slot, LengthsOf
<1>3. a \in AllAlgorithms /\ (a \in XofHashes => a \notin Prngs)
  <2>1. a \in AllAlgorithms
    BY DEF FileSound, Files
  <2>2. QED
    BY <2>1, KindOf, OneKind, Subkinds
<1>4. CASE a \in XofHashes
  BY <1>1, <1>3, <1>4 DEF Slot, LengthsOf, r
<1>5. CASE a \in Prngs
  <2> DEFINE top == MaxPrngOutputFor(a)
             length == AtLeastOne(d.spec.outputLength, top)
  <2>1. Slot(a, r).outputLength = length /\ Slot(a, t).outputLength = AtLeastOne(t.prngLength, top)
    BY <1>1, <1>3, <1>5 DEF Slot
  <2>2. t.prngLength = length
    BY <1>5 DEF LengthsOf
  <2>3. top \in 1..1024 /\ d.spec.outputLength \in Nat
    BY Clamped DEF FileSound, Files, Specs
  <2> HIDE DEF top
  <2>4. top \in Nat \ {0} /\ top \in Nat
    BY <2>3
  <2>5. length \in 1..top
    BY <2>3, <2>4, Clamped
  <2> HIDE DEF length
  <2>6. AtLeastOne(length, top) = length
    BY <2>4, <2>5, Clamped
  <2>7. QED
    BY <1>2, <2>1, <2>2, <2>6 DEF r
<1>6. CASE a \notin XofHashes /\ a \notin Prngs
  BY <1>2, <1>6 DEF Slot, r
<1>7. QED
  BY <1>2, <1>4, <1>5, <1>6 DEF r

LEMMA SelectionsLoad ==
    ASSUME NEW t \in Settings, NEW d, FileSound(d), LengthsOf(d, t), d.full, d.marks = {},
           d.algorithm \in Ciphers
           => t.cipherMode = d.session.cipherMode /\ t.padding = d.session.padding
    PROVE  Unedited(d.spec) = Slot(d.algorithm, t)
<1> DEFINE a == d.algorithm
           r == SettingsOf(d)
<1>1. a \in AllAlgorithms /\ Readable(t)
  BY Read DEF FileSound, Files
<1>2. Readable(r) /\ r.cipherMode = d.session.cipherMode /\ r.padding = d.session.padding
  BY DEF FileSound, Files, Sessions, Specs, SettingsOf, Readable
<1>3. /\ Slot(a, t).keyLength = Slot(a, r).keyLength
      /\ Slot(a, t).outputLength = Slot(a, r).outputLength
  BY LengthsLoad
<1> HIDE DEF r
<1>4. Slot(a, t).cipherMode = Slot(a, r).cipherMode /\ Slot(a, t).padding = Slot(a, r).padding
  <2>1. CASE a \in Ciphers
    BY <1>2, <2>1 DEF Slot
  <2>2. CASE a \notin Ciphers
    BY <2>2 DEF Slot
  <2>3. QED
    BY <2>1, <2>2
<1>5. /\ Slot(a, t) \in Specs /\ Slot(a, t).algorithm = a /\ Slot(a, t).edited = FALSE
      /\ Slot(a, r) \in Specs /\ Slot(a, r).algorithm = a /\ Slot(a, r).edited = FALSE
  BY <1>1, <1>2, SlotTyped
<1>6. Slot(a, t) = Slot(a, r)
  BY <1>3, <1>4, <1>5, EqualSpecs
<1>7. QED
  BY <1>6 DEF FileSound, r

\* The marks of a load.
LoadMarks(n, m, d) ==
    /\ m \subseteq n /\ "touched" \in n /\ d.marks \subseteq n
    /\ ~d.full => "bare" \in n

\* What a load takes from the document.
Brings(u, d) ==
    /\ Algorithm(u) = d.algorithm /\ Active(u) = d.spec
    /\ d.full /\ Directed(d.algorithm) => u.mode = d.session.mode
    /\ d.full /\ d.algorithm \in Ciphers =>
           /\ u.cipherMode = d.session.cipherMode /\ u.padding = d.session.padding
           /\ d.session.iv # NoBytes => u.iv = d.session.iv

LEMMA CipherLoaded ==
    ASSUME NEW s, NEW m, Sound(s, m), NEW d, FileSound(d), d.algorithm \in Ciphers,
           NEW n, LoadMarks(n, m, d)
    PROVE  Sound(LoadCipher(s, d), n) /\ Brings(LoadCipher(s, d), d)
<1> DEFINE a == d.algorithm
           chosen == [s.chosen EXCEPT !.cipher = a]
           kept == IF s.cipherMode \in SupportedCipherModes(a) THEN s.cipherMode
                   ELSE DefaultCipherMode(a)
           cipherMode == IF d.full THEN d.session.cipherMode ELSE kept
           padding == IF d.full THEN d.session.padding ELSE s.padding
           mode == IF d.full THEN d.session.mode ELSE s.mode
           iv == IF d.full /\ d.session.iv # NoBytes THEN d.session.iv ELSE s.iv
           s1 == [s EXCEPT !.category = "cipher"]
           s2 == [s1 EXCEPT !.chosen = chosen]
           s3 == [s2 EXCEPT !.cipherMode = cipherMode]
           s4 == [s3 EXCEPT !.padding = padding]
           s5 == [s4 EXCEPT !.mode = mode]
           t == [s5 EXCEPT !.iv = iv]
<1>1. s \in Settings /\ d \in Files /\ (d.full => d.session \in Sessions)
  BY DEF Sound, Typing, FileSound
<1>2. cipherMode \in SupportedCipherModes(a) /\ cipherMode \in CipherModes
  <2>1. CASE d.full
    BY <2>1, SupportedModes DEF FileSound
  <2>2. CASE ~d.full
    BY <2>2, SupportedModes
  <2>3. QED
    BY <2>1, <2>2
<1>3. padding \in PaddingSchemes /\ mode \in Modes /\ iv \in Samples
  BY <1>1 DEF Sessions, Settings
<1>4. chosen \in Choices /\ chosen["cipher"] = a /\ chosen.cipher = a
  BY <1>1, OfKinds DEF Settings, Choices, Categories
<1>5. LoadCipher(s, d) = WithSpec(t, "cipher", d)
  <2> DEFINE v == [s EXCEPT !.category = "cipher", !.chosen.cipher = a]
  <2>1. v = s2
    BY <1>1 DEF Settings
  <2>2. v.cipherMode = s.cipherMode /\ v.padding = s.padding /\ v.mode = s.mode /\ v.iv = s.iv
    BY <1>1 DEF Settings
  <2>3. LoadCipher(s, d)
          = WithSpec(IF d.full
                     THEN [v EXCEPT !.cipherMode = d.session.cipherMode,
                                    !.padding = d.session.padding, !.mode = d.session.mode,
                                    !.iv = IF d.session.iv # NoBytes THEN d.session.iv ELSE v.iv]
                     ELSE [v EXCEPT !.cipherMode = IF v.cipherMode \in SupportedCipherModes(a)
                                                   THEN v.cipherMode
                                                   ELSE DefaultCipherMode(a)], "cipher", d)
    BY DEF LoadCipher
  <2>4. v \in Settings
    <3>1. s1 \in Settings
      BY <1>1 DEF Settings, Categories
    <3>2. s2 = [s1 EXCEPT !.chosen = chosen]
      OBVIOUS
    <3> HIDE DEF chosen, s1, s2, v
    <3>3. QED
      BY <1>4, <2>1, <3>1, <3>2 DEF Settings
  <2> HIDE DEF v
  <2>5. CASE d.full
    BY <2>1, <2>2, <2>3, <2>5
  <2>6. CASE ~d.full
    <3>1. t = [v EXCEPT !.cipherMode = kept, !.padding = v.padding, !.mode = v.mode, !.iv = v.iv]
      <4>1. cipherMode = kept /\ padding = v.padding /\ mode = v.mode /\ iv = v.iv
        BY <2>2, <2>6
      <4> HIDE DEF cipherMode, kept, padding, mode, iv, s2
      <4>2. QED
        BY <2>1, <4>1
    <3>2. t = [v EXCEPT !.cipherMode = kept]
      <4> DEFINE w == [v EXCEPT !.cipherMode = kept]
      <4>1. w \in Settings
        <5>1. kept \in CipherModes
          BY <1>2, <2>6
        <5> HIDE DEF kept
        <5>2. QED
          BY <2>4, <5>1 DEF Settings
      <4>2. t = [[[w EXCEPT !.padding = v.padding] EXCEPT !.mode = v.mode] EXCEPT !.iv = v.iv]
        BY <3>1
      <4>3. w.padding = v.padding /\ w.mode = v.mode /\ w.iv = v.iv
        BY <2>4 DEF Settings
      <4> HIDE DEF w, t
      <4>4. t = w
        BY <4>1, <4>2, <4>3, SameField
      <4>5. QED
        BY <4>4 DEF w
    <3>3. LoadCipher(s, d)
            = WithSpec([v EXCEPT !.cipherMode = IF v.cipherMode \in SupportedCipherModes(a)
                                                THEN v.cipherMode
                                                ELSE DefaultCipherMode(a)], "cipher", d)
      BY <2>3, <2>6
    <3>4. (IF v.cipherMode \in SupportedCipherModes(a) THEN v.cipherMode ELSE DefaultCipherMode(a))
             = kept
      BY <2>2
    <3> HIDE DEF t, kept
    <3>5. QED
      BY <3>2, <3>3, <3>4
  <2>7. QED
    BY <2>5, <2>6
<1> HIDE DEF chosen, cipherMode, padding, mode, iv
<1>7. t \in Settings
  <2>1. s1 \in Settings
    BY <1>1 DEF Settings, Categories
  <2>2. s2 \in Settings
    <3> HIDE DEF s1
    <3>1. QED
      BY <1>4, <2>1 DEF Settings
  <2>3. s3 \in Settings
    <3> HIDE DEF s2
    <3>1. QED
      BY <1>2, <2>2 DEF Settings
  <2>4. s4 \in Settings
    <3> HIDE DEF s3
    <3>1. QED
      BY <1>3, <2>3 DEF Settings
  <2>5. s5 \in Settings
    <3> HIDE DEF s4
    <3>1. QED
      BY <1>3, <2>4 DEF Settings
  <2> HIDE DEF s5
  <2>6. QED
    BY <1>3, <2>5 DEF Settings
<1>8. /\ t.category = "cipher" /\ t.chosen = chosen /\ t.cipherMode = cipherMode
      /\ t.padding = padding /\ t.mode = mode /\ t.iv = iv /\ Algorithm(t) = a
  BY <1>1, <1>4 DEF Settings, Algorithm
<1> HIDE DEF t
<1>9. a \notin Hashes /\ a \notin Prngs /\ a \notin Asymmetrics
  BY OneKind, OfKinds DEF Categories
<1>10. LengthsOf(d, t)
  BY <1>9, Subkinds DEF LengthsOf
<1>11. "shadowed" \notin n \/ t.category = "hash" => BuiltFor(d.spec, a, t)
  BY <1>7, <1>8, <1>10, LengthsLoad DEF FileSound, LoadMarks, BuiltFor
<1>12. n \cap {"bare", "shadowed"} = {} => Unedited(d.spec) = Slot(a, t)
  <2> SUFFICES ASSUME n \cap {"bare", "shadowed"} = {}
               PROVE  Unedited(d.spec) = Slot(a, t)
    OBVIOUS
  <2>1. d.full /\ d.marks = {}
    BY <1>1 DEF LoadMarks, Files
  <2>2. QED
    BY <1>7, <1>8, <1>10, <2>1, SelectionsLoad DEF cipherMode, padding
<1>13. IvKept(t, n)
  <2> SUFFICES ASSUME cipherMode \in IvModes, "bare" \notin n
               PROVE  iv.length = IvByteLength(a)
    BY <1>4, <1>8 DEF IvKept
  <2>1. d.full /\ "bare" \notin d.marks
    BY DEF LoadMarks
  <2>2. d.session.iv.length = IvByteLength(a)
    BY <2>1 DEF FileSound, cipherMode
  <2>3. d.session.iv # NoBytes
    BY <2>2, BlockLengths DEF NoBytes, Sample
  <2>4. QED
    BY <2>1, <2>2, <2>3 DEF iv
<1>14. ModeFits(t) /\ PrngFits(t) /\ Remembered(t) /\ n # {}
  BY <1>2, <1>4, <1>8, <1>9, Subkinds DEF ModeFits, PrngFits, Remembered, LoadMarks
<1>15. /\ Sound(WithSpec(t, "cipher", d), n) /\ SameButSpecs(t, WithSpec(t, "cipher", d))
       /\ Active(WithSpec(t, "cipher", d)) = d.spec
  BY <1>7, <1>8, <1>11, <1>12, <1>13, <1>14, WithSpecSound
<1>16. Brings(WithSpec(t, "cipher", d), d)
  BY <1>8, <1>15 DEF Brings, SameButSpecs, Algorithm, cipherMode, padding, mode, iv
<1>17. QED
  BY <1>5, <1>15, <1>16

LEMMA HashLoaded ==
    ASSUME NEW s, NEW m, Sound(s, m), NEW d, FileSound(d), d.algorithm \in Hashes,
           NEW n, LoadMarks(n, m, d)
    PROVE  Sound(LoadHash(s, d), n) /\ Brings(LoadHash(s, d), d)
<1> DEFINE a == d.algorithm
           chosen == [s.chosen EXCEPT !.hash = a]
           xofLength == IF a \in XofHashes THEN d.spec.outputLength ELSE s.xofLength
           kmacLength == IF a \in KmacHashes THEN d.spec.keyLength ELSE s.kmacLength
           s1 == [s EXCEPT !.category = "hash"]
           s2 == [s1 EXCEPT !.chosen = chosen]
           s3 == [s2 EXCEPT !.xofLength = xofLength]
           t == [s3 EXCEPT !.kmacLength = kmacLength]
<1>1. s \in Settings /\ d \in Files
  BY DEF Sound, Typing, FileSound
<1>2. xofLength \in 1..MaxShakeOutput /\ kmacLength \in 1..MaxKmacKeyLength
  BY <1>1 DEF FileSound, Settings
<1>3. /\ chosen \in Choices /\ chosen["hash"] = a /\ chosen.hash = a
      /\ chosen.cipher = s.chosen.cipher
  BY <1>1, OfKinds DEF Settings, Choices, Categories
<1>4. LoadHash(s, d) = WithSpec(t, "hash", d)
  <2> DEFINE v == [s EXCEPT !.category = "hash", !.chosen.hash = a, !.xofLength = xofLength,
                            !.kmacLength = kmacLength]
  <2>1. v = t
    BY <1>1 DEF Settings
  <2>2. LoadHash(s, d) = WithSpec(v, "hash", d)
    BY <1>1 DEF LoadHash, Settings
  <2> HIDE DEF v, t
  <2>3. QED
    BY <2>1, <2>2
<1> HIDE DEF chosen, xofLength, kmacLength
<1>5. t \in Settings
  <2>1. s1 \in Settings
    BY <1>1 DEF Settings, Categories
  <2>2. s2 \in Settings
    <3> HIDE DEF s1
    <3>1. QED
      BY <1>3, <2>1 DEF Settings
  <2>3. s3 \in Settings
    <3> HIDE DEF s2
    <3>1. QED
      BY <1>2, <2>2 DEF Settings
  <2> HIDE DEF s3
  <2>4. QED
    BY <1>2, <2>3 DEF Settings
<1>6. /\ t.category = "hash" /\ t.chosen = chosen /\ t.xofLength = xofLength
      /\ t.kmacLength = kmacLength /\ t.cipherMode = s.cipherMode /\ t.iv = s.iv
      /\ Algorithm(t) = a
  BY <1>1, <1>3 DEF Settings, Algorithm
<1> HIDE DEF t
<1>7. a \notin Ciphers /\ a \notin Prngs /\ a \notin Asymmetrics /\ ~Directed(a)
  BY OneKind, OfKinds DEF Categories, Directed
<1>8. LengthsOf(d, t)
  BY <1>6, <1>7 DEF LengthsOf, xofLength, kmacLength
<1>9. BuiltFor(d.spec, a, t)
  BY <1>5, <1>8, LengthsLoad DEF FileSound, BuiltFor
<1>10. n \cap {"bare", "shadowed"} = {} => Unedited(d.spec) = Slot(a, t)
  <2> SUFFICES ASSUME n \cap {"bare", "shadowed"} = {}
               PROVE  Unedited(d.spec) = Slot(a, t)
    OBVIOUS
  <2>1. d.full /\ d.marks = {}
    BY <1>1 DEF LoadMarks, Files
  <2>2. QED
    BY <1>5, <1>7, <1>8, <2>1, SelectionsLoad
<1>11. IvKept(t, n) /\ ModeFits(t) /\ PrngFits(t) /\ Remembered(t) /\ n # {}
  BY <1>3, <1>6, <1>7, Subkinds DEF Sound, IvKept, ModeFits, PrngFits, Remembered, LoadMarks
<1>12. /\ Sound(WithSpec(t, "hash", d), n) /\ SameButSpecs(t, WithSpec(t, "hash", d))
       /\ Active(WithSpec(t, "hash", d)) = d.spec
  BY <1>5, <1>6, <1>9, <1>10, <1>11, WithSpecSound
<1>13. Brings(WithSpec(t, "hash", d), d)
  BY <1>6, <1>7, <1>12 DEF Brings, SameButSpecs, Algorithm
<1>14. QED
  BY <1>4, <1>12, <1>13

LEMMA PrngLoaded ==
    ASSUME NEW s, NEW m, Sound(s, m), NEW d, FileSound(d), d.algorithm \in Prngs,
           NEW n, LoadMarks(n, m, d)
    PROVE  Sound(LoadPrng(s, d), n) /\ Brings(LoadPrng(s, d), d)
<1> DEFINE a == d.algorithm
           chosen == [s.chosen EXCEPT !.prng = a]
           length == AtLeastOne(d.spec.outputLength, MaxPrngOutputFor(a))
           s1 == [s EXCEPT !.category = "prng"]
           s2 == [s1 EXCEPT !.chosen = chosen]
           t == [s2 EXCEPT !.prngLength = length]
<1>1. s \in Settings /\ d \in Files
  BY DEF Sound, Typing, FileSound
<1>2. length \in 1..1024 /\ length <= MaxPrngOutputFor(a)
  <2>1. MaxPrngOutputFor(a) \in 1..1024 /\ d.spec.outputLength \in Nat
    BY <1>1, Clamped DEF Files, Specs
  <2> DEFINE top == MaxPrngOutputFor(a)
             given == d.spec.outputLength
  <2>2. top \in 1..1024 /\ given \in Nat /\ length = AtLeastOne(given, top)
    BY <2>1
  <2> HIDE DEF top, given, length
  <2>3. length \in 1..1024 /\ length <= top
    BY <2>2 DEF AtLeastOne
  <2>4. QED
    BY <2>3 DEF top
<1>3. /\ chosen \in Choices /\ chosen["prng"] = a /\ chosen.prng = a
      /\ chosen.cipher = s.chosen.cipher
  BY <1>1, OfKinds DEF Settings, Choices, Categories
<1>4. LoadPrng(s, d) = WithSpec(t, "prng", d)
  <2> DEFINE v == [s EXCEPT !.category = "prng", !.chosen.prng = a, !.prngLength = length]
  <2>1. v = t
    BY <1>1 DEF Settings
  <2>2. LoadPrng(s, d) = WithSpec(v, "prng", d)
    BY DEF LoadPrng
  <2> HIDE DEF v, t
  <2>3. QED
    BY <2>1, <2>2
<1>l. length = AtLeastOne(d.spec.outputLength, MaxPrngOutputFor(a))
  OBVIOUS
<1> HIDE DEF chosen, length
<1>5. t \in Settings
  <2>1. s1 \in Settings
    BY <1>1 DEF Settings, Categories
  <2>2. s2 \in Settings
    <3> HIDE DEF s1
    <3>1. QED
      BY <1>3, <2>1 DEF Settings
  <2> HIDE DEF s2
  <2>3. length \in 1..1024
    BY <1>2
  <2>4. QED
    BY <2>2, <2>3 DEF Settings
<1>6. /\ t.category = "prng" /\ t.chosen = chosen /\ t.prngLength = length
      /\ t.cipherMode = s.cipherMode /\ t.iv = s.iv /\ Algorithm(t) = a
  BY <1>1, <1>3 DEF Settings, Algorithm
<1> HIDE DEF t
<1>7. a \notin Ciphers /\ a \notin Hashes /\ a \notin Asymmetrics /\ ~Directed(a)
  BY OneKind, OfKinds DEF Categories, Directed
<1>8. LengthsOf(d, t)
  BY <1>6, <1>7, <1>l, Subkinds DEF LengthsOf
<1>9. "shadowed" \notin n \/ t.category = "hash" => BuiltFor(d.spec, a, t)
  BY <1>5, <1>6, <1>8, LengthsLoad DEF FileSound, LoadMarks, BuiltFor
<1>10. n \cap {"bare", "shadowed"} = {} => Unedited(d.spec) = Slot(a, t)
  <2> SUFFICES ASSUME n \cap {"bare", "shadowed"} = {}
               PROVE  Unedited(d.spec) = Slot(a, t)
    OBVIOUS
  <2>1. d.full /\ d.marks = {}
    BY <1>1 DEF LoadMarks, Files
  <2>2. QED
    BY <1>5, <1>7, <1>8, <2>1, SelectionsLoad
<1>11. IvKept(t, n) /\ ModeFits(t) /\ PrngFits(t) /\ Remembered(t) /\ n # {}
  BY <1>2, <1>3, <1>6, <1>7, Subkinds DEF Sound, IvKept, ModeFits, PrngFits, Remembered, LoadMarks
<1>12. /\ Sound(WithSpec(t, "prng", d), n) /\ SameButSpecs(t, WithSpec(t, "prng", d))
       /\ Active(WithSpec(t, "prng", d)) = d.spec
  BY <1>5, <1>6, <1>9, <1>10, <1>11, WithSpecSound
<1>13. Brings(WithSpec(t, "prng", d), d)
  BY <1>6, <1>7, <1>12 DEF Brings, SameButSpecs, Algorithm
<1>14. QED
  BY <1>4, <1>12, <1>13

LEMMA TwoWayLoaded ==
    ASSUME NEW s, NEW m, Sound(s, m), NEW d, FileSound(d),
           NEW c \in {"asymmetric", "lattice"}, d.algorithm \in Of[c], NEW n, LoadMarks(n, m, d)
    PROVE  Sound(LoadTwoWay(s, c, d), n) /\ Brings(LoadTwoWay(s, c, d), d)
<1> DEFINE a == d.algorithm
           s1 == [s EXCEPT !.category = c]
           t == Recorded(s1)
           chosen == [t.chosen EXCEPT ![c] = a]
           s2 == [t EXCEPT !.chosen = chosen]
           u == Recorded(s2)
           mode == IF d.full THEN d.session.mode ELSE u.mode
           s3 == [u EXCEPT !.mode = mode]
           v == Recorded(s3)
<1>1. s \in Settings /\ d \in Files /\ (d.full => d.session \in Sessions) /\ c \in Categories
  BY DEF Sound, Typing, FileSound, Categories
<1>s. s1 \in Settings
  BY <1>1 DEF Settings
<1>2. s1.category = c /\ s1.iv = s.iv /\ s1.chosen = s.chosen /\ s1.cipherMode = s.cipherMode
  BY <1>1 DEF Settings
<1> HIDE DEF s1
<1>3. t \in Settings /\ t.category = c /\ t.iv = s.iv /\ t.chosen = s.chosen
      /\ t.cipherMode = s.cipherMode
  BY <1>s, <1>2, RecordedFields DEF Steady
<1>4. chosen \in Choices /\ chosen[c] = a /\ chosen.cipher = s.chosen.cipher
  BY <1>1, <1>3, OfKinds DEF Settings, Choices, Categories
<1>5. LoadTwoWay(s, c, d) = WithSpec(v, c, d)
  <2>1. [t EXCEPT !.chosen[c] = a] = s2
    BY <1>3 DEF Settings
  <2>2. LoadTwoWay(s, c, d)
          = WithSpec(Recorded([Recorded([t EXCEPT !.chosen[c] = a])
                                 EXCEPT !.mode = IF d.full THEN d.session.mode
                                                 ELSE Recorded([t EXCEPT !.chosen[c] = a]).mode]),
                     c, d)
    BY DEF LoadTwoWay, s1
  <2> HIDE DEF s2, t
  <2>3. QED
    BY <2>1, <2>2
<1> HIDE DEF t, chosen
<1>t. s2 \in Settings
  BY <1>3, <1>4 DEF Settings
<1>6. s2.category = c /\ s2.iv = s.iv /\ s2.chosen = chosen /\ s2.cipherMode = s.cipherMode
  BY <1>3 DEF Settings
<1> HIDE DEF s2
<1>7. u \in Settings /\ u.category = c /\ u.iv = s.iv /\ u.chosen = chosen
      /\ u.cipherMode = s.cipherMode
  BY <1>t, <1>6, RecordedFields DEF Steady
<1> HIDE DEF u
<1>8. mode \in Modes /\ (d.full => mode = d.session.mode)
  BY <1>1, <1>7 DEF Sessions, Settings
<1> HIDE DEF mode
<1>u. s3 \in Settings
  BY <1>7, <1>8 DEF Settings
<1>9. s3.category = c /\ s3.iv = s.iv /\ s3.chosen = chosen /\ s3.cipherMode = s.cipherMode
      /\ s3.mode = mode
  BY <1>7 DEF Settings
<1> HIDE DEF s3
<1>10. v \in Settings /\ v.category = c /\ v.iv = s.iv /\ v.chosen = chosen
       /\ v.cipherMode = s.cipherMode /\ v.mode = mode /\ Remembered(v)
  BY <1>u, <1>9, RecordedFields DEF Steady
<1> HIDE DEF v
<1>11. Algorithm(v) = a
  BY <1>4, <1>10 DEF Algorithm
<1>12. a \notin Ciphers /\ a \notin Hashes /\ a \notin Prngs /\ c # "prng" /\ c # "hash"
  BY <1>1, OneKind
<1>13. LengthsOf(d, v)
  BY <1>12, Subkinds DEF LengthsOf
<1>14. "shadowed" \notin n \/ v.category = "hash" => BuiltFor(d.spec, a, v)
  BY <1>10, <1>12, <1>13, LengthsLoad DEF FileSound, LoadMarks, BuiltFor
<1>15. n \cap {"bare", "shadowed"} = {} => Unedited(d.spec) = Slot(a, v)
  <2> SUFFICES ASSUME n \cap {"bare", "shadowed"} = {}
               PROVE  Unedited(d.spec) = Slot(a, v)
    OBVIOUS
  <2>1. d.full /\ d.marks = {}
    BY <1>1 DEF LoadMarks, Files
  <2>2. QED
    BY <1>10, <1>12, <1>13, <2>1, SelectionsLoad
<1>16. IvKept(v, n) /\ ModeFits(v) /\ PrngFits(v) /\ n # {}
  BY <1>4, <1>10, <1>12 DEF Sound, IvKept, ModeFits, PrngFits, LoadMarks
<1>17. /\ Sound(WithSpec(v, c, d), n) /\ SameButSpecs(v, WithSpec(v, c, d))
       /\ Active(WithSpec(v, c, d)) = d.spec
  BY <1>10, <1>11, <1>14, <1>15, <1>16, WithSpecSound
<1>18. Brings(WithSpec(v, c, d), d)
  BY <1>8, <1>10, <1>11, <1>12, <1>17 DEF Brings, SameButSpecs, Algorithm
<1>19. QED
  BY <1>5, <1>17, <1>18

LEMMA SpecLoaded ==
    ASSUME NEW s, NEW m, Sound(s, m), NEW d, FileSound(d), NEW n, LoadMarks(n, m, d)
    PROVE  Sound(SetSpecFromDocument(s, d), n) /\ Brings(SetSpecFromDocument(s, d), d)
<1> DEFINE c == CategoryOf(d.algorithm)
<1>1. c \in Categories /\ d.algorithm \in Of[c]
  BY KindOf DEF FileSound, Files
<1>2. SetSpecFromDocument(s, d) = CASE c = "cipher" -> LoadCipher(s, d)
                                    [] c = "hash" -> LoadHash(s, d)
                                    [] c = "prng" -> LoadPrng(s, d)
                                    [] OTHER -> LoadTwoWay(s, c, d)
  BY DEF SetSpecFromDocument
<1> HIDE DEF c
<1>3. CASE c = "cipher"
  BY <1>1, <1>2, <1>3, OfKinds, CipherLoaded
<1>4. CASE c = "hash"
  BY <1>1, <1>2, <1>4, OfKinds, HashLoaded
<1>5. CASE c = "prng"
  BY <1>1, <1>2, <1>5, OfKinds, PrngLoaded
<1>6. CASE c \in {"asymmetric", "lattice"}
  BY <1>1, <1>2, <1>6, TwoWayLoaded
<1>7. QED
  BY <1>1, <1>3, <1>4, <1>5, <1>6 DEF Categories

LEMMA FieldsRestored ==
    ASSUME NEW s, NEW n, Sound(s, n), "touched" \in n, NEW d, FileSound(d)
    PROVE  /\ Sound(RestoreFields(s, d), n) /\ Steady(s, RestoreFields(s, d))
           /\ RestoreFields(s, d).iv = s.iv
           /\ Parses(d.session.key) => RestoreFields(s, d).key = d.session.key
           /\ Parses(d.session.input) => RestoreFields(s, d).input = d.session.input
<1> DEFINE key == IF Parses(d.session.key) THEN d.session.key ELSE s.key
           input == IF Parses(d.session.input) THEN d.session.input ELSE s.input
           keyed == [s EXCEPT !.key = key]
<1>1. s \in Settings /\ n \cup {"touched"} = n
  BY DEF Sound, Typing
<1>2. d.session.key \in Samples /\ d.session.input \in Samples
  BY OtherSamples DEF FileSound, Files, Sessions, NoSession
<1>3. key \in Samples /\ input \in Samples
  BY <1>1, <1>2 DEF Settings
<1>4. RestoreFields(s, d) = SetInput(keyed, input)
  BY DEF RestoreFields
<1> HIDE DEF key, input
<1>5. Sound(keyed, n)
  BY <1>1, <1>3, KeySound
<1>6. keyed \in Settings /\ Steady(s, keyed) /\ keyed.key = key /\ keyed.iv = s.iv
  BY <1>1, <1>3, FieldsWritten
<1> HIDE DEF keyed
<1>7. Sound(SetInput(keyed, input), n)
  BY <1>1, <1>3, <1>5, InputSound
<1>8. /\ Steady(keyed, SetInput(keyed, input)) /\ SetInput(keyed, input).iv = s.iv
      /\ SetInput(keyed, input).input = input /\ SetInput(keyed, input).key = key
  BY <1>3, <1>6, InputFields
<1>9. QED
  BY <1>4, <1>6, <1>7, <1>8 DEF Steady, key, input

LEMMA FieldsSwapped ==
    ASSUME NEW s, NEW n, Sound(s, n), "touched" \in n, NEW prev \in AllAlgorithms
    PROVE  Sound(SwapFields(s, prev, Algorithm(s)), n)
<1> DEFINE a == Algorithm(s)
           key == Swap(s.key, DefaultKey(prev), DefaultKey(a))
           keyed == [s EXCEPT !.key = key]
           t == IF s.key = DefaultKey(prev) /\ a \in KmacHashes
                THEN SetKmacKeyLength(keyed, DefaultKey(a).length) ELSE keyed
           input == Swap(t.input, DefaultInput(prev, t.mode), DefaultInput(a, t.mode))
<1>1. s \in Settings /\ n \cup {"touched"} = n /\ a \in AllAlgorithms /\ a \in Of[s.category]
      /\ s.category \in Categories
  BY Read DEF Sound, Typing, Settings
<1>2. key \in Samples /\ DefaultKey(a).length \in Nat
  BY <1>1, DefaultSamples, Swapped DEF Settings, Modes, Samples
<1>3. SwapFields(s, prev, a) = SetInput(t, input)
  BY DEF SwapFields
<1> HIDE DEF key
<1>4. Sound(keyed, n)
  BY <1>1, <1>2, KeySound
<1>5. keyed \in Settings /\ Steady(s, keyed)
  BY <1>1, <1>2, FieldsWritten
<1> HIDE DEF keyed
<1>6. Sound(t, n)
  <2>1. CASE a \in KmacHashes
    <3>1. s.category = "hash" /\ keyed.category = "hash" /\ IsKmac(keyed)
      BY <1>1, <1>5, <2>1, OneKind, Subkinds DEF Steady, IsKmac, Algorithm
    <3>2. Sound(SetKmacKeyLength(keyed, DefaultKey(a).length), n)
      BY <1>2, <1>4, <3>1, KmacLengthSound
    <3>3. QED
      BY <1>4, <3>2
  <2>2. QED
    BY <1>4, <2>1
<1> HIDE DEF t
<1>7. t.input \in Samples /\ t.mode \in Modes
  BY <1>6 DEF Sound, Typing, Settings
<1>8. input \in Samples
  BY <1>1, <1>7, DefaultSamples, Swapped
<1> HIDE DEF input
<1>9. QED
  BY <1>1, <1>3, <1>6, <1>8, InputSound

\* A load, from its file to the run it starts.
LEMMA LoadSound ==
    ASSUME NEW s, NEW m, Sound(s, m), NEW d, FileSound(d), NEW n, LoadMarks(n, m, d)
    PROVE  Sound(ApplyDocument(s, d), n)
<1> DEFINE t == RestoreFields(SetSpecFromDocument(s, d), d)
<1>1. /\ Sound(SetSpecFromDocument(s, d), n) /\ "touched" \in n
      /\ Algorithm(SetSpecFromDocument(s, d)) = d.algorithm
  BY SpecLoaded DEF LoadMarks, Brings
<1>2. Sound(t, n) /\ Algorithm(t) = d.algorithm
  BY <1>1, FieldsRestored DEF Steady, Algorithm
<1> HIDE DEF t
<1>3. Algorithm(s) \in AllAlgorithms
  BY Read DEF Sound, Typing
<1>4. Sound(SwapFields(t, Algorithm(s), d.algorithm), n)
  BY <1>1, <1>2, <1>3, FieldsSwapped
<1>5. QED
  BY <1>2, <1>4 DEF ApplyDocument, t

\* With its session, the file decides all that a run reads.
LEMMA SessionLoaded ==
    ASSUME NEW s, NEW m, Sound(s, m), NEW d, FileSound(d), NEW n, LoadMarks(n, m, d),
           d.full, Parses(d.session.input), Parses(d.session.key)
    PROVE  /\ Brings(ApplyDocument(s, d), d)
           /\ ApplyDocument(s, d).input = d.session.input
           /\ ApplyDocument(s, d).key = d.session.key
<1> DEFINE u == SetSpecFromDocument(s, d)
           t == RestoreFields(u, d)
<1>1. Sound(u, n) /\ "touched" \in n /\ Brings(u, d)
  BY SpecLoaded DEF LoadMarks
<1>2. ApplyDocument(s, d) = t
  BY DEF ApplyDocument
<1> HIDE DEF u
<1>3. Steady(u, t) /\ t.iv = u.iv /\ t.key = d.session.key /\ t.input = d.session.input
  BY <1>1, FieldsRestored
<1> HIDE DEF t
<1>4. Brings(t, d)
  BY <1>1, <1>3 DEF Brings, Steady, Algorithm, Active, ActiveName
<1>5. QED
  BY <1>2, <1>3, <1>4

-----------------------------------------------------------------------------
(***************************************************************************)
(* The page opens.                                                         *)
(***************************************************************************)

LEMMA BootSound ==
    ASSUME NEW scheme \in PaddingSchemes, NEW iv \in Samples
    PROVE  /\ Sound(Boot(scheme, iv), BootMarks(Boot(scheme, iv)))
           /\ BootMarks(Boot(scheme, iv)) \subseteq Marks
<1> DEFINE s == Boot(scheme, iv)
           start == [cipherMode |-> "single-block", padding |-> scheme,
                     kmacLength |-> 32, xofLength |-> 200, prngLength |-> 42]
           pair == Canonical("cipher", "aes-128", start)
           chosen == [cipher |-> "aes-128", hash |-> "sha-256", asymmetric |-> "rsa",
                      prng |-> "minstd-rand0", lattice |-> "ntt-3329-256"]
           input == IF PaddingLimits("encrypt", scheme, "aes-128", "single-block").max < 16
                    THEN ShortPlaintext ELSE AesPlaintext
           forward == [a \in RestoresForwardInput |-> NoBytes]
<1>1. "aes-128" \in AllAlgorithms /\ "aes-128" \in Ciphers /\ "cipher" \in Categories
  BY OfKinds, Subkinds DEF Categories
<1>2. pair \in Pairs
  <2>1. Readable(start)
    BY DEF Readable, CipherModes
  <2> HIDE DEF start
  <2>2. QED
    BY <1>1, <2>1, CanonicalTyped
<1>3. chosen \in Choices /\ chosen.cipher = "aes-128"
  <2>1. /\ "aes-128" \in Of["cipher"] /\ "sha-256" \in Of["hash"] /\ "rsa" \in Of["asymmetric"]
        /\ "minstd-rand0" \in Of["prng"] /\ "ntt-3329-256" \in Of["lattice"]
    BY <1>1, OfKinds DEF Hashes, Asymmetrics, Prngs, Lattices
  <2>2. \A c \in Categories : chosen[c] \in Of[c] /\ chosen[c] \in AllAlgorithms
    BY <2>1, OfKinds DEF Categories
  <2>3. chosen = [c \in Categories |-> chosen[c]]
    BY DEF Categories
  <2> HIDE DEF chosen
  <2>4. chosen \in Choices
    BY <2>2, <2>3 DEF Choices
  <2>5. QED
    BY <2>4 DEF chosen
<1>4. input \in Samples /\ forward \in [RestoresForwardInput -> Samples]
  BY OtherSamples
<1>5. DefaultKey("aes-128") \in Samples
  BY <1>1, DefaultSamples DEF Modes
<1>6. s = [category |-> "cipher", chosen |-> chosen, mode |-> "encrypt",
           cipherMode |-> "single-block", padding |-> scheme, iv |-> iv, input |-> input,
           key |-> DefaultKey("aes-128"), kmacLength |-> 32, xofLength |-> 200,
           prngLength |-> 42, forward |-> forward, specs |-> pair]
  BY DEF Boot
<1> HIDE DEF chosen, input, forward
<1>7. /\ s.category = "cipher" /\ s.chosen = chosen /\ s.mode = "encrypt"
      /\ s.cipherMode = "single-block" /\ s.padding = scheme /\ s.input = input
      /\ s.key = DefaultKey("aes-128") /\ s.kmacLength = 32 /\ s.xofLength = 200
      /\ s.prngLength = 42 /\ s.specs = pair
  BY <1>6
<1>8. s \in Settings
  <2> HIDE DEF pair
  <2>1. 32 \in 1..MaxKmacKeyLength /\ 200 \in 1..MaxShakeOutput /\ 42 \in 1..1024
    BY Clamped
  <2>2. "single-block" \in CipherModes /\ "encrypt" \in Modes
    BY DEF CipherModes, Modes
  <2>3. QED
    BY <1>1, <1>2, <1>3, <1>4, <1>5, <1>6, <2>1, <2>2 DEF Settings
<1> HIDE DEF s
<1>9. Algorithm(s) = "aes-128"
  BY <1>3, <1>7 DEF Algorithm
<1>10. Fresh(s)
  <2>1. Slot("aes-128", s) = Slot("aes-128", start)
    BY <1>7, SlotReads
  <2>2. QED
    BY <1>7, <1>9, <2>1 DEF Fresh, Canonical
<1>11. Typing(s) /\ Built(s, BootMarks(s)) /\ Described(s, BootMarks(s))
  BY <1>8, <1>10, FreshIsBuilt
<1>12. ModeFits(s) /\ PrngFits(s) /\ IvKept(s, BootMarks(s))
  BY <1>3, <1>7 DEF ModeFits, PrngFits, IvKept, SupportedCipherModes, StreamCiphers, CipherModes,
                    IvModes
<1>13. Untouched(s, BootMarks(s))
  <2> SUFFICES ASSUME BootMarks(s) = {}
               PROVE  /\ s.padding \in {"none", "zero-pad"}
                      /\ s.input = DefaultInput("aes-128", "encrypt")
    BY <1>7, <1>9 DEF Untouched
  <2>1. input # ShortPlaintext
    BY <1>7 DEF BootMarks
  <2>2. BlockByteLength("aes-128") = 16
    BY DEF BlockByteLength, AesCiphers, SpeckCiphers
  <2>3. ~(PaddingLimits("encrypt", scheme, "aes-128", "single-block").max < 16)
        /\ input = AesPlaintext
    BY <2>1 DEF input
  <2>4. scheme \in {"none", "zero-pad"}
    BY <2>2, <2>3 DEF PaddingLimits, Limits, IsStreamMode, PaddingSchemes
  <2>5. DefaultInput("aes-128", "encrypt") = AesPlaintext
    <3>1. /\ "aes-128" \notin Hashes /\ "aes-128" \notin Asymmetrics /\ "aes-128" \notin Prngs
          /\ "aes-128" \notin Lattices
      BY <1>1, OneKind, OfKinds DEF Categories
    <3>2. QED
      BY <2>2, <3>1 DEF DefaultInput, DefaultPlaintext
  <2>6. QED
    BY <1>7, <2>3, <2>4, <2>5
<1>14. Remembered(s)
  BY <1>9 DEF Remembered, RestoresForwardInput
<1>15. QED
  BY <1>11, <1>12, <1>13, <1>14 DEF Sound, BootMarks, Marks, s

-----------------------------------------------------------------------------
(***************************************************************************)
(* What a flip back restores.  Framed: a handler that leaves the algorithm *)
(* and the direction alone, and in the inverse direction what was recorded.*)
(***************************************************************************)

Framed(s, t) ==
    /\ Algorithm(t) = Algorithm(s) /\ t.mode = s.mode
    /\ s.mode = "decrypt" => t.forward = s.forward

LEMMA CipherModeFramed ==
    ASSUME NEW s \in Settings, s.category = "cipher", NEW cm \in CipherModes
    PROVE  Framed(s, ChangeCipherMode(s, cm))
<1> DEFINE s1 == [s EXCEPT !.cipherMode = cm]
           pair == Canonical("cipher", s1.chosen.cipher, s1)
           t == [s1 EXCEPT !.specs = pair]
<1>1. s1 \in Settings
  BY DEF Settings
<1>2. s1.category = "cipher" /\ s1.chosen = s.chosen /\ s1.mode = s.mode /\ s1.forward = s.forward
  BY DEF Settings
<1>3. SetCipherMode(s, cm) = t
  BY DEF SetCipherMode
<1>4. pair \in Pairs
  <2>1. Readable(s1) /\ s1.chosen.cipher \in AllAlgorithms
    BY <1>1, Read, OfKinds DEF Categories
  <2> HIDE DEF s1
  <2>2. QED
    BY <2>1, CanonicalTyped DEF Categories
<1> HIDE DEF pair, s1
<1>5. t \in Settings /\ SameButSpecs(s1, t)
  BY <1>1, <1>4, SpecsReplaced
<1> HIDE DEF t
<1>6. Steady(t, ReconcileIvWidth(t)) /\ ReconcileIvWidth(t).forward = t.forward
  BY <1>5, IvReconciled
<1>7. QED
  BY <1>2, <1>3, <1>5, <1>6 DEF Framed, ChangeCipherMode, Steady, SameButSpecs, Algorithm

LEMMA PaddingFramed ==
    ASSUME NEW s \in Settings, NEW scheme
    PROVE  Framed(s, ChangePadding(s, scheme))
<1>1. \A text : LET t == [s EXCEPT !.input = text]
                IN  t.category = s.category /\ t.chosen = s.chosen /\ t.mode = s.mode
                    /\ t.forward = s.forward
  BY DEF Settings
<1>2. \A text, slots :
         LET t == [[s EXCEPT !.input = text] EXCEPT !.padding = scheme, !.specs.slot = slots]
         IN  t.category = s.category /\ t.chosen = s.chosen /\ t.mode = s.mode
             /\ t.forward = s.forward
  BY DEF Settings
<1>3. \E text, slots : ChangePadding(s, scheme)
         = [[s EXCEPT !.input = text] EXCEPT !.padding = scheme, !.specs.slot = slots]
  BY DEF ChangePadding, SetPadding
<1>4. QED
  BY <1>2, <1>3 DEF Framed, Algorithm

LEMMA UpdateFramed ==
    ASSUME NEW s \in Settings, NEW spec
    PROVE  Framed(s, UpdateActive(s, spec))
  BY DEF Framed, UpdateActive, Settings, Algorithm

LEMMA OutputLengthFramed ==
    ASSUME NEW s, NEW m, Sound(s, m), NEW n \in Nat
    PROVE  /\ Algorithm(s) \in XofHashes => Framed(s, SetShakeOutputLength(s, n))
           /\ Algorithm(s) \in Prngs => Framed(s, SetPrngOutputLength(s, n))
<1>1. s \in Settings /\ s.category \in Categories /\ Algorithm(s) \in Of[s.category] /\ ModeFits(s)
  BY Read DEF Sound, Typing, Settings
<1>2. ASSUME Algorithm(s) \in XofHashes
      PROVE  Framed(s, SetShakeOutputLength(s, n))
  <2> DEFINE length == AtLeastOne(n, MaxShakeOutput)
             t == [s EXCEPT !.xofLength = length]
  <2>1. length \in 1..MaxShakeOutput
    BY DEF AtLeastOne, MaxShakeOutput
  <2>2. SetShakeOutputLength(s, n) \in {t, RebuiltHash(t)}
    BY DEF SetShakeOutputLength
  <2> HIDE DEF length
  <2>3. t \in Settings
    BY <1>1, <2>1 DEF Settings
  <2>4. t.category = s.category /\ t.chosen = s.chosen /\ t.mode = s.mode /\ t.forward = s.forward
    BY <1>1 DEF Settings
  <2> HIDE DEF t
  <2>5. SameButSpecs(t, RebuiltHash(t))
    BY <2>3, HashRebuilt
  <2>6. QED
    BY <2>2, <2>4, <2>5 DEF Framed, SameButSpecs, Algorithm
<1>3. ASSUME Algorithm(s) \in Prngs
      PROVE  Framed(s, SetPrngOutputLength(s, n))
  <2> DEFINE p == s.chosen.prng
             length == AtLeastOne(n, MaxPrngOutputFor(p))
             t == [s EXCEPT !.prngLength = length]
  <2>1. s.category = "prng" /\ p = Algorithm(s) /\ p \in Of["prng"] /\ "prng" \in Categories
    BY <1>1, <1>3, OneKind DEF Algorithm
  <2>2. length \in 1..1024
    <3>1. MaxPrngOutputFor(p) \in 1..1024
      BY Clamped
    <3> HIDE DEF p
    <3>2. QED
      BY <3>1 DEF AtLeastOne
  <2>3. SetPrngOutputLength(s, n) = SetAlgorithm(t, "prng", p)
    BY DEF SetPrngOutputLength, SetAlgorithm
  <2> HIDE DEF length
  <2>4. t \in Settings
    BY <1>1, <2>2 DEF Settings
  <2>5. t.mode = s.mode /\ t.forward = s.forward /\ ModeFits(t)
    BY <1>1 DEF Settings, ModeFits
  <2> HIDE DEF t, p
  <2>6. Selected(t, SetAlgorithm(t, "prng", p), "prng", p)
    BY <2>1, <2>4, <2>5, AlgorithmSelected
  <2>7. Algorithm(SetAlgorithm(t, "prng", p)) = p
    BY <2>6, SelectedFits
  <2>8. QED
    BY <2>1, <2>3, <2>5, <2>6, <2>7 DEF Framed, Selected
<1>4. QED
  BY <1>2, <1>3

\* The settings after a run.
AfterRun(s) == IF InputFits(s) THEN Resynced(s) ELSE s

LEMMA RunSound ==
    ASSUME NEW s, NEW m, Sound(s, m)
    PROVE  /\ Sound(AfterRun(s), m \cup Shadowing(s, AfterRun(s)))
           /\ SameButKmac(s, AfterRun(s)) /\ Framed(s, AfterRun(s))
<1>1. Sound(AfterRun(s), m \cup Shadowing(s, AfterRun(s))) /\ SameButKmac(s, AfterRun(s))
  <2>1. CASE InputFits(s)
    BY <2>1, ResyncSound DEF AfterRun
  <2>2. CASE ~InputFits(s)
    BY <2>2 DEF AfterRun, Shadowing, SameButKmac
  <2>3. QED
    BY <2>1, <2>2
<1>2. QED
  BY <1>1 DEF SameButKmac, Framed, Algorithm

-----------------------------------------------------------------------------
(***************************************************************************)
(* IInv is inductive.                                                      *)
(***************************************************************************)

LEMMA InitIInv == Init => IInv
<1> SUFFICES ASSUME Init
             PROVE  IInv
  OBVIOUS
<1>1. PICK scheme \in OfferedPadding, iv \in Ivs : ui = Boot(scheme, iv)
  BY DEF Init
<1>2. scheme \in PaddingSchemes /\ iv \in Samples
  BY <1>1, SelectAssumption, OtherSamples DEF Ivs
<1>3. Sound(ui, marks) /\ marks \subseteq Marks
  BY <1>1, <1>2, BootSound DEF Init
<1>4. Kept /\ (\A d \in files : FileSound(d)) /\ flipped \in Samples
  BY OtherSamples DEF Init, Kept
<1>5. ran \in BOOLEAN /\ acts \in 0..MaxActs
  BY MaxActsAssumption DEF Init
<1>6. pending \in BOOLEAN /\ RerunTyped
  BY Zenon DEF Init, RerunTyped
<1>7. QED
  BY <1>3, <1>4, <1>5, <1>6 DEF IInv

\* A write keeps the counters, the timer, the dirty flag and the files.
Wrote ==
    /\ ran' \in BOOLEAN /\ pending' \in BOOLEAN /\ acts' \in 0..MaxActs /\ files' = files
    /\ RerunTyped'

\* What the watching effect does keeps the timer and the flag typed.
LEMMA WatchTyped ==
    ASSUME RerunTyped, NEW seen \in BOOLEAN, NEW scheduled \in BOOLEAN,
           NEW flag \in {"nothing", "dirty", "forgotten"}
    PROVE  /\ Scheduled(seen, scheduled) \in BOOLEAN
           /\ Flagged(seen, flag) \in {"nothing", "dirty", "forgotten"}
<1>1. Scheduled(seen, scheduled) \in BOOLEAN
  BY Zenon DEF Scheduled, RerunTyped
<1>2. Flagged(seen, flag) \in {"nothing", "dirty", "forgotten"}
  BY DEF Flagged, RerunTyped
<1>3. QED
  BY <1>1, <1>2

LEMMA WriteStep ==
    ASSUME IInv, NEW STATE s, Write(s)
    PROVE  ui' = s /\ Wrote
<1>1. acts' \in 0..MaxActs
  BY MaxActsAssumption DEF IInv, Write, Acts
<1>2. PICK seen \in Seen(s) :
          pending' = Scheduled(seen, pending) /\ unrun' = Flagged(seen, unrun)
  BY Zenon DEF Write
<1>3. seen \in BOOLEAN
  BY Zenon DEF Seen
<1>4. pending \in BOOLEAN /\ unrun \in {"nothing", "dirty", "forgotten"} /\ RerunTyped
  BY DEF IInv, RerunTyped
<1>5. pending' \in BOOLEAN /\ unrun' \in {"nothing", "dirty", "forgotten"}
  BY <1>2, <1>3, <1>4, WatchTyped
<1>6. ui' = s /\ ran' = ran /\ autoRerun' = autoRerun /\ files' = files
  BY Zenon DEF Write
<1>7. QED
  BY <1>1, <1>4, <1>5, <1>6 DEF Wrote, RerunTyped, IInv

LEMMA IInvKept ==
    ASSUME IInv, Sound(ui', marks'), marks' \subseteq Marks, Wrote,
           \/ Framed(ui, ui') /\ flipped' = flipped
           \/ flipped' = NoBytes
    PROVE  IInv'
<1>1. Kept'
  BY DEF IInv, Kept, Framed
<1>2. flipped' \in Samples
  BY OtherSamples DEF IInv
<1>3. QED
  BY <1>1, <1>2 DEF IInv, Wrote

LEMMA SelectKeeps ==
    ASSUME IInv, NEW c \in Categories, NEW a \in Of[c], Select(c, a)
    PROVE  IInv'
<1>1. ui' = Change(ui, c, a) /\ Wrote /\ flipped' = NoBytes /\ marks' = marks
  BY WriteStep DEF Select
<1>2. Sound(ui', marks')
  BY <1>1, ChangeSound DEF IInv
<1>3. QED
  BY <1>1, <1>2, IInvKept DEF IInv

LEMMA CipherSelectsKeep ==
    ASSUME IInv
    PROVE  /\ \A cm \in OfferedModes : SelectCipherMode(cm) => IInv'
           /\ \A scheme \in OfferedPadding : SelectPadding(scheme) => IInv'
<1>1. ASSUME NEW cm \in OfferedModes, SelectCipherMode(cm)
      PROVE  IInv'
  <2>1. /\ ui' = ChangeCipherMode(ui, cm) /\ Wrote /\ flipped' = flipped /\ marks' = marks
        /\ ui.category = "cipher" /\ cm \in SupportedCipherModes(ui.chosen.cipher)
    BY <1>1, WriteStep DEF SelectCipherMode
  <2>2. Sound(ui', marks')
    BY <2>1, CipherModeSound DEF IInv
  <2>3. ui \in Settings /\ cm \in CipherModes
    BY SelectAssumption DEF IInv, Sound, Typing
  <2>4. Framed(ui, ui')
    BY <2>1, <2>3, CipherModeFramed
  <2>5. QED
    BY <2>1, <2>2, <2>4, IInvKept DEF IInv
<1>2. ASSUME NEW scheme \in OfferedPadding, SelectPadding(scheme)
      PROVE  IInv'
  <2>1. /\ ui' = ChangePadding(ui, scheme) /\ Wrote /\ flipped' = flipped
        /\ marks' = marks \cup {"touched"} /\ ui.category = "cipher"
    BY <1>2, WriteStep DEF SelectPadding
  <2>2. scheme \in PaddingSchemes
    BY SelectAssumption
  <2>3. Sound(ui', marks')
    BY <2>1, <2>2, PaddingSound DEF IInv
  <2>4. Framed(ui, ui')
    BY <2>1, PaddingFramed DEF IInv, Sound, Typing
  <2>5. QED
    BY <2>1, <2>3, <2>4, IInvKept DEF IInv, Marks
<1>3. QED
  BY <1>1, <1>2

LEMMA FlipKeeps ==
    ASSUME IInv, NEW n \in TypedLengths, Flip(n)
    PROVE  IInv'
<1>1. /\ ui' = FlipMode(ui, Output(n)) /\ Wrote /\ marks' = marks \cup {"touched"}
      /\ flipped' = IF ui.mode = "encrypt" /\ Parses(ui.input) THEN ui.input ELSE NoBytes
  BY WriteStep DEF Flip
<1>2. Output(n) \in Samples /\ ui \in Settings
  BY TypedAssumption, OtherSamples DEF IInv, Sound, Typing
<1>3. Sound(ui', marks') /\ marks' \subseteq Marks
  BY <1>1, <1>2, FlipSound DEF IInv, Marks
<1>4. flipped' \in Samples
  BY <1>1, <1>2, OtherSamples DEF Settings
<1>5. CASE flipped' = NoBytes
  BY <1>1, <1>3, <1>5, IInvKept
<1>6. CASE flipped' # NoBytes
  <2> DEFINE text == IF ran THEN Output(n) ELSE ui.input
             t == [ui EXCEPT !.mode = "decrypt", !.input = text]
  <2>1. ui.mode = "encrypt" /\ Parses(ui.input) /\ flipped' = ui.input
    BY <1>1, <1>6
  <2>2. ui' = Recorded(t)
    BY <1>1, <2>1 DEF FlipMode
  <2>3. /\ t.mode = "decrypt" /\ t.forward = ui.forward /\ t.category = ui.category
        /\ t.chosen = ui.chosen
    BY <1>2 DEF Settings
  <2> HIDE DEF t
  <2>4. ui' = t
    BY <2>2, <2>3 DEF Recorded
  <2>5. Algorithm(ui') = Algorithm(ui) /\ ui'.forward = ui.forward
    BY <2>3, <2>4 DEF Algorithm
  <2>6. Algorithm(ui) \in RestoresForwardInput => ui.forward[Algorithm(ui)] = ui.input
    BY <2>1 DEF IInv, Sound, Remembered
  <2>7. Kept'
    BY <2>1, <2>5, <2>6 DEF Kept
  <2>8. QED
    BY <1>1, <1>3, <1>4, <2>7 DEF IInv, Wrote
<1>7. QED
  BY <1>5, <1>6

LEMMA TypingKeeps ==
    ASSUME IInv, NEW text \in Samples
    PROVE  (TypeInput(text) => IInv') /\ (TypeKey(text) => IInv')
<1>1. ui \in Settings
  BY DEF IInv, Sound, Typing
<1>2. ASSUME TypeInput(text)
      PROVE  IInv'
  <2>1. /\ ui' = SetInput(ui, text) /\ Wrote /\ flipped' = flipped
        /\ marks' = marks \cup {"touched"}
    BY <1>2, WriteStep DEF TypeInput
  <2>2. Sound(ui', marks')
    BY <2>1, InputSound DEF IInv
  <2>3. Framed(ui, ui')
    BY <1>1, <2>1, InputFields DEF Framed, Steady, Algorithm, Settings, Modes
  <2>4. QED
    BY <2>1, <2>2, <2>3, IInvKept DEF IInv, Marks
<1>3. ASSUME TypeKey(text)
      PROVE  IInv'
  <2>1. /\ ui' = [ui EXCEPT !.key = text] /\ Wrote /\ flipped' = flipped
        /\ marks' = marks \cup {"touched"}
    BY <1>3, WriteStep DEF TypeKey
  <2>2. Sound(ui', marks')
    BY <2>1, KeySound DEF IInv
  <2>3. Framed(ui, ui')
    BY <1>1, <2>1, FieldsWritten DEF Framed, Steady, Algorithm
  <2>4. QED
    BY <2>1, <2>2, <2>3, IInvKept DEF IInv, Marks
<1>4. QED
  BY <1>2, <1>3

LEMMA LeaveKeyFieldKeeps ==
    ASSUME IInv, LeaveKeyField
    PROVE  IInv'
<1>1. /\ ui' = CommitKey(ui) /\ Wrote /\ flipped' = flipped /\ ui' # ui
      /\ marks' = IF ui.category # "hash" THEN marks \cup {"shadowed"} ELSE marks
  BY WriteStep DEF LeaveKeyField
<1>2. /\ Sound(Resynced(ui), marks \cup Shadowing(ui, Resynced(ui)))
      /\ SameButKmac(ui, Resynced(ui)) /\ Resynced(ui) = CommitKey(ui)
  BY ResyncSound DEF IInv
<1>3. marks' = marks \cup Shadowing(ui, ui')
  BY <1>1 DEF Shadowing
<1>4. Sound(ui', marks') /\ Framed(ui, ui')
  BY <1>1, <1>2, <1>3 DEF SameButKmac, Framed, Algorithm
<1>5. QED
  BY <1>1, <1>4, IInvKept DEF IInv, Marks

LEMMA TypeIvKeeps ==
    ASSUME IInv, TypeIv
    PROVE  IInv'
<1> DEFINE iv == Typed(IvByteLength(ui.chosen.cipher))
<1>1. ui' = [ui EXCEPT !.iv = iv] /\ Wrote /\ flipped' = flipped /\ marks' = marks
  BY WriteStep DEF TypeIv
<1>2. ui \in Settings
  BY DEF IInv, Sound, Typing
<1>3. IvByteLength(ui.chosen.cipher) \in Nat
  BY <1>2, Read, BlockLengths
<1>4. iv \in Samples /\ iv.length = IvByteLength(ui.chosen.cipher)
  BY <1>3, OtherSamples DEF Typed, Sample
<1> HIDE DEF iv
<1>5. Sound(ui', marks')
  BY <1>1, <1>4, IvSound DEF IInv
<1>6. Framed(ui, ui')
  BY <1>1, <1>2, <1>4, FieldsWritten DEF Framed, Steady, Algorithm
<1>7. QED
  BY <1>1, <1>5, <1>6, IInvKept DEF IInv

LEMMA SpecActionsKeep ==
    ASSUME IInv
    PROVE  /\ EditSpec => IInv'
           /\ Reset => IInv'
           /\ \A n \in TypedOutputs : TypeOutputLength(n) => IInv'
<1>1. Sound(ui, marks) /\ ui \in Settings
  BY DEF IInv, Sound, Typing
<1>2. ASSUME EditSpec
      PROVE  IInv'
  <2>1. /\ ui' = UpdateActive(ui, [Active(ui) EXCEPT !.edited = TRUE])
        /\ Wrote /\ flipped' = flipped /\ marks' = marks
    BY <1>2, WriteStep DEF EditSpec
  <2>2. Sound(ui', marks') /\ Framed(ui, ui')
    BY <1>1, <2>1, EditSound, UpdateFramed
  <2>3. QED
    BY <2>1, <2>2, IInvKept DEF IInv
<1>3. ASSUME Reset
      PROVE  IInv'
  <2>1. ui' = ResetSpec(ui) /\ Wrote /\ flipped' = flipped /\ marks' = marks
    BY <1>3, WriteStep DEF Reset
  <2>2. Sound(ui', marks') /\ Framed(ui, ui')
    BY <1>1, <2>1, ResetSound, UpdateFramed DEF ResetSpec
  <2>3. QED
    BY <2>1, <2>2, IInvKept DEF IInv
<1>4. ASSUME NEW n \in TypedOutputs, TypeOutputLength(n)
      PROVE  IInv'
  <2>1. n \in Nat
    BY TypedAssumption
  <2>2. /\ Wrote /\ flipped' = flipped /\ marks' = marks
        /\ \/ Algorithm(ui) \in XofHashes /\ ui' = SetShakeOutputLength(ui, n)
           \/ Algorithm(ui) \in Prngs /\ ui' = SetPrngOutputLength(ui, n)
    BY <1>4, WriteStep DEF TypeOutputLength
  <2>3. Sound(ui', marks') /\ Framed(ui, ui')
    BY <1>1, <2>1, <2>2, ShakeLengthSound, PrngLengthSound, OutputLengthFramed
  <2>4. QED
    BY <2>2, <2>3, IInvKept DEF IInv
<1>5. QED
  BY <1>2, <1>3, <1>4

LEMMA RunStep ==
    ASSUME ran \in BOOLEAN, RerunTyped, autoRerun' = autoRerun,
           NEW STATE s, NEW STATE scheduled, NEW STATE flag, NEW STATE m,
           scheduled \in BOOLEAN, flag \in {"nothing", "dirty", "forgotten"},
           RunOn(s, scheduled, flag, m)
    PROVE  /\ ui' = AfterRun(s) /\ marks' = m \cup Shadowing(s, AfterRun(s))
           /\ ran' \in BOOLEAN /\ pending' \in BOOLEAN /\ RerunTyped'
<1> DEFINE resyncs == InputFits(s) /\ Resyncs(s)
<1>1. ran' \in BOOLEAN
  BY DEF RunOn
<1>2. Scheduled(resyncs, scheduled) \in BOOLEAN
  BY Zenon DEF Scheduled, RerunTyped
<1>3. pending' = Scheduled(resyncs, scheduled)
  BY Zenon DEF RunOn
<1>4. Flagged(resyncs, flag) \in {"nothing", "dirty", "forgotten"}
  BY DEF Flagged, RerunTyped
<1>5. unrun' = "nothing" \/ unrun' = Flagged(resyncs, flag)
  BY Zenon DEF RunOn
<1>6. RerunTyped'
  BY <1>4, <1>5 DEF RerunTyped
<1>7. ui' = AfterRun(s) /\ marks' = m \cup Shadowing(s, AfterRun(s))
  BY DEF RunOn, AfterRun, Shadowing
<1>8. pending' \in BOOLEAN
  BY <1>2, <1>3
<1>9. QED
  BY <1>1, <1>6, <1>7, <1>8

LEMMA RunsKeep ==
    ASSUME IInv, PressRun \/ TimerFires
    PROVE  IInv'
<1>1. /\ ui' = AfterRun(ui) /\ marks' = marks \cup Shadowing(ui, AfterRun(ui))
      /\ ran' \in BOOLEAN /\ pending' \in BOOLEAN /\ RerunTyped'
  <2>1. /\ RunOn(ui, pending, unrun, marks) \/ RunOn(ui, FALSE, unrun, marks)
        /\ autoRerun' = autoRerun
    BY DEF PressRun, TimerFires
  <2>2. /\ ran \in BOOLEAN /\ RerunTyped /\ pending \in BOOLEAN
        /\ unrun \in {"nothing", "dirty", "forgotten"}
    BY DEF IInv, RerunTyped
  <2>3. CASE RunOn(ui, pending, unrun, marks)
    BY <2>1, <2>2, <2>3, RunStep
  <2>4. CASE RunOn(ui, FALSE, unrun, marks)
    <3> DEFINE fired == FALSE
    <3>1. fired \in BOOLEAN /\ RunOn(ui, fired, unrun, marks)
      BY <2>4
    <3> HIDE DEF fired
    <3>2. QED
      BY <2>1, <2>2, <3>1, RunStep
  <2>5. QED
    BY <2>1, <2>3, <2>4
<1>2. Sound(ui', marks') /\ Framed(ui, ui')
  BY <1>1, RunSound DEF IInv
<1>3. marks' \subseteq Marks
  BY <1>1 DEF IInv, Marks, Shadowing
<1>4. acts' \in 0..MaxActs
  <2>1. CASE PressRun
    BY <2>1, MaxActsAssumption DEF IInv, PressRun, Acts
  <2>2. CASE TimerFires
    BY <2>2 DEF IInv, TimerFires
  <2>3. QED
    BY <2>1, <2>2
<1>5. files' = files /\ flipped' = flipped
  BY DEF PressRun, TimerFires
<1>6. QED
  BY <1>1, <1>2, <1>3, <1>4, <1>5, IInvKept DEF Wrote

LEMMA SaveKeeps ==
    ASSUME IInv, NEW full \in BOOLEAN, Save(full)
    PROVE  IInv'
<1>1. FileSound(Document(ui, full))
  BY DocumentSound DEF IInv
<1>2. \A d \in files' : FileSound(d)
  BY <1>1 DEF Save, IInv
<1>3. acts' \in 0..MaxActs
  BY MaxActsAssumption DEF IInv, Save, Acts
<1>4. /\ ui' = ui /\ marks' = marks /\ flipped' = flipped /\ ran' = ran /\ pending' = pending
      /\ autoRerun' = autoRerun /\ unrun' = unrun
  BY DEF Save, rerun
<1>5. Kept'
  BY <1>4 DEF IInv, Kept
<1>6. QED
  BY <1>2, <1>3, <1>4, <1>5 DEF IInv, RerunTyped

LEMMA ToggleKeeps ==
    ASSUME IInv, ToggleAutoRerun
    PROVE  IInv'
<1>1. acts' \in 0..MaxActs
  BY MaxActsAssumption DEF IInv, ToggleAutoRerun, Acts
<1>2. autoRerun' \in BOOLEAN
  BY Zenon DEF ToggleAutoRerun
<1>3. unrun' \in {"nothing", "dirty", "forgotten"}
  BY DEF ToggleAutoRerun, IInv, RerunTyped
<1>4. /\ ui' = ui /\ marks' = marks /\ flipped' = flipped /\ ran' = ran /\ pending' = pending
      /\ files' = files
  BY DEF ToggleAutoRerun
<1>5. QED
  BY <1>1, <1>2, <1>3, <1>4 DEF IInv, Kept, RerunTyped

\* The marks that a load leaves, before its run.
Loaded(d) == marks \cup {"touched"} \cup d.marks \cup {x \in {"bare"} : ~d.full}

LEMMA LoadStep ==
    ASSUME IInv, NEW d \in files, Load(d)
    PROVE  /\ Sound(ApplyDocument(ui, d), Loaded(d)) /\ LoadMarks(Loaded(d), marks, d)
           /\ ui' = AfterRun(ApplyDocument(ui, d))
           /\ marks' = Loaded(d) \cup Shadowing(ApplyDocument(ui, d), ui')
           /\ ran' \in BOOLEAN /\ pending' \in BOOLEAN /\ RerunTyped'
<1> DEFINE s == ApplyDocument(ui, d)
<1>1. LoadMarks(Loaded(d), marks, d)
  BY DEF LoadMarks, Loaded
<1>2. Sound(s, Loaded(d))
  BY <1>1, LoadSound DEF IInv
<1>3. /\ ran \in BOOLEAN /\ RerunTyped /\ pending \in BOOLEAN
      /\ unrun \in {"nothing", "dirty", "forgotten"}
  BY DEF IInv, RerunTyped
<1>4. /\ autoRerun' = autoRerun
      /\ \E seen \in Seen(s) : RunOn(s, Scheduled(seen, pending), Flagged(seen, unrun), Loaded(d))
  BY DEF Load, Loaded
<1> HIDE DEF s
<1>5. PICK seen \in Seen(s) : RunOn(s, Scheduled(seen, pending), Flagged(seen, unrun), Loaded(d))
  BY <1>4
<1>6. seen \in BOOLEAN
  BY Zenon DEF Seen
<1>7. /\ ui' = AfterRun(s) /\ marks' = Loaded(d) \cup Shadowing(s, AfterRun(s))
      /\ ran' \in BOOLEAN /\ pending' \in BOOLEAN /\ RerunTyped'
  <2> DEFINE scheduled == Scheduled(seen, pending)
             flag == Flagged(seen, unrun)
  <2>1. scheduled \in BOOLEAN /\ flag \in {"nothing", "dirty", "forgotten"}
    BY <1>3, <1>6, WatchTyped
  <2>2. RunOn(s, scheduled, flag, Loaded(d))
    BY <1>5
  <2> HIDE DEF scheduled, flag
  <2>3. QED
    BY <1>3, <1>4, <2>1, <2>2, RunStep
<1>8. QED
  BY <1>1, <1>2, <1>7 DEF s

LEMMA LoadKeeps ==
    ASSUME IInv, NEW d \in files, Load(d)
    PROVE  IInv'
<1> DEFINE s == ApplyDocument(ui, d)
<1>1. /\ Sound(s, Loaded(d)) /\ ui' = AfterRun(s)
      /\ marks' = Loaded(d) \cup Shadowing(s, AfterRun(s))
      /\ ran' \in BOOLEAN /\ pending' \in BOOLEAN /\ RerunTyped'
  BY LoadStep
<1> HIDE DEF s
<1>2. Sound(ui', marks')
  BY <1>1, RunSound
<1>3. d.marks \subseteq {"bare", "shadowed"}
  BY DEF IInv, FileSound, Files
<1>4. marks' \subseteq Marks
  BY <1>1, <1>3 DEF IInv, Loaded, Marks, Shadowing
<1>5. acts' \in 0..MaxActs /\ files' = files /\ flipped' = NoBytes
  BY MaxActsAssumption DEF IInv, Load, Acts
<1>6. QED
  BY <1>1, <1>2, <1>4, <1>5, IInvKept DEF Wrote

LEMMA ReloadKeeps ==
    ASSUME IInv, Reload
    PROVE  IInv'
<1>1. ui.padding \in PaddingSchemes /\ ui.iv \in Samples
  BY DEF IInv, Sound, Typing, Settings
<1>2. ui' = Boot(ui.padding, ui.iv) /\ marks' = BootMarks(ui')
  BY DEF Reload
<1>3. Sound(ui', marks') /\ marks' \subseteq Marks
  BY <1>1, <1>2, BootSound
<1>4. ran' \in BOOLEAN /\ acts' \in 0..MaxActs /\ files' = files /\ flipped' = NoBytes
  BY MaxActsAssumption DEF IInv, Reload, Acts
<1>5. pending' \in BOOLEAN /\ RerunTyped'
  BY Zenon DEF Reload, IInv, RerunTyped
<1>6. QED
  BY <1>3, <1>4, <1>5, IInvKept DEF Wrote

LEMMA StepIInv == IInv /\ [Next]_vars => IInv'
<1> SUFFICES ASSUME IInv, [Next]_vars
             PROVE  IInv'
  OBVIOUS
<1>1. ASSUME NEW c \in Categories, NEW a \in Of[c], Select(c, a)
      PROVE  IInv'
  BY <1>1, SelectKeeps
<1>2. ASSUME NEW cm \in OfferedModes, SelectCipherMode(cm)
      PROVE  IInv'
  BY <1>2, CipherSelectsKeep
<1>3. ASSUME NEW scheme \in OfferedPadding, SelectPadding(scheme)
      PROVE  IInv'
  BY <1>3, CipherSelectsKeep
<1>4. ASSUME NEW n \in TypedLengths, Flip(n) \/ TypeInput(Typed(n)) \/ TypeKey(Typed(n))
      PROVE  IInv'
  <2>1. Typed(n) \in Samples
    BY TypedAssumption, OtherSamples
  <2>2. QED
    BY <1>4, <2>1, FlipKeeps, TypingKeeps
<1>5. CASE TypeInput(Unparseable) \/ TypeKey(Unparseable)
  BY <1>5, OtherSamples, TypingKeeps
<1>6. CASE LeaveKeyField
  BY <1>6, LeaveKeyFieldKeeps
<1>7. CASE TypeIv
  BY <1>7, TypeIvKeeps
<1>8. CASE EditSpec
  BY <1>8, SpecActionsKeep
<1>9. CASE Reset
  BY <1>9, SpecActionsKeep
<1>10. CASE PressRun \/ TimerFires
  BY <1>10, RunsKeep
<1>11. CASE Reload
  BY <1>11, ReloadKeeps
<1>12. ASSUME NEW n \in TypedOutputs, TypeOutputLength(n)
       PROVE  IInv'
  BY <1>12, SpecActionsKeep
<1>13. ASSUME NEW full \in BOOLEAN, Save(full)
       PROVE  IInv'
  BY <1>13, SaveKeeps
<1>14. ASSUME NEW d \in files, Load(d)
       PROVE  IInv'
  BY <1>14, LoadKeeps
<1>15. CASE ToggleAutoRerun
  BY <1>15, ToggleKeeps
<1>16. CASE UNCHANGED vars
  BY <1>16 DEF vars, IInv, Kept, RerunTyped
<1>17. QED
  BY <1>1, <1>2, <1>3, <1>4, <1>5, <1>6, <1>7, <1>8, <1>9, <1>10, <1>11, <1>12, <1>13, <1>14,
     <1>15, <1>16 DEF Next

LEMMA IInvInvariant == Spec => []IInv
<1>1. QED
  BY InitIInv, StepIInv, PTL DEF Spec

-----------------------------------------------------------------------------
(***************************************************************************)
(* What the invariant says of the screen.                                  *)
(***************************************************************************)

LEMMA DefaultInputLengths ==
    /\ \A c \in Ciphers :
           IF c \in StreamCiphers THEN DefaultInput(c, "encrypt").length \in 100..120
           ELSE DefaultInput(c, "encrypt").length = BlockByteLength(c)
    /\ \A h \in Hashes : DefaultInput(h, "encrypt").length \in 3..4
    /\ \A p \in Prngs : DefaultInput(p, "encrypt").length = SeedByteLength(p)
    /\ \A l \in Lattices : DefaultInput(l, "encrypt").length = PolynomialByteLength(l)
<1>1. ASSUME NEW c \in Ciphers
      PROVE  IF c \in StreamCiphers THEN DefaultInput(c, "encrypt").length \in 100..120
             ELSE DefaultInput(c, "encrypt").length = BlockByteLength(c)
  <2>1. c \notin Hashes /\ c \notin Asymmetrics /\ c \notin Prngs /\ c \notin Lattices
    BY OneKind, OfKinds DEF Categories
  <2>2. DefaultInput(c, "encrypt") = DefaultPlaintext(c)
    BY <2>1 DEF DefaultInput
  <2>3. BlockByteLength(c) = 0 <=> c \in StreamCiphers
    BY BlockLengths
  <2>4. CASE c \in StreamCiphers
    BY <2>2, <2>3, <2>4 DEF DefaultPlaintext, Sample, StreamCiphers
  <2>5. CASE c \notin StreamCiphers
    <3>1. c # "chacha20" /\ c # "salsa20"
      BY <2>5 DEF StreamCiphers
    <3>2. QED
      BY <2>2, <2>5, <3>1 DEF DefaultPlaintext, Sample, AesPlaintext
  <2>6. QED
    BY <2>4, <2>5
<1>2. ASSUME NEW h \in Hashes
      PROVE  DefaultInput(h, "encrypt").length \in 3..4
  <2>1. h \notin Asymmetrics /\ h \notin Prngs /\ h \notin Lattices
    BY OneKind, OfKinds DEF Categories
  <2>2. DefaultInput(h, "encrypt") = DefaultHashInput(h)
    BY <2>1 DEF DefaultInput
  <2>3. QED
    BY <2>2 DEF DefaultHashInput, Sample
<1>3. ASSUME NEW p \in Prngs
      PROVE  DefaultInput(p, "encrypt").length = SeedByteLength(p)
  <2>1. p \notin Asymmetrics /\ p \notin Hashes /\ p \notin Lattices
    BY OneKind, OfKinds DEF Categories
  <2>2. DefaultInput(p, "encrypt") = DefaultSeed(p)
    BY <2>1 DEF DefaultInput
  <2>3. QED
    BY <2>2 DEF DefaultSeed, SeedByteLength, Sample
<1>4. ASSUME NEW l \in Lattices
      PROVE  DefaultInput(l, "encrypt").length = PolynomialByteLength(l)
  <2>1. l \notin Asymmetrics /\ l \notin Hashes /\ l \notin Prngs
    BY OneKind, OfKinds DEF Categories
  <2>2. DefaultInput(l, "encrypt") = DefaultPolynomial(l, "encrypt")
    BY <2>1 DEF DefaultInput
  <2>3. QED
    BY <2>2 DEF DefaultPolynomial, Sample
<1>5. QED
  BY <1>1, <1>2, <1>3, <1>4

\* A block, or a stream cipher's sample, fits under every mode of operation.
LEMMA BlockFits ==
    ASSUME NEW c \in Ciphers, NEW cm \in SupportedCipherModes(c), NEW scheme \in {"none", "zero-pad"},
           NEW n \in Nat, IF c \in StreamCiphers THEN n \in 100..120 ELSE n = BlockByteLength(c)
    PROVE  /\ InLimits(n, PaddingLimits("encrypt", scheme, c, cm))
           /\ BlockByteLength(c) > 0 => n % BlockByteLength(c) = 0
<1> DEFINE B == BlockByteLength(c)
<1>1. B \in {0, 4, 8, 16} /\ (B = 0 <=> c \in StreamCiphers)
  BY BlockLengths
<1>2. CASE B = 0
  BY <1>1, <1>2 DEF PaddingLimits, InLimits, Limits
<1>3. CASE B > 0
  <2>1. n = B /\ B \in {4, 8, 16}
    BY <1>1, <1>3
  <2>2. B % B = 0
    BY <2>1
  <2>3. PaddingLimits("encrypt", scheme, c, cm)
          \in {Limits(1, 16 * B), Limits(B, 16 * B), Limits(B, B), Limits(1, B)}
    BY <2>1 DEF PaddingLimits, MaxBlocksUi, IsStreamMode
  <2> HIDE DEF B
  <2>4. QED
    BY <2>1, <2>2, <2>3 DEF InLimits, Limits, B
<1>4. QED
  BY <1>1, <1>2, <1>3

LEMMA DefaultsFit ==
    ASSUME NEW s, Sound(s, {}), IsKmac(s) => s.category = "hash"
    PROVE  InputFits(s) /\ KeyFits(s)
<1> DEFINE a == Algorithm(s)
           n == s.input.length
<1>1. /\ s \in Settings /\ a \in AllAlgorithms /\ s.category \in Categories
      /\ a \in Of[s.category]
  BY Read DEF Sound, Typing, Settings
<1>2. /\ s.mode = "encrypt" /\ s.padding \in {"none", "zero-pad"}
      /\ s.input = DefaultInput(a, "encrypt") /\ s.key = DefaultKey(a)
  BY DEF Sound, Untouched
<1>3. Parses(s.input) /\ Parses(s.key) /\ n \in Nat /\ s.key.length \in Nat
  BY <1>1, <1>2, DefaultSamples DEF Modes, Samples
<1>4. ASSUME a \in Ciphers
      PROVE  CipherInputFits(s)
  <2>1. s.category = "cipher" /\ a = s.chosen.cipher
    BY <1>1, <1>4, OneKind DEF Algorithm
  <2>2. s.cipherMode \in SupportedCipherModes(a)
    BY <2>1 DEF Sound, ModeFits
  <2>3. IF a \in StreamCiphers THEN n \in 100..120 ELSE n = BlockByteLength(a)
    BY <1>2, <1>4, DefaultInputLengths
  <2>4. /\ InLimits(n, PaddingLimits("encrypt", s.padding, a, s.cipherMode))
        /\ BlockByteLength(a) > 0 => n % BlockByteLength(a) = 0
    BY <1>2, <1>3, <1>4, <2>2, <2>3, BlockFits
  <2>5. QED
    BY <1>2, <2>1, <2>4 DEF CipherInputFits
<1>5. InputFits(s)
  <2>1. CASE s.category = "cipher"
    <3>1. a \in Ciphers /\ a \notin Hashes /\ a \notin Prngs /\ a \notin Lattices /\ a # "ml-dsa-44"
      BY <1>1, <2>1, OneKind DEF Asymmetrics
    <3>2. QED
      BY <1>3, <1>4, <3>1 DEF InputFits
  <2>2. CASE s.category = "hash"
    <3>1. a \notin Ciphers /\ a \in Hashes /\ a \notin Prngs /\ a \notin Lattices /\ a # "ml-dsa-44"
      BY <1>1, <2>2, OneKind DEF Asymmetrics
    <3>2. n \in 3..4
      BY <1>2, <3>1, DefaultInputLengths
    <3>3. QED
      BY <1>3, <3>1, <3>2 DEF InputFits, MaxHashInput
  <2>3. CASE s.category = "prng"
    <3>1. a \notin Ciphers /\ a \notin Hashes /\ a \in Prngs /\ a \notin Lattices /\ a # "ml-dsa-44"
      BY <1>1, <2>3, OneKind DEF Asymmetrics
    <3>2. n = SeedByteLength(a)
      BY <1>2, <3>1, DefaultInputLengths
    <3>3. QED
      BY <1>3, <3>1, <3>2 DEF InputFits
  <2>4. CASE s.category = "lattice"
    <3>1. a \notin Ciphers /\ a \notin Hashes /\ a \notin Prngs /\ a \in Lattices /\ a # "ml-dsa-44"
      BY <1>1, <2>4, OneKind DEF Asymmetrics
    <3>2. n = PolynomialByteLength(a)
      BY <1>2, <3>1, DefaultInputLengths
    <3>3. QED
      BY <1>3, <3>1, <3>2 DEF InputFits
  <2>5. CASE s.category = "asymmetric"
    <3>1. a \notin Ciphers /\ a \notin Hashes /\ a \notin Prngs /\ a \notin Lattices
      BY <1>1, <2>5, OneKind
    <3>2. QED
      BY <1>2, <1>3, <3>1 DEF InputFits
  <2>6. QED
    BY <1>1, <2>1, <2>2, <2>3, <2>4, <2>5 DEF Categories
<1>6. KeyFits(s)
  <2>1. Resynced(s) = s
    BY ResyncSound
  <2>2. Active(s).keyLength = s.key.length
    BY DefaultKeyFits
  <2>3. ASSUME IsKmac(s)
        PROVE  s.key.length >= 1
    <3>1. a \in KmacHashes
      BY <2>3 DEF IsKmac, Algorithm
    <3>2. a \notin Ciphers
      BY <1>1, <3>1, OneKind, Subkinds
    <3>3. QED
      BY <1>2, <3>1, <3>2 DEF DefaultKey, Sample
  <2>4. QED
    BY <1>3, <2>1, <2>2, <2>3 DEF KeyFits
<1>7. QED
  BY <1>5, <1>6

LEMMA SpecDescribed ==
    ASSUME NEW s, NEW m, Sound(s, m), m \cap {"bare", "shadowed"} = {}
    PROVE  /\ s.specs.kind = s.category /\ DOMAIN s.specs.slot = SlotNames(s.specs.kind)
           /\ \A n \in DOMAIN s.specs.slot :
                 [s.specs.slot[n] EXCEPT !.edited = FALSE] = Slot(Algorithm(s), s)
<1>1. DOMAIN s.specs.slot = SlotNames(s.specs.kind)
  BY DEF Sound, Typing
<1>2. s.specs.kind = s.category
  BY DEF Sound, Built
<1>3. \A n \in SlotNames(s.specs.kind) : Unedited(s.specs.slot[n]) = Slot(Algorithm(s), s)
  BY DEF Sound, Described
<1>4. QED
  BY <1>1, <1>2, <1>3 DEF Unedited

LEMMA LengthBuilt ==
    ASSUME NEW s, NEW m, Sound(s, m), "shadowed" \notin m
    PROVE  /\ s.category = "prng" => Active(s).outputLength = s.prngLength
           /\ Algorithm(s) \in XofHashes => Active(s).outputLength = s.xofLength
<1> DEFINE a == Algorithm(s)
<1>1. /\ s \in Settings /\ s.category \in Categories /\ a \in Of[s.category]
      /\ ActiveName(s) \in SlotNames(s.specs.kind)
  BY Read, ActiveSlot DEF Sound, Typing, Settings
<1>2. BuiltFor(Active(s), a, s)
  BY <1>1 DEF Sound, Built, Active
<1>3. Active(s).outputLength = Slot(a, s).outputLength
  BY <1>2 DEF BuiltFor
<1>4. ASSUME s.category = "prng"
      PROVE  Active(s).outputLength = s.prngLength
  <2> DEFINE top == MaxPrngOutputFor(a)
             length == s.prngLength
  <2>1. a \in Prngs /\ a \notin XofHashes
    BY <1>1, <1>4, OneKind, Subkinds
  <2>2. Slot(a, s).outputLength = AtLeastOne(length, top)
    BY <2>1 DEF Slot
  <2>3. a = s.chosen.prng
    BY <1>4 DEF Algorithm
  <2>4. length <= top
    BY <1>4, <2>3 DEF Sound, PrngFits
  <2>5. length \in 1..1024 /\ top \in 1..1024
    BY <1>1, Clamped DEF Settings
  <2> HIDE DEF top, length
  <2>6. AtLeastOne(length, top) = length
    BY <2>4, <2>5, Clamped
  <2>7. QED
    BY <1>3, <2>2, <2>6 DEF length
<1>5. ASSUME a \in XofHashes
      PROVE  Active(s).outputLength = s.xofLength
  <2>1. a \notin Prngs
    BY <1>1, <1>5, OneKind, Subkinds
  <2>2. QED
    BY <1>3, <1>5, <2>1 DEF Slot
<1>6. QED
  BY <1>4, <1>5

LEMMA IInvFits == IInv => SelectorsFitSpec
<1> SUFFICES ASSUME IInv
             PROVE  SelectorsFitSpec
  OBVIOUS
<1>1. Sound(ui, marks) /\ Typing(ui) /\ ui \in Settings
  BY DEF IInv, Sound, Typing
<1>2. TypeOK
  <2>1. Algorithm(ui) \in Of[ui.category]
    BY <1>1, Read
  <2>2. /\ ui.mode \in Modes /\ ui.kmacLength \in 1..MaxKmacKeyLength
        /\ ui.xofLength \in 1..MaxShakeOutput /\ ui.prngLength \in 1..1024
        /\ ui.specs.kind \in Categories
    BY <1>1 DEF Settings, Pairs
  <2>3. DOMAIN ui.specs.slot = SlotNames(ui.specs.kind)
    BY <1>1 DEF Typing
  <2>4. /\ ran \in BOOLEAN /\ pending \in BOOLEAN /\ acts \in 0..MaxActs
        /\ marks \subseteq {"touched", "bare", "shadowed"}
        /\ autoRerun \in BOOLEAN /\ unrun \in {"nothing", "dirty", "forgotten"}
    BY DEF IInv, RerunTyped, Marks
  <2>5. QED
    BY <2>1, <2>2, <2>3, <2>4 DEF TypeOK
<1>3. SelectorsDescribeSpec
  BY <1>1, SpecDescribed DEF SelectorsDescribeSpec
<1>4. ModeIsSupported /\ IvFits
  BY <1>1 DEF Sound, ModeFits, IvKept, ModeIsSupported, IvFits
<1>5. LengthShownIsBuilt
  BY <1>1, LengthBuilt DEF LengthShownIsBuilt
<1>6. DefaultsAlwaysRun
  BY <1>1, DefaultsFit DEF DefaultsAlwaysRun
<1>7. QED
  BY <1>2, <1>3, <1>4, <1>5, <1>6 DEF SelectorsFitSpec

\* Whatever the user selects, types, edits, saves, loads or reloads, in any
\* order and for any offered algorithms: the pair of specs in the spec store
\* is the one the selectors in App.tsx describe, the mode of operation, the IV
\* and the output length are ones the spec runs with, and the default fields
\* of a user who only selects always run.
THEOREM SelectorsFit == Spec => []SelectorsFitSpec
  BY IInvInvariant, IInvFits, PTL

-----------------------------------------------------------------------------
(***************************************************************************)
(* What comes back.                                                        *)
(***************************************************************************)

LEMMA SessionStep ==
    ASSUME IInv
    PROVE  SessionReloads
<1> SUFFICES ASSUME NEW d \in files, Load(d), d.full, d.marks = {}, "shadowed" \notin marks',
                    Parses(d.session.input), Parses(d.session.key),
                    d.algorithm \in KmacHashes => d.session.key.length = d.spec.keyLength
             PROVE  shown' = SavedInputs(d)
  BY DEF SessionReloads
<1> DEFINE s == ApplyDocument(ui, d)
           a == d.algorithm
<1>1. /\ Sound(s, Loaded(d)) /\ LoadMarks(Loaded(d), marks, d) /\ ui' = AfterRun(s)
      /\ marks' = Loaded(d) \cup Shadowing(s, ui')
  BY LoadStep
<1>2. Sound(ui, marks) /\ FileSound(d) /\ d \in Files /\ d.session \in Sessions /\ a \in AllAlgorithms
  BY DEF IInv, FileSound, Files
<1>3. Brings(s, d) /\ s.input = d.session.input /\ s.key = d.session.key
  BY <1>1, <1>2, SessionLoaded
<1>4. shown' = RunInputs(ui')
  BY DEF Load, RunOn
<1> HIDE DEF s
<1>5. ui' = s
  <2> SUFFICES ASSUME ui' # s
               PROVE  FALSE
    OBVIOUS
  <2>1. s.category = "hash"
    BY <1>1 DEF Shadowing
  <2>2. IsKmac(s) /\ s.key.length # Active(s).keyLength
    BY <1>1 DEF AfterRun, Resynced, Resyncs
  <2>3. a \in KmacHashes
    BY <1>3, <2>1, <2>2 DEF Brings, IsKmac, Algorithm
  <2>4. QED
    BY <1>3, <2>2, <2>3 DEF Brings
<1>6. Algorithm(s) = a /\ Active(s) = d.spec /\ (Directed(a) => s.mode = d.session.mode)
  BY <1>3 DEF Brings
<1>7. ASSUME a \in Ciphers
      PROVE  /\ s.cipherMode = d.session.cipherMode /\ s.padding = d.session.padding
             /\ (IF s.cipherMode \in IvModes THEN s.iv ELSE NoBytes) = d.session.iv
  <2>1. /\ s.cipherMode = d.session.cipherMode /\ s.padding = d.session.padding
        /\ d.session.iv # NoBytes => s.iv = d.session.iv
    BY <1>3, <1>7 DEF Brings
  <2>2. CASE s.cipherMode \in IvModes
    <3>1. d.session.iv.length = IvByteLength(a)
      BY <1>2, <1>7, <2>1, <2>2 DEF FileSound
    <3>2. d.session.iv # NoBytes
      BY <1>7, <3>1, BlockLengths DEF NoBytes, Sample
    <3>3. QED
      BY <2>1, <2>2, <3>2
  <2>3. CASE s.cipherMode \notin IvModes
    BY <1>2, <1>7, <2>1, <2>3 DEF FileSound
  <2>4. QED
    BY <2>1, <2>2, <2>3
<1>8. RunInputs(s) = SavedInputs(d)
  <2>1. CASE a \in Ciphers
    BY <1>3, <1>6, <1>7, <2>1 DEF RunInputs, SavedInputs
  <2>2. CASE a \notin Ciphers
    BY <1>3, <1>6, <2>2 DEF RunInputs, SavedInputs
  <2>3. QED
    BY <2>1, <2>2
<1>9. QED
  BY <1>4, <1>5, <1>8

LEMMA FlipBackStep ==
    ASSUME IInv
    PROVE  FlipBackRestores
<1> SUFFICES ASSUME NEW n \in TypedLengths, Flip(n), ui.mode = "decrypt",
                    Algorithm(ui) \in RestoresForwardInput, flipped # NoBytes
             PROVE  ui'.input = flipped
  BY DEF FlipBackRestores
<1> DEFINE t == [ui EXCEPT !.mode = "encrypt", !.input = flipped]
<1>1. ui \in Settings /\ flipped \in Samples
  BY DEF IInv, Sound, Typing
<1>2. ui.forward[Algorithm(ui)] = flipped
  BY DEF IInv, Kept
<1>3. ui' = FlipMode(ui, Output(n))
  BY DEF Flip, Write
<1>4. ui' = Recorded(t)
  BY <1>2, <1>3 DEF FlipMode
<1>5. t \in Settings /\ t.input = flipped
  <2>1. t = [[ui EXCEPT !.mode = "encrypt"] EXCEPT !.input = flipped]
    OBVIOUS
  <2>2. [ui EXCEPT !.mode = "encrypt"] \in Settings
    BY <1>1 DEF Settings, Modes
  <2>3. t \in Settings
    <3> DEFINE x == [ui EXCEPT !.mode = "encrypt"]
    <3>1. x \in Settings /\ t = [x EXCEPT !.input = flipped]
      BY <2>1, <2>2
    <3> HIDE DEF x, t
    <3>2. QED
      BY <1>1, <3>1 DEF Settings
  <2>4. t.input = flipped
    BY <1>1 DEF Settings
  <2>5. QED
    BY <2>3, <2>4
<1> HIDE DEF t
<1>6. QED
  BY <1>4, <1>5, RecordedFields

\* A document saved with its session (buildSaveText) and loaded into any state
\* (applyDocument) computes what it computed when it was saved; and a look at
\* decapsulation or verification leaves the message that went in
\* (the forward-input store).
THEOREM InputsBack == Spec => InputsComeBack
<1>1. IInv /\ [Next]_vars => [SessionReloads /\ FlipBackRestores]_vars
  BY SessionStep, FlipBackStep
<1>2. QED
  BY <1>1, IInvInvariant, PTL DEF Spec, InputsComeBack

-----------------------------------------------------------------------------
(***************************************************************************)
(* The screen.                                                             *)
(***************************************************************************)

\* In a spec that the selectors describe, what the effect watches decides what
\* a run computes from.
LEMMA WatchedDecides ==
    ASSUME NEW s, NEW m, Sound(s, m), m \cap {"bare", "shadowed"} = {},
           NEW t, NEW k, Sound(t, k), k \cap {"bare", "shadowed"} = {},
           Watched(s) = Watched(t)
    PROVE  RunInputs(s) = RunInputs(t)
<1> DEFINE Shown(u) == /\ u.category \in Categories /\ Algorithm(u) \in Of[u.category]
                       /\ u.specs.kind = u.category
                       /\ Unedited(Active(u)) = Slot(Algorithm(u), u)
                       /\ ModeFits(u)
<1>1. ASSUME NEW u, NEW n, Sound(u, n), n \cap {"bare", "shadowed"} = {}
      PROVE  Shown(u)
  <2>1. u.category \in Categories /\ Algorithm(u) \in Of[u.category] /\ ModeFits(u)
    BY <1>1, Read DEF Sound, Typing, Settings
  <2>2. ActiveName(u) \in SlotNames(u.specs.kind)
    BY <1>1, ActiveSlot DEF Sound
  <2>3. u.specs.kind = u.category
    BY <1>1 DEF Sound, Built
  <2>4. Unedited(Active(u)) = Slot(Algorithm(u), u)
    BY <1>1, <2>2 DEF Sound, Described, Active
  <2>5. QED
    BY <2>1, <2>3, <2>4
<1>2. Shown(s) /\ Shown(t)
  BY <1>1
<1>3. /\ s.specs = t.specs /\ ActiveName(s) = ActiveName(t) /\ s.input = t.input
      /\ s.key = t.key /\ s.iv = t.iv
  BY DEF Watched
<1>4. Active(s) = Active(t) /\ s.category = t.category
  BY <1>2, <1>3 DEF Active
<1>5. Slot(Algorithm(s), s) = Slot(Algorithm(t), t)
  BY <1>2, <1>4
<1>6. Algorithm(s) = Algorithm(t)
  <2>1. \A a, u : Slot(a, u).algorithm = a
    BY DEF Slot
  <2>2. QED
    BY <1>5, <2>1
<1> DEFINE a == Algorithm(s)
<1>7. Directed(a) => s.mode = t.mode
  <2>1. ASSUME Directed(a)
        PROVE  s.category \notin {"hash", "prng"}
    BY <1>2, <2>1, OfKinds DEF Directed
  <2>2. QED
    BY <1>2, <1>3, <1>4, <2>1 DEF ActiveName
<1>8. ASSUME a \in Ciphers
      PROVE  /\ s.cipherMode = t.cipherMode
             /\ PaddedWith(a, s.cipherMode, s.padding) = PaddedWith(a, t.cipherMode, t.padding)
  <2>1. ASSUME NEW u, Shown(u), Algorithm(u) = a
        PROVE  /\ Slot(a, u).cipherMode = u.cipherMode
               /\ Slot(a, u).padding = PaddedWith(a, u.cipherMode, u.padding)
    <3>1. u.chosen.cipher = a
      BY <1>8, <2>1, OneKind DEF Algorithm
    <3>2. u.cipherMode \in SupportedCipherModes(a)
      BY <2>1, <3>1 DEF ModeFits
    <3>3. QED
      BY <1>8, <3>2 DEF Slot
  <2>2. QED
    BY <1>2, <1>5, <1>6, <2>1
<1>9. QED
  <2> HIDE DEF Shown
  <2>1. CASE a \in Ciphers
    BY <1>3, <1>4, <1>6, <1>7, <1>8, <2>1 DEF RunInputs
  <2>2. CASE a \notin Ciphers
    BY <1>3, <1>4, <1>6, <1>7, <2>2 DEF RunInputs
  <2>3. QED
    BY <2>1, <2>2

\* A write that the effect does not see leaves what a run computes from.
LEMMA WriteShown ==
    ASSUME IInv, IInv', ScreenCatchesUp, NEW STATE s, Write(s), marks \subseteq marks'
    PROVE  ScreenCatchesUp'
<1> SUFFICES ASSUME ran', ~pending', unrun' = "nothing", marks' \cap {"bare", "shadowed"} = {}
             PROVE  shown' = RunInputs(ui')
  BY DEF ScreenCatchesUp
<1>1. ui' = s /\ ran /\ shown' = shown /\ marks \cap {"bare", "shadowed"} = {}
  BY DEF Write
<1>2. PICK seen \in Seen(s) :
          pending' = Scheduled(seen, pending) /\ unrun' = Flagged(seen, unrun)
  BY Zenon DEF Write
<1>3. ~seen
  <2> SUFFICES ASSUME seen
               PROVE  FALSE
    OBVIOUS
  <2>1. autoRerun = FALSE
    BY <1>1, <1>2 DEF Scheduled, IInv, RerunTyped
  <2>2. unrun' = "dirty"
    BY <1>1, <1>2, <2>1 DEF Flagged
  <2>3. QED
    BY <2>2
<1>4. ~pending /\ unrun = "nothing"
  BY <1>2, <1>3 DEF Scheduled, Flagged
<1>5. Watched(s) = Watched(ui)
  BY <1>2, <1>3, Zenon DEF Seen
<1>6. shown = RunInputs(ui)
  BY <1>1, <1>4 DEF ScreenCatchesUp
<1>7. Sound(ui, marks) /\ Sound(s, marks')
  BY <1>1 DEF IInv
<1>8. RunInputs(s) = RunInputs(ui)
  BY <1>1, <1>5, <1>7, WatchedDecides
<1>9. QED
  BY <1>1, <1>6, <1>8

LEMMA ScreenStep == IInv /\ IInv' /\ ScreenCatchesUp /\ [Next]_vars => ScreenCatchesUp'
<1> SUFFICES ASSUME IInv, IInv', ScreenCatchesUp, [Next]_vars
             PROVE  ScreenCatchesUp'
  OBVIOUS
<1>r. ASSUME NEW STATE s, NEW STATE scheduled, NEW STATE flag, NEW STATE m,
             RunOn(s, scheduled, flag, m)
      PROVE  ScreenCatchesUp'
  BY <1>r DEF RunOn, ScreenCatchesUp
<1>1. ASSUME NEW c \in Categories, NEW a \in Of[c], Select(c, a)
      PROVE  ScreenCatchesUp'
  BY <1>1, WriteShown DEF Select
<1>2. ASSUME NEW cm \in OfferedModes, SelectCipherMode(cm)
      PROVE  ScreenCatchesUp'
  BY <1>2, WriteShown DEF SelectCipherMode
<1>3. ASSUME NEW scheme \in OfferedPadding, SelectPadding(scheme)
      PROVE  ScreenCatchesUp'
  BY <1>3, WriteShown DEF SelectPadding
<1>4. ASSUME NEW n, Flip(n)
      PROVE  ScreenCatchesUp'
  BY <1>4, WriteShown DEF Flip
<1>5. ASSUME NEW text, TypeInput(text) \/ TypeKey(text)
      PROVE  ScreenCatchesUp'
  BY <1>5, WriteShown DEF TypeInput, TypeKey
<1>6. CASE LeaveKeyField \/ TypeIv \/ EditSpec \/ Reset
  BY <1>6, WriteShown DEF LeaveKeyField, TypeIv, EditSpec, Reset
<1>7. CASE PressRun \/ TimerFires
  BY <1>7, <1>r DEF PressRun, TimerFires
<1>8. CASE Reload
  BY <1>8 DEF Reload, ScreenCatchesUp
<1>9. ASSUME NEW n \in TypedOutputs, TypeOutputLength(n)
      PROVE  ScreenCatchesUp'
  BY <1>9, WriteShown DEF TypeOutputLength
<1>10. ASSUME NEW full \in BOOLEAN, Save(full)
       PROVE  ScreenCatchesUp'
  BY <1>10 DEF Save, rerun, ScreenCatchesUp
<1>11. ASSUME NEW d \in files, Load(d)
       PROVE  ScreenCatchesUp'
  BY <1>11, <1>r DEF Load
<1>12. CASE ToggleAutoRerun
  BY <1>12 DEF ToggleAutoRerun, ScreenCatchesUp
<1>13. CASE UNCHANGED vars
  BY <1>13 DEF vars, ScreenCatchesUp
<1>14. QED
  BY <1>1, <1>2, <1>3, <1>4, <1>5, <1>6, <1>7, <1>8, <1>9, <1>10, <1>11, <1>12, <1>13 DEF Next

\* The effect of auto-rerun watches the spec, the two fields and the IV, and
\* nothing else (App.tsx). Once a run has succeeded that is enough: whatever
\* the user mixes, with the checkbox on or off, the screen is of the settings
\* that are shown, or a run is scheduled, or manual mode has edits to run.
THEOREM ScreenCaughtUp == Spec => []ScreenCatchesUp
<1>1. Init => ScreenCatchesUp
  BY DEF Init, ScreenCatchesUp
<1>2. QED
  BY <1>1, ScreenStep, IInvInvariant, PTL DEF Spec

=============================================================================
