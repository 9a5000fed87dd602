----------------------------- MODULE Primitives -----------------------------
(***************************************************************************)
(* The parts of the application that keep no state of each other's, one    *)
(* beside the other: the computations of the ciphers, the pictures of      *)
(* rounds, the pane with its boxes and pins, the view's preferences and    *)
(* arrow colours, and documents on their way through files and links.  A   *)
(* job is one of them with its inputs, and a behaviour carries it out.     *)
(* Each family's module has the steps of its jobs and what they promise;   *)
(* no two jobs meet, so this module only lets one of them be chosen.       *)
(***************************************************************************)
EXTENDS StepRows, StreamCiphers, Generators, Hashes, MlKem, MlDsa, KeyedCiphers, RoundLayouts, Canvas, Preferences

CONSTANTS RowCases,  \* steps with their input rows
          Streams,   \* stream ciphers with keys, IVs and messages
          Keys,      \* RSA parameters and messages
          Lcgs,      \* generators with seeds and requests
          Twisters,  \* seeds and requests of the twister
          Messages,  \* what is hashed
          Ciphers,   \* block ciphers with keys and blocks
          Matrices   \* what the editor of a matrix is asked to invert

Init ==
    \/ \E c \in RowCases : ~Throws(c.step, c.in) /\ job = RowJob(c.step, c.in)
    \/ \E m \in Matrices : job = InverseJob(m)
    \/ \E s \in Streams : job = StreamJob(s.cipher, s.key, s.iv, s.message)
    \/ \E k \in Keys : job = RsaJob(k.width, k.p, k.q, k.e, k.message)
    \/ \E g \in Lcgs : job = LcgJob(g.params, g.seed, g.request)
    \/ \E m \in Messages : job = ShaJob(m)
    \/ \E s \in Sponges : job = SpongeJob(s.f, s.message, s.request)
    \/ \E t \in Twisters : job = TwisterJob(t.seed, t.request)
    \/ \E t \in Transforms : job = NttJob(t.p, t.a, t.b)
    \/ \E c \in Codecs : job = CodecJob(c.p, c.d, 0)
    \/ \E s \in Seeds : job = KemJob(s)
    \/ \E p \in Roundings : job = RoundingJob(p, 0)
    \/ \E h \in HintCodes : job = HintJob(h.y, h.omega, h.n)
    \/ \E s \in Signings : job = SignJob(s)
    \/ \E c \in Ciphers : job = CipherJob(c)
    \/ \E s \in DOMAIN RoundScenes : job = RoundJob(s)
    \/ \E s \in DOMAIN CanvasScenes : \E t \in CanvasScenes[s].thresholds : job = CanvasJob(s, t)
    \/ \E x \in PinnedAt, q \in 3..5 : job = PinJob(x, q)
    \/ \E d \in DocumentsSaved : job = DocumentJob(d)
    \/ \E b \in LinkBytes : job = LinkJob(b)
    \/ \E linked \in BOOLEAN : job = PageJob(linked)
    \/ \E k \in Stores : \E before \in StoredBefore[k] : job = ViewJob(k, before)
    \/ job = ScaleJob
    \/ \E g \in ColoredGraphs : job = SourcesJob(g)

Next == EditByte \/ GaloisNext \/ StreamNext \/ RsaNext \/ GeneratorNext
        \/ ShaNext \/ SpongeNext \/ LatticeNext \/ KemNext \/ DsaNext \/ CipherNext \/ RoundNext
        \/ CanvasNext \/ DocumentNext \/ ViewNext \/ SourcesNext

Spec == Init /\ [][Next]_job

-----------------------------------------------------------------------------
(***************************************************************************)
(* Properties: of each family, what its module states one by one.          *)
(***************************************************************************)

\* What a step draws and computes is exact: the hover and the sentence name the
\* bytes a cell is made of, words rotate and wrap as numbers do, and the matrix
\* the editor derives is an inverse.
StepsAreExact ==
    /\ SourcesAreExact /\ SummaryMatchesRows /\ BitsAreMoved /\ SumsWrap
    /\ InverseIsInverse

\* Pipelines of bytes compute what their definitions say of numbers: stream
\* ciphers, RSA over an unrolled Euclid, and the generators' recurrences.
NumbersAreTheDefinition ==
    /\ StreamIsTheCipher /\ StreamIsUndone /\ EeaIsUnrolledFarEnough
    /\ RsaIsUndone /\ LcgIsTheRecurrence /\ TwisterIsTheRecurrence

\* The hashes are their definitions, round by round, whatever the length of a
\* message, and no two requests absorb the same bytes.
HashesAreTheDefinition ==
    /\ ShaIsTheDefinition /\ ShaPadsToTheBlock /\ KeccakIsTheDefinition
    /\ ReaderReadsTheOutput /\ AbsorbsApart

\* Keys are agreed on and signatures verify, through transforms, roundings,
\* hints and rejections, and nothing of a rejected attempt is left.
LatticeSchemesHold ==
    /\ TransformMultiplies /\ CollapsedIsDrawn /\ CompressionIsClose
    /\ DecapsAgrees /\ CiphertextIsTheDefinition /\ HintsRecover
    /\ OneEncodingOfAHint /\ SignatureVerifies /\ MasksAreFresh
    /\ RejectedLeavesNothing /\ BallIsSparse

\* A block cipher's pipeline, its drawn key schedule, its inverse and the
\* independent oracle agree.
KeyedCiphersAgree ==
    /\ ScheduleIsTheExecutors /\ DecryptionRecovers /\ CiphertextIsTheOracles
    /\ DesComplements

\* A picture of rounds shows what the rounds compute, after edits of the spec
\* too, and draws nothing over anything else.
PicturesAreTheWiring == job.kind = "round" => PicturesHold(Shapes(job.r))

\* A document comes back from files and links as it was saved, an older one is
\* migrated, a damaged one refused, and the page shows the last good arrival.
DocumentsComeBack ==
    /\ SavedLoadsBack /\ OldFilesLoad /\ StrayFieldsAreSeen
    /\ LinkBytesComeBack /\ PageShowsLastIntact /\ FilesCanBeChosenAgain

\* What was chosen of the view is what is shown after a reload, at the density
\* it is shown at, and two sources drawn alike are told apart.
ChoicesAreKept ==
    /\ ShownIsWhatWasAsked /\ PinsFollowDensity /\ LayoutsComeBack
    /\ SourcesLookApart

=============================================================================
