----------------------------- MODULE Documents -----------------------------
(***************************************************************************)
(* Files and links: core/document.ts, core/document-schema.ts,             *)
(* ui/stores/url-share.ts, and in App.tsx how the page takes in a link     *)
(* and chosen files.                                                       *)
(*                                                                         *)
(* A JSON value is a pair of its type and what it is; the bytes of a       *)
(* constant, which only a document in memory has, are a type of their own. *)
(* A schema is data too, and Refused and Read are what zod does with it: a *)
(* shape that is not strict drops the fields it does not know.             *)
(***************************************************************************)
EXTENDS Integers, FiniteSets, SequencesExt, Functions, Bench

CONSTANTS
    DocumentsSaved,   \* documents in memory
    StrayFields,      \* places of fields the schemas do not know
    LinkBytes,        \* compressed documents, as bytes
    PageFiles,        \* files on the disk
    MaxArrivals       \* bound: links and files that arrive

Obj(f) == <<"object", f>>
Arr(s) == <<"array", s>>
Text(s) == <<"string", s>>
Num(n) == <<"number", n>>
Bool(b) == <<"boolean", b>>
BytesOf(s) == <<"bytes", s>>
Fields(v) == DOMAIN v[2]

-----------------------------------------------------------------------------
(* The fields a value in memory must and may have: core/types.ts for the   *)
(* nodes and the spec, core/document.ts for the rest                       *)

ContainerMay == {"portInputs", "outputPorts", "defaultCollapsed", "seedInput", "bodyOutput"}

DocumentFields == [must |-> {"schemaVersion", "spec"}, may |-> {"algorithm", "layout", "session", "metadata"}]
SpecFields ==
    [must |-> {"id", "name", "stateShape", "inputs", "steps"}, may |-> {"cipherConstants", "outputFrom"}]
LayoutFields ==
    [must |-> {"positions", "collapsedGroups", "flowDirection"},
     may |-> {"replicationModes", "relativePositions", "expandedGroups", "strokeStyles", "expandedLabels"}]
SessionFields ==
    [must |-> {"mode", "cipher", "cipherMode", "padding", "byteFormat"}, may |-> {"inputBytes", "keyBytes", "ivBytes"}]
MetadataFields == [must |-> {}, may |-> {"name", "createdAt", "appVersion"}]

TypeFields ==
    [document |-> DocumentFields, spec |-> SpecFields, layout |-> LayoutFields,
     session |-> SessionFields, metadata |-> MetadataFields]

LeafFields == [must |-> {"id", "type", "params"}, may |-> {"portInputs", "narrationOverride"}]
GroupFields == [must |-> {"id", "label", "children"}, may |-> ContainerMay]
IterateFields ==
    [must |-> {"id", "children"},
     may |-> ContainerMay \cup {"label", "countFromAux", "blocksFromAux", "outBlocksAux", "blockByteLength",
               "chainInput", "chainFeedback", "chainOutput", "allowPartialFinalBlock", "stopWhen"}]
ForEachFields ==
    [must |-> {"id", "children"},
     may |-> ContainerMay \cup {"label", "iterationCount", "inputArrayPort", "outputsPort",
               "blockByteLength", "blockLayout"}]
WithHistoryFields ==
    [must |-> {"id", "children", "iterationCount", "lookbackOffsets", "historyEntryByteLength"},
     may |-> ContainerMay \cup {"label", "outputAux"}]

NodeFields ==
    ("step" :> LeafFields) @@ ("group" :> GroupFields) @@ ("iterate" :> IterateFields)
    @@ ("for-each-subgraph" :> ForEachFields) @@ ("for-each-subgraph-with-history" :> WithHistoryFields)

-----------------------------------------------------------------------------
(* Schemas                                                                 *)

Str == <<"str">>
OneOf(S) == <<"one of", S>>
IntIn(S) == <<"int", S>>
ListOf(s) == <<"list", s>>
Sixteen(s) == <<"sixteen", s>>
RecordOf(s) == <<"record", s>>
Either(s, t) == <<"either", s, t>>
Shape(strict, required, optional) == <<"shape", strict, required, optional>>
Loose(required, optional) == Shape(FALSE, required, optional)
Strict(required, optional) == Shape(TRUE, required, optional)
NodeRef == <<"node">>
AnyJson == <<"any">>
Hex == <<"hex">>
None == [x \in {} |-> Str]

ByteInt == IntIn(0..255)
Positive == IntIn(Nat \ {0})

ALGORITHM_IDS == {"aes-128", "des", "chacha20", "sha-256", "rsa", "mt19937", "ntt-3329-256"}  \* a few of each kind
CIPHER_IDS == {"aes-128", "des", "chacha20"}

PortBindingSchema == Loose([node |-> Str, port |-> Str], None)
StepDocumentationSchema ==
    Loose([name |-> Str, summary |-> Str, detail |-> Str], [references |-> ListOf(Str)])

ContainerPortEdgeFields ==
    [portInputs |-> RecordOf(PortBindingSchema), outputPorts |-> ListOf(Str),
     defaultCollapsed |-> <<"bool">>]

LoopingContainerSeedFields == [seedInput |-> PortBindingSchema, bodyOutput |-> PortBindingSchema]
ContainerFields == ContainerPortEdgeFields @@ LoopingContainerSeedFields

IterationCount == Either(IntIn(Nat), Loose([fromParam |-> Str], None))

Tagged(required) == [kind |-> Str, id |-> Str] @@ required
Labelled == [label |-> Str]
Holding == [children |-> ListOf(NodeRef)]

StepLeafSchema ==
    Loose(Tagged([type |-> Str, params |-> AnyJson]),
          [portInputs |-> RecordOf(PortBindingSchema), narrationOverride |-> StepDocumentationSchema])
StepGroupSchema == Loose(Tagged(Labelled @@ Holding), ContainerFields)
IterateGroupSchema ==
    Loose(Tagged(Holding),
          Labelled @@ ContainerFields
          @@ [f \in {"countFromAux", "blocksFromAux", "outBlocksAux", "chainOutput"} |-> Str]
          @@ [f \in {"chainInput", "chainFeedback", "stopWhen"} |-> PortBindingSchema]
          @@ [blockByteLength |-> Positive, allowPartialFinalBlock |-> <<"bool">>])
ForEachSubgraphSchema ==
    Loose(Tagged(Holding),
          Labelled @@ ContainerFields
          @@ [iterationCount |-> IterationCount, inputArrayPort |-> Str, outputsPort |-> Str,
              blockByteLength |-> Positive, blockLayout |-> OneOf({"bytes", "matrix4x4-bytes"})])
ForEachSubgraphWithHistorySchema ==
    Loose(Tagged(Holding @@ [iterationCount |-> IterationCount, lookbackOffsets |-> ListOf(Positive),
                             historyEntryByteLength |-> Positive]),
          Labelled @@ ContainerFields @@ [outputAux |-> Str])

\* StepNodeSchema: the schema of a node, by its kind.
StepNodeSchema ==
    ("step" :> StepLeafSchema) @@ ("group" :> StepGroupSchema) @@ ("iterate" :> IterateGroupSchema)
    @@ ("for-each-subgraph" :> ForEachSubgraphSchema)
    @@ ("for-each-subgraph-with-history" :> ForEachSubgraphWithHistorySchema)

CipherSpecSchema ==
    LET shaped == OneOf({"bytes", "matrix4x4-bytes"})
    IN Loose([id |-> Str, name |-> Str, stateShape |-> shaped, steps |-> ListOf(NodeRef),
              inputs |-> Loose([plaintext |-> Loose([shape |-> shaped], None),
                                key |-> Loose([byteLength |-> IntIn(Nat)], None)], None)],
             [cipherConstants |-> RecordOf(Hex), outputFrom |-> PortBindingSchema])

LayoutSpecSchema ==
    Strict([positions |-> RecordOf(Strict([x |-> IntIn(Int), y |-> IntIn(Int)], None)),
            collapsedGroups |-> ListOf(Str), flowDirection |-> OneOf({"ltr"})],
           [replicationModes |-> RecordOf(OneOf({"always", "never"})),
            relativePositions |-> RecordOf(Strict([dx |-> IntIn(Int), dy |-> IntIn(Int)], None)),
            expandedGroups |-> ListOf(Str), strokeStyles |-> RecordOf(Str), expandedLabels |-> ListOf(Str)])

SessionSnapshotSchema ==
    Strict([mode |-> OneOf({"encrypt", "decrypt"}), cipher |-> OneOf(CIPHER_IDS),
            cipherMode |-> OneOf({"single-block", "ecb", "cbc", "ctr", "cfb", "ofb", "stream"}),
            padding |-> OneOf({"none", "pkcs7", "zero-pad", "iso7816-4"}),
            byteFormat |-> OneOf({"hex", "decimal", "ascii"})],
           [inputBytes |-> ListOf(ByteInt), keyBytes |-> ListOf(ByteInt), ivBytes |-> Sixteen(ByteInt)])

DocumentMetadataSchema == Strict(None, [name |-> Str, createdAt |-> IntIn(Int), appVersion |-> Str])

CipherDocumentSchema ==
    Strict([schemaVersion |-> IntIn({3}), spec |-> CipherSpecSchema],
           [algorithm |-> OneOf(ALGORITHM_IDS), layout |-> LayoutSpecSchema,
            session |-> SessionSnapshotSchema, metadata |-> DocumentMetadataSchema])

-----------------------------------------------------------------------------
(* What zod makes of a value                                               *)

Resolved(s, v) ==    \* the discriminated union
    IF s # NodeRef THEN s
    ELSE IF v[1] = "object" /\ "kind" \in Fields(v) /\ v[2].kind[2] \in DOMAIN StepNodeSchema
         THEN StepNodeSchema[v[2].kind[2]] ELSE <<"nothing">>

RECURSIVE Refused(_, _)
Refused(schema, v) ==
    LET s == Resolved(schema, v)
        each(t) == \E i \in DOMAIN v[2] : Refused(t, v[2][i])
    IN CASE s[1] = "str" -> v[1] # "string"
         [] s[1] = "bool" -> v[1] # "boolean"
         [] s[1] = "any" -> v[1] = "bytes"
         [] s[1] = "one of" -> v[1] # "string" \/ v[2] \notin s[2]
         [] s[1] = "int" -> v[1] # "number" \/ v[2] \notin s[2]
         [] s[1] = "hex" -> v[1] # "string" \/ Len(v[2]) % 2 # 0
         [] s[1] = "list" -> v[1] # "array" \/ each(s[2])
         [] s[1] = "sixteen" -> v[1] # "array" \/ Len(v[2]) # 16 \/ each(s[2])
         [] s[1] = "record" -> v[1] # "object" \/ each(s[2])
         [] s[1] = "either" -> Refused(s[2], v) /\ Refused(s[3], v)
         [] s[1] = "shape" ->
              \/ v[1] # "object" \/ ~(DOMAIN s[3] \subseteq Fields(v))
              \/ s[2] /\ ~(Fields(v) \subseteq DOMAIN s[3] \cup DOMAIN s[4])
              \/ \E f \in DOMAIN s[3] \cap Fields(v) : Refused(s[3][f], v[2][f])
              \/ \E f \in DOMAIN s[4] \cap Fields(v) : Refused(s[4][f], v[2][f])
         [] OTHER -> TRUE

RECURSIVE Read(_, _)
Read(schema, v) ==
    LET s == Resolved(schema, v)
    IN CASE s[1] \in {"list", "sixteen", "record"} ->
              <<v[1], [i \in DOMAIN v[2] |-> Read(s[2], v[2][i])]>>
         [] s[1] = "either" -> IF Refused(s[2], v) THEN Read(s[3], v) ELSE Read(s[2], v)
         [] s[1] = "shape" ->
              Obj([f \in Fields(v) \cap (DOMAIN s[3] \cup DOMAIN s[4]) |->
                     Read(IF f \in DOMAIN s[3] THEN s[3][f] ELSE s[4][f], v[2][f])])
         [] OTHER -> v

-----------------------------------------------------------------------------
(* serializeDocument, parseDocument                                        *)

BytesToHex(bytes) == [i \in 1..(2 * Len(bytes)) |->
    IF i % 2 = 1 THEN bytes[(i + 1) \div 2] \div 16 ELSE bytes[i \div 2] % 16]
HexToBytes(digits) == [i \in 1..(Len(digits) \div 2) |-> 16 * digits[(2 * i) - 1] + digits[2 * i]]

\* The constants of the spec, each through F.
ConstantsThrough(doc, F(_)) ==
    IF "cipherConstants" \notin Fields(doc[2].spec) THEN doc
    ELSE LET constants == doc[2].spec[2].cipherConstants[2]
         IN Obj([doc[2] EXCEPT !.spec =
                Obj([@[2] EXCEPT !.cipherConstants = Obj([n \in DOMAIN constants |-> F(constants[n])])])])

\* JSON.stringify and JSON.parse give the value back; the order of the keys is left out.
SerializeDocument(doc) == ConstantsThrough(doc, LAMBDA v : Text(BytesToHex(v[2])))

ACCEPTED_SCHEMA_VERSIONS == {1, 2, 3}

MigrateDocument(doc, v) ==
    LET bumped == [doc[2] EXCEPT !.schemaVersion = Num(3)]
        rest == Restrict(bumped, DOMAIN bumped \ {"cipher"})
    IN Obj(IF "cipher" \in DOMAIN bumped THEN ("algorithm" :> bumped.cipher) @@ rest ELSE rest)

\* <<document>>, or nothing with an error.
ParseDocument(raw) ==
    LET v == raw[2].schemaVersion[2]
        now == IF v = 3 THEN raw ELSE MigrateDocument(raw, v)
    IN IF v \notin ACCEPTED_SCHEMA_VERSIONS \/ Refused(CipherDocumentSchema, now) THEN <<>>
       ELSE <<ConstantsThrough(Read(CipherDocumentSchema, now), LAMBDA x : BytesOf(HexToBytes(x[2])))>>

-----------------------------------------------------------------------------
(* A document on its way                                                   *)

DocumentJob(d) ==
    [kind |-> "document", doc |-> d, text |-> <<>>, old |-> FALSE, stray |-> "", result |-> <<>>, read |-> FALSE]

Save ==
    /\ job.kind = "document" /\ job.text = <<>>
    /\ job' = [job EXCEPT !.text = SerializeDocument(job.doc)]

Waiting(j) == j.kind = "document" /\ j.text # <<>> /\ ~j.read

\* What versions 1 and 2 wrote for the document; they knew ciphers only.
SavedByVersion(v) ==
    LET fields == job.text[2]
        rest == Restrict(fields, DOMAIN fields \ {"algorithm"})
    IN /\ Waiting(job) /\ ~job.old
       /\ "algorithm" \in DOMAIN fields => fields.algorithm[2] \in CIPHER_IDS
       /\ job' = [job EXCEPT !.old = TRUE, !.text = Obj([
             (IF "algorithm" \in DOMAIN fields THEN ("cipher" :> fields.algorithm) @@ rest ELSE rest)
             EXCEPT !.schemaVersion = Num(v)])]

\* A field that only another version of the application knows.
Stray(v) == Obj(("stray" :> Bool(TRUE)) @@ v[2])
AddStray(place) ==
    LET t == job.text[2]
        has(part) == part \in DOMAIN t
    IN /\ Waiting(job) /\ job.stray = ""
       /\ \/ place = "document" /\ job' = [job EXCEPT !.stray = place, !.text = Stray(@)]
          \/ /\ place \in {"spec", "layout", "session", "metadata"} /\ has(place)
             /\ job' = [job EXCEPT !.stray = place, !.text[2][place] = Stray(@)]
          \/ /\ place = "node" /\ t.spec[2].steps[2] # <<>>
             /\ job' = [job EXCEPT !.stray = place, !.text[2].spec[2].steps[2][1] = Stray(@)]

Load ==
    /\ Waiting(job)
    /\ job' = [job EXCEPT !.read = TRUE, !.result = ParseDocument(job.text)]

-----------------------------------------------------------------------------
(* url-share.ts: bytes as base64url.  A character is its number in the     *)
(* alphabet of base64, or one of the three that differ.                    *)

Pad == 64
Dash == 65            \* stands for 62, a plus sign
Underscore == 66      \* stands for 63, a slash

\* btoa and atob; atob refuses a length that is no multiple of four.
Btoa(bytes) ==
    LET n == Len(bytes)
        at(i) == IF i <= n THEN bytes[i] ELSE 0
        quad(k) == LET a == at(3 * k + 1)  b == at(3 * k + 2)  c == at(3 * k + 3)
                   IN <<a \div 4, 16 * (a % 4) + b \div 16, 4 * (b % 16) + c \div 64, c % 64>>
        all == FlattenSeq([k \in 1..((n + 2) \div 3) |-> quad(k - 1)])
    IN [i \in DOMAIN all |-> IF 3 * i > (4 * n) + 2 THEN Pad ELSE all[i]]

Atob(chars) ==
    LET data == SelectSeq(chars, LAMBDA c : c # Pad)
        at(i) == IF i <= Len(data) THEN data[i] ELSE 0
        triple(k) == LET a == at(4 * k + 1)  b == at(4 * k + 2)  c == at(4 * k + 3)  d == at(4 * k + 4)
                     IN <<4 * a + b \div 16, 16 * (b % 16) + c \div 4, 64 * (c % 4) + d>>
    IN IF Len(chars) % 4 # 0 \/ Len(chars) - Len(data) > 2 THEN <<>>
       ELSE <<SubSeq(FlattenSeq([k \in 1..(Len(chars) \div 4) |-> triple(k - 1)]), 1, (3 * Len(data)) \div 4)>>

ToBase64Url(bytes) ==
    LET url == [c \in 0..Pad |-> IF c = 62 THEN Dash ELSE IF c = 63 THEN Underscore ELSE c]
        b64 == Btoa(bytes)
    IN SelectSeq([i \in DOMAIN b64 |-> url[b64[i]]], LAMBDA c : c # Pad)

Padding(n) == (4 - (n % 4)) % 4

FromBase64Url(chars) ==
    LET plain == [i \in DOMAIN chars |->
                    IF chars[i] = Dash THEN 62 ELSE IF chars[i] = Underscore THEN 63 ELSE chars[i]]
    IN Atob(plain \o [i \in 1..Padding(Len(chars)) |-> Pad])

LinkJob(bytes) == [kind |-> "link", bytes |-> bytes, hash |-> <<>>, back |-> <<>>, at |-> "made"]
Share ==
    /\ job.kind = "link" /\ job.at = "made"
    /\ job' = [job EXCEPT !.at = "shared", !.hash = ToBase64Url(job.bytes)]
Follow ==
    /\ job.kind = "link" /\ job.at = "shared"
    /\ job' = [job EXCEPT !.at = "followed", !.back = FromBase64Url(job.hash)]

-----------------------------------------------------------------------------
(* The page: onMount, handleLoadFromText and onFileChosen of App.tsx.  The *)
(* link and the texts of files arrive in any order, intact or not.         *)

Link == "link"
PageJob(linked) ==
    [kind |-> "page", coming |-> IF linked THEN {Link} ELSE {}, hash |-> linked, value |-> "",
     shown |-> "default", error |-> "", ran |-> ~linked, arrived |-> <<>>]

\* The browser reports a choice only when it differs from the input's value.
ChooseFile(f) ==
    /\ job.kind = "page" /\ job.value # f /\ f \notin job.coming
    /\ Len(job.arrived) + Cardinality(job.coming) < MaxArrivals
    /\ job' = [job EXCEPT !.value = f, !.coming = @ \cup {f}]

\* Mutant of PageShowsLastIntact: a document that is applied leaves the error.
AppliedUnderError(j, x) == [j EXCEPT !.shown = x, !.ran = TRUE]

\* applyDocument: the spec and the fields, no error, and a run.
Applied(j, x) == [j EXCEPT !.shown = x, !.error = "", !.ran = TRUE]

ResetInput(j, intact) == ""

Arrive(x, intact) ==
    /\ job.kind = "page" /\ x \in job.coming
    /\ LET j == [job EXCEPT !.coming = @ \ {x}, !.arrived = Append(@, [from |-> x, intact |-> intact])]
           taken == IF intact THEN Applied(j, x) ELSE [j EXCEPT !.error = x]
       IN job' = IF x = Link THEN [taken EXCEPT !.hash = ~intact]
                 ELSE [taken EXCEPT !.value = ResetInput(j, intact)]

DocumentNext ==
    \/ Save \/ Load \/ Share \/ Follow
    \/ \E v \in {1, 2} : SavedByVersion(v)
    \/ \E place \in StrayFields : AddStray(place)
    \/ \E f \in PageFiles : ChooseFile(f)
    \/ \E x \in PageFiles \cup {Link}, intact \in BOOLEAN : Arrive(x, intact)

-----------------------------------------------------------------------------
(* Properties                                                              *)

\* A session with an IV that is not 16 bytes long is saved and cannot be loaded.
Loadable(d) ==
    "session" \in Fields(d) /\ "ivBytes" \in Fields(d[2].session) => Len(d[2].session[2].ivBytes[2]) = 16

\* What is saved comes back whole: no field that the types let a document, a layout, a
\* session or a node of a spec have is lost on the way.
SavedLoadsBack ==
    job.kind = "document" /\ job.read /\ ~job.old /\ job.stray = ""
      => job.result = IF Loadable(job.doc) THEN <<job.doc>> ELSE <<>>

\* What versions 1 and 2 saved is loaded as what they meant.
OldFilesLoad ==
    job.kind = "document" /\ job.read /\ job.old /\ job.stray = "" /\ Loadable(job.doc)
      => job.result = <<job.doc>>

\* A field nobody knows is ignored inside a spec, and nothing is lost with it; anywhere
\* else the document is refused, and never read without the field.
StrayFieldsAreSeen ==
    job.kind = "document" /\ job.read /\ job.stray # "" /\ Loadable(job.doc)
      => job.result = IF job.stray \in {"spec", "node"} THEN <<job.doc>> ELSE <<>>

\* A link gives back the bytes it was made of, whatever their number.
LinkBytesComeBack == job.kind = "link" /\ job.at = "followed" => job.back = <<job.bytes>>

\* In whatever order a link and files arrive, the page shows the last document that was
\* intact, under no older error; the link stays in the address until it was taken; and
\* something has run, unless the link is still to come or was broken.
PageShowsLastIntact ==
    job.kind = "page" =>
      LET good == SelectSeq(job.arrived, LAMBDA a : a.intact)
          bad(a) == ~a.intact
      IN /\ job.shown = IF good = <<>> THEN "default" ELSE Last(good).from
         /\ job.error = IF job.arrived # <<>> /\ bad(Last(job.arrived)) THEN Last(job.arrived).from ELSE ""
         /\ ~job.hash \/ [from |-> Link, intact |-> TRUE] \notin ToSet(job.arrived)
         /\ job.ran \/ Link \in job.coming \/ [from |-> Link, intact |-> FALSE] \in ToSet(job.arrived)

\* Once nothing is on its way, every file can be chosen, also one that was just refused.
FilesCanBeChosenAgain ==
    job.kind = "page" /\ job.coming \subseteq {Link} => job.value = ""

=============================================================================
