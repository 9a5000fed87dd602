---------------------------- MODULE MCPrimitives ----------------------------
(***************************************************************************)
(* Jobs of every family for TLC.  Bytes, words, rounds and hashes have     *)
(* their real sizes; RSA numbers have one or two bytes, the twister five   *)
(* words of two, and polynomials eight coefficients.  Two graphs are drawn *)
(* on the pane, and documents have every optional field, none, or all but  *)
(* one.                                                                    *)
(***************************************************************************)
EXTENDS Primitives

\* Rows of bytes none of which is 0, their bits in no regular order.
Pattern(n, seed) == Row([i \in 1..n |-> (((seed * 89) + (i * i * 37) + (i * 101)) % 255) + 1])
Operands(n, width) == Row([k \in 1..n |-> Pattern(width, k)])

SBox == [b \in Byte |-> (b + 1) % 256]
MixColumnsMatrix == <<<<2, 3, 1, 1>>, <<1, 2, 3, 1>>, <<1, 1, 2, 3>>, <<3, 1, 1, 2>>>>
SparseMatrix == <<<<0, 1, 0, 0>>, <<91, 0, 0, 0>>, <<0, 0, 239, 1>>, <<0, 0, 0, 1>>>>

ShuffleCases ==
    {[step |-> [type |-> t], in |-> Operands(n, 3)] : t \in {"xor", "and", "concat"}, n \in 1..3}
    \cup {[step |-> [type |-> "and"], in |-> Row([k \in 1..n |-> <<255, 128 + k, 255 - k>>])] : n \in 2..3}
    \cup {[step |-> [type |-> "not"], in |-> Operands(1, 3)]}
    \cup {[step |-> [type |-> "xor-with-aux"], in |-> Operands(2, 4)]}
    \cup {[step |-> [type |-> "byte-substitute", sbox |-> SBox], in |-> Operands(1, 3)]}
    \cup {[step |-> [type |-> "truncate-to-reference"], in |-> <<Pattern(4, 1), Pattern(n, 2)>>] : n \in 0..5}
    \cup {[step |-> [type |-> "permute", indices |-> p], in |-> Operands(1, 4)] :
            p \in {<<0, 5, 2>>, <<1, 2, 3>>, <<3, 2, 1, 0>>, <<1, 1, 2, 3>>, <<0, 1>>, <<2>>}}
    \cup {[step |-> [type |-> "concat"], in |-> <<Pattern(2, 1), <<>>, Pattern(3, 2), Pattern(1, 3)>>]}
    \cup {[step |-> [type |-> "split-bytes", widths |-> ws], in |-> Operands(1, 6)] :
            ws \in {<<1, 2, 3>>, <<3, 2, 1>>, <<2, 2>>, <<6>>}}
    \cup {[step |-> [type |-> "byte-slice", offset |-> o, length |-> 2], in |-> Operands(1, 4)] : o \in 0..2}
    \cup {[step |-> [type |-> "gf-matrix-multiply", matrix |-> m, modulus |-> p], in |-> Operands(1, n)] :
            m \in {MixColumnsMatrix, SparseMatrix, Identity}, p \in {AesModulus, 361}, n \in {4, 6, 8}}

WordCases ==
    UNION {{[step |-> [type |-> t, bits |-> n, wordBits |-> w], in |-> Operands(1, 8)] :
        t \in {"rotate-bits-left", "rotate-bits-right", "shift-bits-left", "shift-bits-right"},
        n \in {0, 1, 7, 8, 9, w - 1, w, w + 5}} : w \in {8, 16, 32, 64}}
    \cup {[step |-> [type |-> "rotate-lanes", wordBits |-> w, littleEndian |-> l, offsets |-> o],
           in |-> Operands(1, 8)] :
        w \in {16, 32, 64}, l \in BOOLEAN, o \in {<<0, 1, 14, 17>>, <<33, 12>>, <<62>>, <<9>>}}
    \cup {[step |-> [type |-> t], in |-> Operands(n, 8)] : t \in {"add-mod-16", "add-mod-32"}, n \in 2..5}
    \cup {[step |-> [type |-> t], in |-> <<<<255, 255, 255, 255>>, <<0, 0, 0, 1>>, <<255, 255, 255, 255>>>>] :
            t \in {"add-mod-16", "add-mod-32"}}

MCRowCases == ShuffleCases \cup WordCases

\* A block of two by two in each of the places where a pivot is looked for.
Block(a, b, c, d) == <<<<a, b, 0, 0>>, <<c, d, 0, 0>>, <<0, 0, 0, 1>>, <<0, 0, a, d>>>>
MCMatrices ==
    {MixColumnsMatrix, SparseMatrix, Identity, <<<<0, 0, 0, 7>>, <<0, 0, 5, 1>>, <<0, 3, 1, 1>>, <<2, 1, 1, 1>>>>}
    \cup {Block(a, b, c, d) : a, b, c, d \in {0, 1, 2, 141}}

\* The counter of the first IV wraps in its low word, that of the second in all its words.
CarryIv == <<255, 255, 255, 255, 9, 0, 0, 0, 1, 2, 3, 4, 5, 6, 7, 8>>
FullIv == [CarryIv EXCEPT ![5] = 255, ![6] = 255, ![7] = 255, ![8] = 255]
MCStreams ==
    {[cipher |-> c, key |-> Pattern(32, 1), iv |-> iv, message |-> Pattern(n, 2)] :
        c \in {"salsa20", "chacha20"}, iv \in {CarryIv, FullIv}, n \in {3, 70}}
    \cup {[cipher |-> "csprng", key |-> Pattern(32, 3), iv |-> Zeros(16), message |-> Zeros(n)] : n \in {64, 130}}

\* All exponents of a byte for small primes and for numbers that are not, Fibonacci
\* neighbours, which take Euclid longest, and the numbers the application starts with.
MCKeys ==
    {[width |-> 1, p |-> pq[1], q |-> pq[2], e |-> e, message |-> 2] :
        pq \in {<<3, 73>>, <<2, 2>>, <<7, 17>>}, e \in 0..145}
    \cup {[width |-> 1, p |-> pq[1], q |-> pq[2], e |-> 5, message |-> m] :
        pq \in {<<3, 5>>, <<3, 11>>, <<11, 3>>, <<1, 5>>, <<19, 17>>, <<9, 5>>}, m \in {0, 1, 2, 9, 14}}
    \cup {[width |-> 2, p |-> 61, q |-> 53, e |-> e, message |-> 65] : e \in {17, 1597, 65535}}

MCLcgs ==
    {[params |-> p, seed |-> s, request |-> n] :
        p \in {[a |-> 16807, c |-> 0, m |-> 32749], [a |-> 12413, c |-> 12345, m |-> 32768]},
        s \in {0, 1, 65535}, n \in {1, 2, 7}}
MCTwisters == {[seed |-> s, request |-> n] : s \in {Zeros(4), <<0, 0, 21, 113>>, <<255, 255, 255, 255>>}, n \in {1, 6, 20, 21}}

\* A message that fills a block, one that just fits it with its length, one that does not.
MCMessages == {<<>>, Pattern(55, 1), Pattern(56, 2), Pattern(64, 3), Pattern(119, 4)}

Function(name, S, key) == [name |-> name, S |-> S, key |-> key]
Sponge(f, message, request) == [f |-> f, message |-> message, request |-> request]
MCSponges ==
    {Sponge(Function("sha3-256", <<>>, <<>>), Pattern(n, 1), 32) : n \in {1, 135, 136}}
    \cup {Sponge(Function(n, <<>>, <<>>), m, 3) : n \in {"shake128", "shake256"}, m \in {<<>>, <<31>>, <<7>>}}
    \cup {Sponge(Function("shake128", <<>>, <<>>), <<7>>, n) : n \in {168, 169, 340}}
    \cup {Sponge(Function("cshake128", S, <<>>), m, 3) : S \in {<<>>, <<7>>, <<7, 0>>}, m \in {<<>>, <<7>>, <<0, 7>>}}
    \cup {Sponge(Function(n, <<7>>, k), m, l) :
            n \in {"kmac256", "kmacxof256"}, k \in {<<7>>, <<7, 0>>}, m \in {<<>>, <<0, 1>>}, l \in {4, 32}}
    \cup {Sponge(Function("kmac256", <<>>, <<7>>), <<>>, 4)}

-----------------------------------------------------------------------------
\* The modulus of ML-KEM, with a root of unity for eight coefficients in
\* pairs; a modulus with room for a complete transform; ML-DSA's parameters
\* scaled so that each of its checks but that of ct0 fails now and then.
\* A constant given the name of a definition is evaluated at every use, so
\* each profile has two names.
KemProfile == Ring(3329, 8, 2, 2580) @@ [k |-> 2, eta1 |-> 2, eta2 |-> 2, du |-> 10, dv |-> 4]
DsaProfile ==
    Ring(7681, 8, 3, 527) @@
    [k |-> 2, l |-> 2, d |-> 7, eta |-> 2, tau |-> 3, beta |-> 6, gamma1 |-> 256, gamma2 |-> 240, omega |-> 3]
MCKem == KemProfile
MCDsa == DsaProfile

Polynomial(p, a, b) == Row([i \in 1..p.n |-> ((i * i * a) + (i * b)) % p.q])
MCTransforms ==
    {[p |-> p, a |-> Polynomial(p, a, 7), b |-> Polynomial(p, 411, b)] :
        p \in {KemProfile, DsaProfile}, a \in {1, 1511}, b \in {0, 3}}
MCCodecs == {[p |-> KemProfile, d |-> d] : d \in {1, 4, 10}}
MCSeeds ==
    {[seed |-> Pattern(64, 4), m |-> <<165>>, change |-> c] : c \in {0, 7}}
    \cup {[seed |-> Pattern(64, 5), m |-> <<0>>, change |-> 21]}

\* Both parities of the number of intervals.
MCRoundings == {[q |-> 97, gamma2 |-> 4, d |-> 3], [q |-> 97, gamma2 |-> 6, d |-> 4], [q |-> 41, gamma2 |-> 4, d |-> 2]}
MCHintCodes == {[y |-> y, omega |-> 3, n |-> 5] : y \in [1..5 -> 0..4]}
Signing(x, cap, changes) ==
    [seed |-> Row([i \in 1..32 |-> i * x]), context |-> <<1>>, message |-> <<x, 2>>, cap |-> cap, changes |-> changes]
MCSignings == {Signing(2, 6, {0, 0 - 1, 40, ML_DSA_SIG_BYTES}), Signing(2, 1, {0}), Signing(4, 6, {0})}

-----------------------------------------------------------------------------
\* Every cipher at its real size, AES also with rounds duplicated or deleted.
Enciphered(cipher, key, block, rounds) ==
    [cipher |-> cipher, key |-> Pattern(key, 1), block |-> Pattern(block, 2), rounds |-> rounds]
MCCiphers ==
    {Enciphered("aes", 4 * nk, 16, nk + 6 + more) : nk \in {4, 6, 8}, more \in {0, 12}}
    \cup {Enciphered("aes", 16, 16, 1), Enciphered("aes", 32, 16, 2)}
    \cup {Enciphered("serpent", k, 16, 32) : k \in {16, 24, 32}}
    \cup {Enciphered(c, 8, 4, 22) : c \in {"speck-be", "speck-le"}}
    \cup {Enciphered(c, 8, 8, 16) : c \in {"des", "blowfish"}}
    \cup {Enciphered("twofish", 16, 16, 16)}

-----------------------------------------------------------------------------
\* Rounds as the ciphers build them and up to two edits of each; in the double rounds
\* only one quarter round of the eight is edited.  Leaves in the three densities.
Scene(edits, editable, sources, amounts) ==
    [edits |-> edits, editable |-> editable, sources |-> sources, amounts |-> amounts]
Leaf == 1..250
FirstPorts(S) == S \X {0}
MCRoundScenes ==
    [s \in {"des", "ntt", "ntt-back"} |-> Scene(2, Leaf, ({0, 2, 4} \X {0, 1}) \cup FirstPorts(3..20), {})]
    @@ [s \in {"des-last", "blowfish"} |-> Scene(1, Leaf, ({2, 6} \X (0..3)) \cup FirstPorts(0..30), {})]
    @@ [s \in {"twofish", "twofish-back"} |-> Scene(1, Leaf, ({2, 4} \X (0..3)) \cup FirstPorts(0..60), {})]
    @@ [s \in {"chacha20", "salsa20"} |-> Scene(1, 28..51, ({2} \X {0, 1, 5}) \cup FirstPorts(0..51), {7, 8, 16, 18})]
MCLeafSizes == {<<132, 28>>, <<99, 21>>, <<165, 35>>}

-----------------------------------------------------------------------------
\* Two panes.
Id(n) == << <<n, 0>> >>
Wire(x, fp, y, tp) ==
    [from |-> x, to |-> y, kind |-> "state", key |-> Graph!PortFlow, fp |-> fp, tp |-> tp]
Aux(x, k, y) == [from |-> x, to |-> y, kind |-> "aux", key |-> <<k, 0>>, fp |-> "", tp |-> ""]
State(x, y) == [from |-> x, to |-> y, kind |-> "state", key |-> Graph!StateKey, fp |-> "", tp |-> ""]

\* The nodes at the top, the containers with what is in them, and the edges.
GraphOf(tops, boxes, edges) ==
    LET parent(n) == {b \in DOMAIN boxes : \E i \in DOMAIN boxes[b].kids : boxes[b].kids[i] = n}
        path[n \in {"$input", "__cipher_output__"} \cup ToSet(tops) \cup DOMAIN boxes
                   \cup UNION {ToSet(boxes[b].kids) : b \in DOMAIN boxes}] ==
            IF parent(n) = {} THEN <<>>
            ELSE LET b == CHOOSE x \in parent(n) : TRUE IN Append(path[b], Id(b))
        named(n) == {b \in DOMAIN boxes : Id(b) = n}
        all == {n \in DOMAIN path : n \in ToSet(tops) \/ path[n] # <<>>}
    IN [path |-> [x \in {Id(n) : n \in all} |-> path[x[1][1]]],
        kind |-> [x \in {Id(b) : b \in DOMAIN boxes} |-> boxes[x[1][1]].kind],
        span |-> [x \in {Id(b) : b \in DOMAIN boxes} |-> boxes[x[1][1]].span],
        kids |-> [x \in {<<>>} \cup {Id(b) : b \in DOMAIN boxes} |->
                    LET names == IF x = <<>> THEN tops ELSE boxes[x[1][1]].kids
                    IN [i \in DOMAIN names |-> Id(names[i])]],
        edges |-> edges, source |-> <<>>, spine |-> {}]

\* A block mode: a loop of two rounds that feeds back, keys, and an IV.
Chained ==
    [graph |-> GraphOf(<<"$input", "key", "iv", "loop", "__cipher_output__">>,
        "loop" :> [kind |-> "iterate", span |-> 2, kids |-> <<"xor", "r1", "r2", "cut">>]
        @@ "r1" :> [kind |-> "group", span |-> 0, kids |-> <<"s1", "m1", "a1">>]
        @@ "r2" :> [kind |-> "group", span |-> 0, kids |-> <<"a2">>],
        <<Wire(Id("$input"), "out", Id("xor"), "x"), Wire(Id("xor"), "out", Id("s1"), "x"),
          Wire(Id("s1"), "out", Id("m1"), "x"), Wire(Id("xor"), "out", Id("m1"), "y"),
          Wire(Id("m1"), "out", Id("a1"), "x"), Wire(Id("a1"), "out", Id("a2"), "x"),
          Wire(Id("a2"), "out", Id("cut"), "x"), Wire(Id("$input"), "out", Id("cut"), "y"),
          Aux(Id("key"), "k1", Id("a1")), Aux(Id("key"), "k2", Id("a2")), Aux(Id("iv"), "iv", Id("xor")),
          Aux(Id("cut"), "fb", Id("xor")), State(Id("loop"), Id("__cipher_output__"))>>),
     defaults |-> {}, apart |-> {Id("key")}, 
     labels |-> [x \in {Id("loop"), Id("r1"), Id("r2")} |-> IF x = Id("r1") THEN 40 ELSE 6],
     curated |-> <<>>, thresholds |-> {0, 1}, alike |-> {Id("s1"), Id("m1"), Id("a2"), Id("iv"), Id("cut")}]

\* A node with many wires in and one with many out, a long loop, a group that starts
\* collapsed, and a node the curated layout pins.
Fanned ==
    [graph |-> GraphOf(<<"$input", "split", "keys", "loop", "join", "__cipher_output__">>,
        "keys" :> [kind |-> "group", span |-> 0, kids |-> <<"k1", "k2">>]
        @@ "loop" :> [kind |-> "iterate", span |-> 5, kids |-> <<"w1", "w2", "w3", "w4", "w5", "w6", "w7", "w8">>],
        <<Wire(Id("$input"), "out", Id("split"), "x")>>
        \o [i \in 1..4 |-> Wire(Id("split"), <<"o1", "o2", "o3", "o4">>[i], Id("join"), <<"a", "b", "c", "d">>[i])]
        \o <<Wire(Id("split"), "o5", Id("w1"), "x"), Aux(Id("k1"), "k1", Id("w1")), Aux(Id("k2"), "k2", Id("w2")),
             Aux(Id("k2"), "k2", Id("join"))>>
        \o [i \in 1..7 |-> Wire(Id(<<"w1", "w2", "w3", "w4", "w5", "w6", "w7">>[i]), "out",
                                Id(<<"w2", "w3", "w4", "w5", "w6", "w7", "w8">>[i]), "x")]
        \o <<Aux(Id("w8"), "fb", Id("w1")), Wire(Id("w8"), "out", Id("join"), "e"),
             State(Id("join"), Id("__cipher_output__"))>>),
     defaults |-> {Id("keys")}, apart |-> {}, labels |-> [x \in {Id("keys"), Id("loop")} |-> 30],
     curated |-> Id("join") :> [x |-> Px(200), y |-> Px(500)], thresholds |-> {0, 2},
     alike |-> {Id(x) : x \in {"k1", "w2", "w3", "w4", "w5", "w6", "w7", "w8", "split"}}]

CanvasPanes == "chained" :> Chained @@ "fanned" :> Fanned
MCCanvasScenes == CanvasPanes
NoScenes == <<>>
\* A pointer goes a little way, one too short to count, and far out.
MCPointerMoves == {<<2, 1>>, <<400, -20>>}
MCPinnedAt == 0..100 \cup 380..410

-----------------------------------------------------------------------------
\* A value for every field, and documents that have all of their optional fields, none,
\* or all but one.
Port(n) == Obj([node |-> Text(n), port |-> Text("out")])
Leaf0 == Obj([kind |-> Text("step"), id |-> Text("leaf"), type |-> Text("xor@1"), params |-> Obj([bits |-> Num(3)])])
FieldValues ==
    [f \in {"id", "label", "countFromAux", "blocksFromAux", "outBlocksAux", "chainOutput", "inputArrayPort",
            "outputsPort", "outputAux", "name", "appVersion"} |-> Text(f)]
    @@ [f \in {"seedInput", "bodyOutput", "chainInput", "chainFeedback", "stopWhen", "outputFrom"} |-> Port(f)]
    @@ [f \in {"inputBytes", "keyBytes"} |-> Arr(<<Num(0), Num(255)>>)]
    @@ [f \in {"collapsedGroups", "expandedGroups", "expandedLabels", "outputPorts"} |-> Arr(<<Text(f)>>)]
    @@ [f \in {"defaultCollapsed", "allowPartialFinalBlock"} |-> Bool(TRUE)]
    @@ [f \in {"blockByteLength", "historyEntryByteLength", "createdAt"} |-> Num(8)]
    @@ [type |-> Text("xor@1"), params |-> Obj([a |-> Arr(<<Num(1), Text("x"), Bool(FALSE)>>)]),
        portInputs |-> Obj([a |-> Port("p"), b |-> Port("q")]),
        narrationOverride |-> Obj([name |-> Text("n"), summary |-> Text("s"), detail |-> Text("d"),
                                   references |-> Arr(<<Text("r")>>)]),
        children |-> Arr(<<Leaf0>>), blockLayout |-> Text("bytes"),
        iterationCount |-> Obj([fromParam |-> Text("rounds")]), lookbackOffsets |-> Arr(<<Num(16), Num(2)>>),
        schemaVersion |-> Num(3), algorithm |-> Text("des"), stateShape |-> Text("bytes"),
        inputs |-> Obj([plaintext |-> Obj([shape |-> Text("bytes")]), key |-> Obj([byteLength |-> Num(0)])]),
        steps |-> Arr(<<>>), cipherConstants |-> Obj([H |-> BytesOf(<<0, 171, 15>>), K |-> BytesOf(<<>>)]),
        positions |-> Obj([k |-> Obj([x |-> Num(3), y |-> Num(-4)])]), flowDirection |-> Text("ltr"),
        replicationModes |-> Obj([k |-> Text("always")]), strokeStyles |-> Obj([k |-> Text("dashed")]),
        relativePositions |-> Obj([k |-> Obj([dx |-> Num(-1), dy |-> Num(0)])]),
        mode |-> Text("decrypt"), cipher |-> Text("des"), cipherMode |-> Text("cbc"), padding |-> Text("none"),
        byteFormat |-> Text("ascii"), ivBytes |-> Arr([i \in 1..16 |-> Num(i)])]

Filled(t, may) == Obj([f \in t.must \cup may |-> FieldValues[f]])
AllButOne(may) == {{}, may} \cup {may \ {f} : f \in may}
NodeOf(k, may) == Obj(("kind" :> Text(k)) @@ Filled(NodeFields[k], may)[2])
DocumentOf(spec, may) ==
    Obj([f \in {"schemaVersion", "spec"} \cup may |->
           IF f = "spec" THEN spec ELSE IF f \in DOMAIN TypeFields THEN Filled(TypeFields[f], TypeFields[f].may)
           ELSE FieldValues[f]])
SpecOf(steps, may) == Obj([Filled(TypeFields.spec, may)[2] EXCEPT !.steps = Arr(steps)])
Nested(n) == Obj([NodeOf("iterate", {})[2] EXCEPT !.children = Arr(<<n>>)])
OneNode(S) == {DocumentOf(SpecOf(<<n>>, {}), {}) : n \in S}
NodesOf(k) == {NodeOf(k, may) : may \in AllButOne(NodeFields[k].may)}
DocumentSamples ==
    OneNode(UNION {NodesOf(k) : k \in DOMAIN NodeFields})
    \cup OneNode({Nested(n) : n \in UNION {{NodeOf(k, NodeFields[k].may)} : k \in DOMAIN NodeFields}})
    \cup OneNode({Obj([NodeOf("for-each-subgraph", {"iterationCount"})[2] EXCEPT !.iterationCount = Num(0)])})
    \cup {DocumentOf(SpecOf(<<Leaf0>>, may), TypeFields.document.may) : may \in SUBSET TypeFields.spec.may}
    \cup {DocumentOf(SpecOf(<<Leaf0>>, {}), may) : may \in SUBSET TypeFields.document.may}
    \cup {Obj([DocumentOf(SpecOf(<<Leaf0>>, {}), {part})[2] EXCEPT ![part] = Filled(TypeFields[part], may)]) :
             <<part, may>> \in UNION {{<<p, may>> : may \in AllButOne(TypeFields[p].may)} : p \in {"layout", "session", "metadata"}}}
    \cup {Obj([DocumentOf(SpecOf(<<Leaf0>>, {}), {"session"})[2] EXCEPT !.session[2].ivBytes =
                 Arr([i \in 1..8 |-> Num(i)])])}
    \cup {Obj(("algorithm" :> Text(a)) @@ DocumentOf(SpecOf(<<>>, {}), {})[2]) : a \in ALGORITHM_IDS}
MCDocumentsSaved == DocumentSamples
MCStrayFields == {"document", "spec", "layout", "session", "metadata", "node"}
MCLinkBytes == {[i \in 1..n |-> (i * x) % 256] : n \in 0..9, x \in {1, 85, 251, 255}}

\* What the toolbars ask for, with what is to come of it; what the keys may hold at
\* first: nothing, what this version wrote, text of older ones, and damage.
Ask(v, w) == [ask |-> v, get |-> w]
Same(S) == {Ask(v, v) : v \in S}
Everywhere(k, v) == [a \in Addresses(k) |-> v]
Found(raw, means) == [raw |-> raw, means |-> means]
ThresholdRequests == {Ask(NoNumber, 2), Ask(-2, 0), Ask(1, 2), Ask(3, 4), Ask(2, 2), Ask(300, 198)}
SwitchBefore(k, default) ==
    {Found(<<>>, <<>> :> default), Found(<<Text("true")>>, <<>> :> TRUE),
     Found(<<Text("false")>>, <<>> :> FALSE), Found(<<Text("1")>>, <<>> :> default)}
Odd(k, good, means, default) ==
    {Found(<<>>, Everywhere(k, default)), Found(<<Text("{")>>, Everywhere(k, default)),
     Found(<<Num(6)>>, Everywhere(k, default)), Found(<<Arr(<<good>>)>>, Everywhere(k, default)),
     Found(<<Obj("s" :> Text("x") @@ "t" :> good)>>, (<<"t">> :> means) @@ Everywhere(k, default))}
MCRequests ==
    [viewMode |-> Same({"linear", "graph", "json"}), byteFormat |-> Same({"hex", "decimal", "ascii"}),
     zoom |-> {Ask(NoNumber, 100), Ask(20, 50), Ask(110, 110), Ask(100, 100), Ask(500, 200)},
     colorThreshold |-> ThresholdRequests, strokeThreshold |-> ThresholdRequests,
     colorOverrides |-> Same({"", "red", "blue"})]
    @@ [k \in Switches \cup {"strokeStyling"} |-> Same(BOOLEAN)]
MCStoredBefore ==
    [k \in {"coloring", "autoRerun"} |-> SwitchBefore(k, TRUE)]
    @@ [includeSingle |-> SwitchBefore("includeSingle", FALSE),
        replication |-> {Found(b.raw, <<>> :> TRUE) : b \in SwitchBefore("replication", FALSE)},
        viewMode |-> {Found(<<>>, <<>> :> "linear"), Found(<<Text("graph")>>, <<>> :> "graph"),
                      Found(<<Text("table")>>, <<>> :> "linear")},
        byteFormat |-> {Found(<<>>, <<>> :> "hex"), Found(<<Text("ascii")>>, <<>> :> "ascii"),
                        Found(<<Text("octal")>>, <<>> :> "hex")},
        zoom |-> Odd("zoom", Num(900), 200, 100) \cup Odd("zoom", Num(100), 100, 100),
        colorThreshold |-> Odd("colorThreshold", Num(3), 4, 2) \cup Odd("colorThreshold", Num(1), 2, 2),
        strokeThreshold |-> Odd("strokeThreshold", Num(200), 198, 2),
        strokeStyling |-> Odd("strokeStyling", Bool(FALSE), FALSE, TRUE),
        colorOverrides |->
          {Found(<<>>, Everywhere("colorOverrides", "")), Found(<<Num(6)>>, Everywhere("colorOverrides", "")),
           Found(<<Obj("s" :> Text("red") @@ "t" :> Obj("a" :> Text("blue") @@ "b" :> Num(2)))>>,
                  (<<"t", "a">> :> "blue") @@ Everywhere("colorOverrides", ""))}]
\* Where boxes are dropped: 393 is rounded by every flip but back, and 7 away from home.
MCPinnedHomes == {-20, 7, 393}
MCColoredGraphs ==
    {Row([i \in 1..n |-> [source |-> i, count |-> 1 + (((i * i) + n) % 4)]]) : n \in {3, 30, 640}}

=============================================================================
