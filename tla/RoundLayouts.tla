---------------------------- MODULE RoundLayouts ----------------------------
(***************************************************************************)
(* RoundScenes as the ciphers build them and as the user has then rewired them, *)
(* the drawing each is recognised for (RoundShapes), and the slots its     *)
(* leaves get in the graph (feistel-, twofish-, arx-round- and             *)
(* ntt-layout.ts).  A built leaf has an even number, so that a leaf put on *)
(* a wire finds one before its consumer; replicas come after the leaves.   *)
(***************************************************************************)
EXTENDS RoundShapes, StreamCiphers, TLC

CONSTANTS RoundScenes,    \* scene -> [edits, editable leaves, sources, amounts] the user may pick
          LeafSizes  \* <<width, height>> of a leaf in each density

\* b: one output of a leaf that has one.
Of(l) == <<l, 0>>
Unary(type, b) == BodyLeaf(type, 1, <<b>>)
SplitOf(n, b) == BodyLeaf("split", n, <<b>>)
JoinOf(in) == BodyLeaf("concat", Len(in), in)
Operation(type, in) == BodyLeaf(type, Len(in), in)
AuxLoad == BodyLeaf("aux-load", 0, <<>>)
Rotated(type, n, b) == BodyLeaf(type, n, <<b>>)

DesBody(swap) ==
    << SplitOf(2, <<0, 0>>), Unary("des.expand-R", <<1, 1>>), Unary("des.xor-with-K", Of(2)),
       Unary("des.s-boxes", Of(3)), Unary("des.p-permutation", Of(4)),
       Operation("xor", << <<1, 0>>, Of(5) >>),
       JoinOf(IF swap THEN << <<1, 1>>, Of(6) >> ELSE << Of(6), <<1, 1>> >>) >>

BlowfishBody ==
    << SplitOf(2, <<0, 0>>), Unary("xor-with-aux", <<1, 0>>), SplitOf(4, Of(2)),
       Unary("sbox-lookup", <<3, 0>>), Unary("sbox-lookup", <<3, 1>>),
       Unary("sbox-lookup", <<3, 2>>), Unary("sbox-lookup", <<3, 3>>),
       Operation("add32", << Of(4), Of(5) >>), Operation("xor", << Of(8), Of(6) >>),
       Operation("add32", << Of(9), Of(7) >>), Operation("xor", << Of(10), <<1, 1>> >>),
       JoinOf(<< Of(11), Of(2) >>) >>

\* Twofish's g on b, its leaves numbered from i.
TwofishGBody(i, b) ==
    << SplitOf(4, b) >> \o [s \in 1..4 |-> Unary("sbox-lookup", <<i, 4 - s>>)]
    \o << JoinOf([s \in 1..4 |-> Of(i + s)]), Unary("gf-matrix", Of(i + 5)), Unary("permute", Of(i + 6)) >>

TwofishBody(decrypt) ==
    << SplitOf(4, <<0, 0>>) >> \o TwofishGBody(2, <<1, 0>>)
    \o << Rotated("rotr", 24, <<1, 1>>) >> \o TwofishGBody(11, Of(10))
    \o << AuxLoad, AuxLoad, Operation("add32", << Of(9), Of(18), Of(19) >>),
          Operation("add32", << Of(18), Of(18) >>), Operation("add32", << Of(9), Of(22), Of(20) >>) >>
    \o (IF decrypt
        THEN << Rotated("rotr", 31, <<1, 2>>), Operation("xor", << Of(24), Of(21) >>),
                Operation("xor", << <<1, 3>>, Of(23) >>), Rotated("rotr", 1, Of(26)) >>
        ELSE << Operation("xor", << <<1, 2>>, Of(21) >>), Rotated("rotr", 1, Of(24)),
                Rotated("rotr", 31, <<1, 3>>), Operation("xor", << Of(26), Of(23) >>) >>)
    \o << JoinOf(<< Of(25), Of(27), <<1, 0>>, <<1, 1>> >>) >>

\* One operation of a quarter round: the rail it writes, those it reads, and the n of its
\* leaf.  Salsa20 adds and rotates on a rail of its own, 5.
ChaChaOps ==
    << <<"add32", 1, <<1, 2>>, 2>>, <<"xor", 4, <<4, 1>>, 2>>, <<"rotl", 4, <<4>>, 16>>,
       <<"add32", 3, <<3, 4>>, 2>>, <<"xor", 2, <<2, 3>>, 2>>, <<"rotl", 2, <<2>>, 12>>,
       <<"add32", 1, <<1, 2>>, 2>>, <<"xor", 4, <<4, 1>>, 2>>, <<"rotl", 4, <<4>>, 8>>,
       <<"add32", 3, <<3, 4>>, 2>>, <<"xor", 2, <<2, 3>>, 2>>, <<"rotl", 2, <<2>>, 7>> >>
SalsaWrites(target, a, b, n) ==
    << <<"add32", 5, <<a, b>>, 2>>, <<"rotl", 5, <<5>>, n>>, <<"xor", target, <<target, 5>>, 2>> >>
SalsaOps == SalsaWrites(2, 1, 4, 7) \o SalsaWrites(3, 2, 1, 9) \o SalsaWrites(4, 3, 2, 13) \o SalsaWrites(1, 4, 3, 18)

\* rails: the bindings of the quad's words; its leaves are numbered after i.
QuarterLeaves(ops, i, rails) ==
    LET writers(j, k) == {w \in 1..(j - 1) : ops[w][2] = k}
        rail(j, k) == IF writers(j, k) = {} THEN rails[k]
                      ELSE Of(i + (CHOOSE w \in writers(j, k) : \A v \in writers(j, k) : v <= w))
    IN  [leaves |-> [j \in 1..12 |-> BodyLeaf(ops[j][1], ops[j][4],
                                         [o \in DOMAIN ops[j][3] |-> rail(j, ops[j][3][o])])],
         rails |-> [k \in 1..4 |-> rail(13, k)]]

\* words: the binding of each word of the state.
RECURSIVE DoubleRoundFrom(_, _, _, _)
DoubleRoundFrom(ops, quads, words, body) ==
    IF quads = <<>> THEN Append(body, JoinOf([i \in 1..16 |-> words[i - 1]]))
    ELSE LET quad == Head(quads)
             quarter == QuarterLeaves(ops, Len(body), [k \in 1..4 |-> words[quad[k]]])
             after == [i \in 0..15 |-> IF \E k \in 1..4 : quad[k] = i
                                       THEN quarter.rails[CHOOSE k \in 1..4 : quad[k] = i] ELSE words[i]]
         IN  DoubleRoundFrom(ops, Tail(quads), after, body \o quarter.leaves)

ArxRound(ops, quads) == DoubleRoundFrom(ops, quads, [i \in 0..15 |-> <<1, i>>], << SplitOf(16, <<0, 0>>) >>)

\* A layer of the transform; the inverse one reads its zeta from the table's end.
NttLayer(forward) ==
    << SplitOf(2, <<0, 0>>), SplitOf(2, <<0, 1>>), AuxLoad >>
    \o (IF forward
        THEN << Operation("zq-vec-mul-scalar", << <<1, 1>>, <<2, 0>>, Of(3) >>),
                Operation("zq-vec-add", << <<1, 0>>, Of(4), Of(3) >>),
                Operation("zq-vec-sub", << <<1, 0>>, Of(4), Of(3) >>) >>
        ELSE << Operation("zq-vec-add", << <<1, 0>>, <<1, 1>>, Of(3) >>),
                Operation("zq-vec-sub", << <<1, 1>>, <<1, 0>>, Of(3) >>),
                Operation("zq-vec-mul-scalar", << Of(5), <<2, 1>>, Of(3) >>) >>)
    \o << JoinOf(IF forward THEN << Of(5), Of(6) >> ELSE << Of(4), Of(6) >>),
          JoinOf(<< <<2, 1>>, <<2, 0>> >>) >>

Built(scene) ==
    CASE scene = "des" -> DesBody(TRUE)
      [] scene = "des-last" -> DesBody(FALSE)
      [] scene = "blowfish" -> BlowfishBody
      [] scene = "twofish" -> TwofishBody(FALSE)
      [] scene = "twofish-back" -> TwofishBody(TRUE)
      [] scene = "chacha20" -> ArxRound(ChaChaOps, ChaChaQuads)
      [] scene = "salsa20" -> ArxRound(SalsaOps, SalsaQuads)
      [] scene = "ntt" -> NttLayer(TRUE)
      [] scene = "ntt-back" -> NttLayer(FALSE)

NttScenes == {"ntt", "ntt-back"}
\* The last leaf but in a transform's layer, where the advanced table comes after it.
OutputLeaf(scene) == IF scene \in NttScenes THEN 7 ELSE Len(Built(scene))

BuiltRound(scene) ==
    LET body == Built(scene)
        at(b) == <<2 * b[1], b[2]>>
    IN  [container |-> IF scene \in NttScenes THEN "iterate" ELSE "group",
         body |-> [l \in {2 * i : i \in DOMAIN body} |->
                     [body[l \div 2] EXCEPT !.in = [i \in DOMAIN @ |-> at(@[i])]]],
         out |-> Of(2 * OutputLeaf(scene))]

RoundJob(scene) == [kind |-> "round", scene |-> scene, r |-> BuiltRound(scene), left |-> RoundScenes[scene].edits]

-----------------------------------------------------------------------------
(***************************************************************************)
(* What the user does to a round.                                          *)
(***************************************************************************)

May(l) == job.kind = "round" /\ job.left > 0 /\ l \in Leaves(job.r) /\ l \in RoundScenes[job.scene].editable
\* An earlier output or the container's own.
PortCount(r, l) ==
    CASE l = 0 -> IF r.container = "iterate" THEN 2 ELSE 1
      [] l \in Leaves(r) -> IF HasType(r, l, "split") THEN r.body[l].n ELSE 1
      [] OTHER -> 0
Offered(l) == {b \in RoundScenes[job.scene].sources : b[1] < l /\ b[2] < PortCount(job.r, b[1])}
Edited(body) == job' = [job EXCEPT !.r.body = body, !.left = @ - 1]

Rewire == \E l \in Leaves(job.r) : May(l) /\ \E i \in DOMAIN Inputs(job.r, l), b \in Offered(l) :
    Edited([job.r.body EXCEPT ![l].in[i] = b])

SetBits == \E l \in Leaves(job.r) : May(l) /\ Bits(job.r, l) # 0 /\ \E n \in RoundScenes[job.scene].amounts :
    Edited([job.r.body EXCEPT ![l].n = n])

RemoveLeaf == \E l \in Leaves(job.r) : May(l) /\ l # job.r.out[1]
    /\ Edited([m \in Leaves(job.r) \ {l} |-> job.r.body[m]])

\* A leaf that reads a round key, inserted before l and wired into its input i.
InsertLeaf == \E l \in Leaves(job.r) : May(l) /\ l % 2 = 0 /\ l - 1 \notin Leaves(job.r)
    /\ \E i \in DOMAIN Inputs(job.r, l) :
        Edited([m \in Leaves(job.r) \cup {l - 1} |->
                  IF m = l - 1 THEN Unary("xor-with-aux", Inputs(job.r, l)[i])
                  ELSE IF m = l THEN [job.r.body[l] EXCEPT !.in[i] = Of(l - 1)] ELSE job.r.body[m]])

RoundNext == job.kind = "round" /\ (Rewire \/ SetBits \/ RemoveLeaf \/ InsertLeaf)

-----------------------------------------------------------------------------
(***************************************************************************)
(* The slots.  A slot is a leaf or a replica with the place of its left    *)
(* top corner; size is that of a leaf.  Later slots replace earlier ones.  *)
(***************************************************************************)
Pile(ids, x, y, step) == [i \in DOMAIN ids |-> <<ids[i], x, y + ((i - 1) * step)>>]
Placed(slots) ==
    [c \in {slots[i][1] : i \in DOMAIN slots} |->
        LET last == CHOOSE i \in DOMAIN slots : slots[i][1] = c /\ \A j \in (i + 1)..Len(slots) : slots[j][1] # c
        IN  [x |-> slots[last][2], y |-> slots[last][3]]]

\* A leaf that reads a key or a table has its source drawn next to it.
ReplicaOf(l) == 1000 + l
Consumer(c) == c - 1000
Replicas(r) == {ReplicaOf(l) : l \in {m \in Leaves(r) :
    r.body[m].type \in {"des.xor-with-K", "xor-with-aux", "sbox-lookup", "aux-load"}}}
Children(r) == Leaves(r) \cup Replicas(r)

\* The children no slot was found for, in a column of their own.
Parked(r, slots, x, y, step) ==
    slots \o Pile(InSpecOrder(Children(r) \ {slots[i][1] : i \in DOMAIN slots}), x, y, step)

TwofishSlots(r, s, size) ==
    LET row == size[2] + 40
        col == size[1] + 56
        stack(S, i, from) == Pile(InSpecOrder(S), i * col, from * row, row)
        at(l, i, y) == << <<l, i * col, y * row>> >>
        longest(m, n) == IF m > n THEN m ELSE n
        pht == longest(Cardinality(s.g0) + 1, Cardinality(s.g1) + 2) + 1
        mixes == longest(longest(Cardinality(s.mix[1]), Cardinality(s.mix[2])), 1)
    IN  Parked(r, at(s.split, 2, 0) \o stack(s.g0, 0, 1) \o at(s.rol, 1, 1) \o stack(s.g1, 1, 2)
                  \o at(s.loads[1], 0, pht) \o at(s.loads[2], 1, pht) \o at(s.f[1], 0, pht + 1)
                  \o at(s.dbl, 2, pht + 1) \o at(s.f[2], 1, pht + 2)
                  \o stack(s.mix[1], 3, pht + 3) \o stack(s.mix[2], 4, pht + 3)
                  \o at(s.recombine, 2, pht + 3 + mixes),
               5 * col, row, row)

ArxSlots(r, s, size) ==
    LET row == size[2] + 28
        col == size[1] + 40
        pitch == (3 * col) + 24
        tier(t) == row + 44 + (t * ((4 * row) + 44))
        width == (4 * pitch) - 64
        center == (width - size[1]) \div 2
        block(i) == [j \in 1..12 |-> <<s.quarters[i].ops[j],
                        (((i - 1) % 4) * pitch) + (((j - 1) % 3) * col),
                        tier((i - 1) \div 4) + (((j - 1) \div 3) * row)>>]
    IN  Parked(r, << <<s.split, center, 0>> >> \o block(1) \o block(2) \o block(3) \o block(4)
                  \o block(5) \o block(6) \o block(7) \o block(8)
                  \o << <<s.concat, center, tier(1) + (4 * row) + 44>> >>,
               width + 64, 0, row)

\* The product twists in the middle of the forward layer and leaves by the high rail of the inverse.
NttSlots(r, s, size) ==
    LET row == size[2] + 32
        col == size[1] + 48
        at(l, i, y) == <<l, i * col, y * row>>
    IN  Parked(r, << at(s.zeta, 2, 0), at(s.advance, 3, 0), at(s.split, 1, 1),
                     at(IF s.forward THEN s.mul ELSE s.sub, 1, 2), at(s.add, 0, 3), at(s.modulus, 1, 3),
                     at(IF s.forward THEN s.sub ELSE s.mul, 2, 3), at(s.recombine, 1, 4) >>,
               4 * col, 0, row)

\* Whether the grid's cell of a place has a slot in it.
Taken(slots, x, y, size, row) ==
    LET cell(a, unit) == ((2 * a) + unit) \div (2 * unit)
    IN  \E i \in DOMAIN slots : cell(slots[i][2], size[1]) = cell(x, size[1]) /\ cell(slots[i][3], row) = cell(y, row)

\* The replicas one after the other, each down its column to the first cell that is free.
RECURSIVE Slid(_, _, _, _)
Slid(slots, wanted, size, row) ==
    IF wanted = <<>> THEN slots
    ELSE LET w == Head(wanted)
             free == CHOOSE n \in 0..128 : ~Taken(slots, w[2], w[3] + (n * row), size, row)
                        /\ \A m \in 0..(n - 1) : Taken(slots, w[2], w[3] + (m * row), size, row)
         IN  Slid(Append(slots, <<w[1], w[2], w[3] + (free * row)>>), Tail(wanted), size, row)

\* F on the side of the carried half, its layers below the rails; a layer of several
\* leaves makes the round wide: it is staggered, has its replicas in a lane above it
\* and the single leaves below it to either side of the middle.
FeistelSlots(r, s, size) ==
    LET wide == \E d \in DOMAIN s.layers : Len(s.layers[d]) > 1
        w == size[1]
        row == size[2] + (IF wide THEN 64 ELSE 40)
        gap == IF wide THEN 96 ELSE 72
        leafGap == IF wide THEN 40 ELSE 24
        band(n) == (n * w) + ((n - 1) * leafGap)
        most == CHOOSE n \in {1} \cup {Len(s.layers[d]) : d \in DOMAIN s.layers} :
                    \A d \in DOMAIN s.layers : Len(s.layers[d]) <= n
        right == s.mixed[2] = 0
        from == IF right THEN w + gap ELSE 0
        x(n, i) == from + ((band(most) - band(n) + 1) \div 2) + ((i - 1) * (w + leafGap))
        center == (band(most) + gap + 1) \div 2
        first == IF wide THEN CHOOSE d \in DOMAIN s.layers : Len(s.layers[d]) > 1
                                /\ \A e \in 1..(d - 1) : Len(s.layers[e]) = 1 ELSE 0
        fed == IF wide THEN {c \in Replicas(r) : Consumer(c) \in Members(s.layers[first])} ELSE {}
        rowOf(d) == Len(s.rails) + d + (IF fed # {} /\ d >= first THEN 1 ELSE 0)
        layer(d) == LET n == Len(s.layers[d])
                        aside == IF wide /\ n = 1 /\ d > first THEN (IF d % 2 = 1 THEN 0 - 44 ELSE 44) ELSE 0
                        drop(i) == IF n > 1 /\ i % 2 = 0 THEN 20 ELSE 0
                    IN  [i \in 1..n |-> <<s.layers[d][i], x(n, i) + aside, (rowOf(d) * row) + drop(i)>>]
        RECURSIVE Layers(_)
        Layers(d) == IF d > Len(s.layers) THEN <<>> ELSE layer(d) \o Layers(d + 1)
        last == IF s.layers = <<>> THEN Len(s.rails) ELSE rowOf(Len(s.layers))
        leaves == << <<s.split, center, 0>> >>
                  \o Pile([i \in DOMAIN s.rails |-> s.rails[i][1]], x(1, 1), row, row) \o Layers(1)
                  \o << <<s.fxor, IF right THEN 0 ELSE band(most) + gap, last * row>>,
                        <<s.recombine, center, (last + 1) * row>> >>
        column == band(most) + gap + w + 56
        wanted(c) == IF c \in fed THEN <<c, Placed(leaves)[Consumer(c)].x, (Len(s.rails) + first) * row>>
                     ELSE <<c, column,
                            row * (IF Consumer(c) \in s.F
                                   THEN rowOf(CHOOSE d \in DOMAIN s.layers : Consumer(c) \in Members(s.layers[d]))
                                   ELSE rowOf((Len(s.layers) \div 2) + 1))>>
        order == InSpecOrder(Replicas(r))
    IN  Slid(leaves, [i \in DOMAIN order |-> wanted(order[i])], size, row)

Slots(r, s, size) ==
    CASE s.kind = "feistel" -> FeistelSlots(r, s, size)
      [] s.kind = "twofish" -> TwofishSlots(r, s, size)
      [] s.kind = "arx" -> ArxSlots(r, s, size)
      [] s.kind = "ntt" -> NttSlots(r, s, size)

\* The ends of the two lines between stacked rounds, from the middles of the boxes:
\* the mixed half leaves by the side of its xor and arrives by that of its half.
FeistelSwapWires(s, from, to) ==
    LET side(left) == IF left THEN 0 - 34 ELSE 34
        wire(origin, dest) == <<from + side(origin), to + side(dest)>>
    IN  [mixed |-> wire(s.mixed[2] = 0, s.k = 1), carry |-> wire(s.mixed[2] # 0, s.k # 1)]

\* The step panel's picture: the column of the xor, and what stands below each column.
FeistelPanel(s) ==
    [xor |-> IF s.mixed[2] = 0 THEN 1 ELSE 2,
     below |-> IF s.k = 1 THEN <<"mixed", "carry">> ELSE <<"carry", "mixed">>]

-----------------------------------------------------------------------------
(***************************************************************************)
(* What a value is made from, as a term <<operation, n, port, operands>>   *)
(* over the outputs of the leaves in stop and of the container.            *)
(***************************************************************************)
Node(type, n, at, args) ==
    <<type, n, at,
      {<<"operand", IF type \in {"xor", "add32", "zq-vec-add"} THEN Cardinality({j \in DOMAIN args : args[j] = args[i]})
                    ELSE i, 0, {args[i]}>> : i \in DOMAIN args}>>
Given(b) == <<"given", b[1], b[2], {}>>

RECURSIVE Term(_, _, _)
Term(r, stop, b) ==
    IF b[1] \in stop \/ b[1] \notin Leaves(r) THEN Given(b)
    ELSE Node(r.body[b[1]].type, r.body[b[1]].n, b[2],
              [i \in DOMAIN Inputs(r, b[1]) |-> Term(r, stop, Inputs(r, b[1])[i])])

Added(s, t) == Node("add32", 2, 0, <<s, t>>)
Xored(s, t) == Node("xor", 2, 0, <<s, t>>)
Rotl(s, n) == Node("rotl", n, 0, <<s>>)

\* RFC 8439, 2.1, and the Salsa20 specification, 3.
ChaChaTerms(a, b, c, d) ==
    LET half(w, n, m) ==
            LET a1 == Added(w[1], w[2])
                d1 == Rotl(Xored(w[4], a1), n)
                c1 == Added(w[3], d1)
            IN  <<a1, Rotl(Xored(w[2], c1), m), c1, d1>>
    IN  half(half(<<a, b, c, d>>, 16, 12), 8, 7)

SalsaTerms(y0, y1, y2, y3) ==
    LET z1 == Xored(y1, Rotl(Added(y0, y3), 7))
        z2 == Xored(y2, Rotl(Added(z1, y0), 9))
        z3 == Xored(y3, Rotl(Added(z2, z1), 13))
    IN  <<Xored(y0, Rotl(Added(z3, z2), 18)), z1, z2, z3>>

DrawnAs(drawn, kind) == {s \in drawn : s.kind = kind}
Unedited == job.kind = "round" /\ job.left = RoundScenes[job.scene].edits

\* Every round as a cipher builds it is recognised, and as what it is.
BuiltRoundsAreRecognised(drawn) ==
    Unedited => \E s \in drawn :
        /\ s.kind = CASE job.scene \in {"des", "des-last", "blowfish"} -> "feistel"
                      [] job.scene \in {"twofish", "twofish-back"} -> "twofish"
                      [] job.scene \in {"chacha20", "salsa20"} -> "arx"
                      [] job.scene \in NttScenes -> "ntt"
        /\ s.kind = "arx" => s.cipher = job.scene /\ \A i \in 1..8, k \in 1..4 :
                DeriveArxWordIndices(s)[i][k] = (IF s.cipher = "chacha20" THEN ChaChaQuads ELSE SalsaQuads)[i][k]
        /\ s.kind = "ntt" => s.forward = (job.scene = "ntt")

\* However the user has rewired it, what is drawn as a quarter round of a cipher
\* computes that cipher's quarter round of the words it reads.
QuarterRoundsAreTheCiphers(drawn) ==
    \A s \in DrawnAs(drawn, "arx") : \A i \in 1..8 :
        LET q == s.quarters[i]
            stop == Leaves(job.r) \ Members(q.ops)
            in(k) == Term(job.r, stop, q.inputs[k])
            out(k) == Term(job.r, stop, Of(q.outputs[k]))
        IN  <<out(1), out(2), out(3), out(4)>> =
                IF s.cipher = "chacha20" THEN ChaChaTerms(in(1), in(2), in(3), in(4))
                                         ELSE SalsaTerms(in(1), in(2), in(3), in(4))

\* The word a binding holds, followed back rail by rail from quarter round n.
RECURSIVE RailRoot(_, _, _)
RailRoot(s, n, b) ==
    LET writers == {w \in (1..(n - 1)) \X (1..4) : Of(s.quarters[w[1]].outputs[w[2]]) = b}
    IN  CASE b[1] = s.split -> b[2]
          [] b[1] # s.split /\ writers = {} -> -1
          [] OTHER -> LET w == CHOOSE w \in writers : TRUE
                      IN  RailRoot(s, w[1], s.quarters[w[1]].inputs[w[2]])

\* The number on a rail is that of the word of the split it goes back to, rail by
\* rail through the quarter rounds before; a rail that goes back to none has none.
RailsKeepTheirWord(drawn) ==
    \A s \in DrawnAs(drawn, "arx") : \A i \in 1..8, k \in 1..4 :
        DeriveArxWordIndices(s)[i][k] = RailRoot(s, i, s.quarters[i].inputs[k])

\* Salsa20's panel writes the sum of a line with the names of the values it adds: the
\* new name of a rail if the leaf reads what this quarter round has made of it.
SalsaLinesNameWhatIsRead(drawn) ==
    \A s \in DrawnAs(drawn, "arx") : s.cipher = "salsa20" => \A i \in 1..8, n \in 1..4 :
        LET q == s.quarters[i]
        IN  Reads(job.r, q.ops[(3 * n) - 2]) =
                {IF o[2] THEN Of(q.outputs[o[1]]) ELSE q.inputs[o[1]] : o \in SalsaOperands(n)}

\* What is drawn as a butterfly is one: its outputs are low + zeta high and low - zeta
\* high, or low + high and zeta (high - low); the table of zetas is handed on whole;
\* and no box of the first column waits for one of the second.
NttPictureIsTheButterfly(drawn) ==
    \A s \in DrawnAs(drawn, "ntt") :
        LET whole == Term(job.r, {}, job.r.out)
            part(p, of) == Node("split", 2, p, <<Given(<<0, of>>)>>)
            lo == part(0, 0)
            hi == part(1, 0)
            q == Node("aux-load", 0, 0, <<>>)
            times(t, z) == Node("zq-vec-mul-scalar", 3, 0, <<t, z, q>>)
            sum(t) == Node("zq-vec-add", 3, 0, <<lo, t, q>>)
            minus(t, u) == Node("zq-vec-sub", 3, 0, <<t, u, q>>)
            butterfly(z) == IF s.forward THEN <<sum(times(hi, z)), minus(lo, times(hi, z))>>
                                         ELSE <<sum(hi), times(minus(hi, lo), z)>>
            boxes(c) == {b[1] : b \in NttPicture(s)[c]}
        IN  /\ \E p \in {0, 1} : whole = Node("concat", 2, 0, butterfly(part(p, 1)))
            /\ {Term(job.r, {}, b) : b \in Reads(job.r, s.advance)} = {part(0, 1), part(1, 1)}
            /\ \A l \in boxes(1) : \A b \in Reads(job.r, l) : b[1] \notin boxes(2)

\* The two lines below a Feistel round cross when its output has the halves of its
\* input the other way round, as far back as its wires can be followed; the panel has
\* each half below the column it is joined on.
LinesCrossWhenHalvesSwap(drawn) ==
    \A s \in DrawnAs(drawn, "feistel") :
        LET joined == Inputs(job.r, s.recombine)
            raw(b) == IF b[1] = s.fxor THEN {s.mixed[2]}
                      ELSE Reached(job.r, BackwardCone(job.r, {s.split}, <<b[1]>>, <<>>), s.split)
                           \cup (IF b[1] = s.split THEN {b[2]} ELSE {})
            wires == FeistelSwapWires(s, 0, 0)
            panel == FeistelPanel(s)
            crossed == (wires.mixed[1] < wires.carry[1]) # (wires.mixed[2] < wires.carry[2])
        IN  /\ raw(joined[1]) \cup raw(joined[2]) = {0, 1}
            /\ panel.xor - 1 = s.mixed[2] /\ \A i \in 1..2 : (panel.below[i] = "mixed") = (joined[i][1] = s.fxor)
            /\ crossed = s.swap
            /\ raw(joined[1]) = {IF crossed THEN 1 ELSE 0} /\ raw(joined[2]) = {IF crossed THEN 0 ELSE 1}

\* The arrows between the leaves of F run down, and none of its leaves is drawn below
\* the join.
FArrowsRunDown(drawn) ==
    \A s \in DrawnAs(drawn, "feistel"), size \in LeafSizes :
        LET at == Placed(Slots(job.r, s, size))
        IN  \A l \in s.F : at[l].y + size[2] < at[s.recombine].y
                /\ \A b \in Reads(job.r, l) : b[1] \in s.F => at[b[1]].y + size[2] < at[l].y

\* Twofish's drawing shows for each mixed word a word of the split and one of the two
\* sums: the mixing reads both.  Unedited these are word 2 with F0 and word 3 with F1.
TwofishPictureIsTheWiring(drawn) ==
    \A s \in DrawnAs(drawn, "twofish") : \A p \in TwofishPicture(job.r, s) : \A j \in {1, 2} :
        LET reads == UNION {Reads(job.r, l) : l \in s.mix[j]}
        IN  /\ <<s.split, p.mixed[j].rail>> \in reads
            /\ p.mixed[j].f # 0 => Of(s.f[p.mixed[j].f]) \in reads
            /\ Inputs(job.r, s.recombine)[j + 2] = <<s.split, p.carried[j]>>
            /\ Unedited => p.mixed[j] = [rail |-> j + 1, f |-> j] /\ p.carried[j] = j - 1

ApartAt(at, size) ==
    LET apart(c, d) == at[c].x >= at[d].x + size[1] \/ at[d].x >= at[c].x + size[1]
                       \/ at[c].y >= at[d].y + size[2] \/ at[d].y >= at[c].y + size[2]
    IN  \A c \in DOMAIN at, d \in DOMAIN at : c < d => apart(c, d)

\* In every density each child of the round has its box, and no two boxes overlap.
PlacedApart(drawn) ==
    \A s \in drawn, size \in LeafSizes :
        LET at == Placed(Slots(job.r, s, size)) IN DOMAIN at = Children(job.r) /\ ApartAt(at, size)

\* What the graph and the step panel draw, however the round has been rewired.
PicturesHold(drawn) ==
    /\ RailsKeepTheirWord(drawn) /\ BuiltRoundsAreRecognised(drawn)
    /\ QuarterRoundsAreTheCiphers(drawn) /\ SalsaLinesNameWhatIsRead(drawn)
    /\ NttPictureIsTheButterfly(drawn) /\ LinesCrossWhenHalvesSwap(drawn) /\ FArrowsRunDown(drawn)
    /\ TwofishPictureIsTheWiring(drawn) /\ PlacedApart(drawn)

=============================================================================
