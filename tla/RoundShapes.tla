----------------------------- MODULE RoundShapes -----------------------------
(***************************************************************************)
(* How the graph and the step panel find out from its wiring that the body *)
(* of a container is a round they have a drawing for: a Feistel round      *)
(* (feistel-shape.ts), Twofish's (twofish-shape.ts), the quarter rounds of *)
(* ChaCha20 and Salsa20 (arx-round-shape.ts) or a butterfly of the number- *)
(* theoretic transform (ntt-shape.ts).  The leaves of a body are numbered  *)
(* in the order of the spec; a binding is a node with an output port, and  *)
(* node 0 is the container itself, with its ports "in" and "chain".  An    *)
(* analysis yields the set of the shapes it finds: none or one.            *)
(***************************************************************************)
EXTENDS Bench, Integers, Sequences, FiniteSets

\* n is the parameter the analyses look at: inputCount, bits or the number of widths.
BodyLeaf(type, n, in) == [type |-> type, n |-> n, in |-> in]
Leaves(r) == DOMAIN r.body
HasType(r, l, type) == l \in Leaves(r) /\ r.body[l].type = type
Inputs(r, l) == r.body[l].in
Binary(r, l, type) == HasType(r, l, type) /\ r.body[l].n = 2 /\ Len(Inputs(r, l)) = 2
Sole(r, l) == l \in Leaves(r) /\ Len(Inputs(r, l)) = 1
Bits(r, l) == IF HasType(r, l, "rotl") THEN r.body[l].n ELSE 0
Joins(r, l, n) == HasType(r, l, "concat") /\ r.body[l].n = n /\ Len(Inputs(r, l)) = n
SplitsInto(r, l, n) == HasType(r, l, "split") /\ r.body[l].n = n

\* A binary leaf one of whose operands passes the test and the other does not.
Tells(r, l, Test(_)) == Len(Inputs(r, l)) = 2 /\ Test(Inputs(r, l)[1]) # Test(Inputs(r, l)[2])
Matched(r, l, Test(_)) == IF Test(Inputs(r, l)[1]) THEN Inputs(r, l)[1] ELSE Inputs(r, l)[2]
Other(r, l, Test(_)) == IF Test(Inputs(r, l)[1]) THEN Inputs(r, l)[2] ELSE Inputs(r, l)[1]

\* Ids in the order of the spec.
RECURSIVE InSpecOrder(_)
InSpecOrder(S) ==
    IF S = {} THEN <<>>
    ELSE LET first == CHOOSE x \in S : \A y \in S : x <= y IN <<first>> \o InSpecOrder(S \ {first})

\* The first of two analyses that finds a shape.
FirstFound(one, other) == IF one # {} THEN one ELSE other

-----------------------------------------------------------------------------
(***************************************************************************)
(* A Feistel round: a half xored with F, and the other half, joined.       *)
(***************************************************************************)

\* From b back through leaves of one input to the split: its port, then the leaves.
RECURSIVE RailToSplit(_, _, _)
RailToSplit(r, b, split) ==
    CASE b[1] = split -> <<b>>
      [] b[1] # split /\ ~Sole(r, b[1]) -> <<>>
      [] OTHER -> LET rail == RailToSplit(r, Inputs(r, b[1])[1], split)
                  IN  IF rail = <<>> THEN <<>> ELSE Append(rail, b)

\* The leaves of F by how many of them a value has gone through.
RECURSIVE FDepth(_, _, _)
FDepth(r, F, l) ==
    LET before == {FDepth(r, F, Inputs(r, l)[i][1]) : i \in {j \in DOMAIN Inputs(r, l) : Inputs(r, l)[j][1] \in F}}
    IN  IF before = {} THEN 0 ELSE 1 + (CHOOSE d \in before : \A e \in before : e <= d)

FStackLayers(r, F) ==
    LET depth == [l \in F |-> FDepth(r, F, l)]
        last == Cardinality({depth[l] : l \in F})
    IN  [d \in 1..last |-> InSpecOrder({l \in F : depth[l] = d - 1})]

\* Whether the joined first half is the one the split had second.
Swapped0(k, mixed, carry) == (IF k = 1 THEN mixed ELSE carry) = 1

\* The shape with the recombination's input k taken for the xor.
FeistelMatch(r, k) ==
    LET recombine == r.out[1]
        fxor == Inputs(r, recombine)[k][1]
        raw(i) == SplitsInto(r, Inputs(r, fxor)[i][1], 2)
        h == IF raw(1) THEN 1 ELSE 2
        mixed == Inputs(r, fxor)[h]
        rail == RailToSplit(r, Inputs(r, recombine)[3 - k], mixed[1])
        rails == {rail[i][1] : i \in 2..Len(rail)}
        F == Leaves(r) \ ({mixed[1], fxor, recombine} \cup rails)
    IN  IF Binary(r, fxor, "xor") /\ (raw(1) \/ raw(2)) /\ rail # <<>> /\ rail[1] # mixed
        THEN {[kind |-> "feistel", split |-> mixed[1], fxor |-> fxor, recombine |-> recombine,
               F |-> F, layers |-> FStackLayers(r, F), rails |-> Tail(rail),
               mixed |-> mixed, carry |-> rail[1], k |-> k, fIn |-> Inputs(r, fxor)[3 - h],
               swap |-> Swapped0(k, mixed[2], rail[1][2])]}
        ELSE {}

AnalyzeFeistelRound(r) ==
    IF r.container # "group" \/ ~Joins(r, r.out[1], 2) THEN {}
    ELSE FirstFound(FeistelMatch(r, 1), FeistelMatch(r, 2))

FeistelMembers(s) == {s.split, s.fxor, s.recombine} \cup s.F \cup {s.rails[i][1] : i \in DOMAIN s.rails}

-----------------------------------------------------------------------------
(***************************************************************************)
(* Twofish's round, found backwards from its two sums of three.            *)
(***************************************************************************)

\* The leaves a value is made from, the last first, walking depth first up to the stops.
RECURSIVE BackwardCone(_, _, _, _)
BackwardCone(r, stop, todo, cone) ==
    IF todo = <<>> THEN cone
    ELSE LET l == Head(todo)
             old == l \notin Leaves(r) \/ \E i \in DOMAIN cone : cone[i] = l
             next == [i \in DOMAIN Inputs(r, l) |-> IF Inputs(r, l)[i][1] \in stop THEN -1 ELSE Inputs(r, l)[i][1]]
         IN  IF old THEN BackwardCone(r, stop, Tail(todo), cone)
             ELSE BackwardCone(r, stop, next \o Tail(todo), Append(cone, l))

Reads(r, l) == {Inputs(r, l)[i] : i \in DOMAIN Inputs(r, l)}
Members(s) == {s[i] : i \in DOMAIN s}

\* The ports of the split a cone stopped at.
Reached(r, cone, split) == {b[2] : b \in {c \in UNION {Reads(r, l) : l \in Members(cone)} : c[1] = split}}

\* The place of the first element that passes, 0 if none does.
FirstPlace(s, Test(_)) ==
    LET places == {i \in DOMAIN s : Test(s[i])}
    IN  IF places = {} THEN 0 ELSE CHOOSE i \in places : \A j \in places : i <= j

\* Which of the two cones is g of the first word: it reads that and not the second.
ReadsFirstOnly(roots) == 0 \in roots /\ 1 \notin roots

AnalyzeTwofishRound(r) ==
    LET recombine == r.out[1]
        in == Inputs(r, recombine)
        split == in[3][1]
        sums(n) == {l \in Leaves(r) : HasType(r, l, "add32") /\ r.body[l].n = n}
        doubles(b) == b[1] \in sums(2)
        loads(b) == HasType(r, b[1], "aux-load")
        op(l, Test(_)) == IF FirstPlace(Inputs(r, l), Test) = 0 THEN <<>>
                          ELSE Inputs(r, l)[FirstPlace(Inputs(r, l), Test)]
        f1 == CHOOSE l \in sums(3) : op(l, doubles) # <<>>
        f0 == CHOOSE l \in sums(3) : l # f1
        heads == {b \in Reads(r, f0) : ~loads(b)}
        cone == [b \in heads |-> BackwardCone(r, {split}, <<b[1]>>, <<>>)]
        first(b) == ReadsFirstOnly(Reached(r, cone[b], split))
        g0 == cone[CHOOSE b \in heads : first(b)]
        g1 == cone[CHOOSE b \in heads : ~first(b)]
        rol == g1[FirstPlace(g1, LAMBDA l : \E b \in Reads(r, l) : b[1] = split)]
        mix(b) == BackwardCone(r, {split, f0, f1}, <<b[1]>>, <<>>)
    IN  IF /\ r.container = "group" /\ Joins(r, recombine, 4) /\ in[3][1] = in[4][1]
           /\ \A i \in 1..4 : SplitsInto(r, in[i][1], 4) <=> i > 2
           /\ Cardinality(sums(3)) = 2
           /\ Cardinality({l \in sums(3) : op(l, doubles) # <<>>}) = 1
           /\ Cardinality(heads) = 2 /\ op(f0, loads) # <<>> /\ op(f1, loads) # <<>>
           /\ Cardinality({b \in heads : first(b)}) = 1
           /\ \A b \in heads : first(b) \/ 1 \in Reached(r, cone[b], split)
        THEN {[kind |-> "twofish", split |-> split, recombine |-> recombine,
               g0 |-> Members(g0), rol |-> rol, g1 |-> Members(g1) \ {rol}, f |-> <<f0, f1>>,
               dbl |-> op(f1, doubles)[1], loads |-> <<op(f0, loads)[1], op(f1, loads)[1]>>,
               mix |-> <<Members(mix(in[1])), Members(mix(in[2]))>>, carried |-> <<in[3][2], in[4][2]>>]}
        ELSE {}

\* The sum a mixing is drawn with: the first one the last such xor reads, 0 if none.
MixedWith(r, s, xors) ==
    IF xors = {} THEN 0
    ELSE LET last == CHOOSE l \in xors : \A m \in xors : m <= l
         IN  IF \E b \in Reads(r, last) : b[1] = s.f[1] THEN 1 ELSE 2

\* The rail and the sum a mixed output is drawn with; of several rails the last in the spec.
MixRail(r, s, mix) ==
    LET onSplit == {l \in mix : \E b \in Reads(r, l) : b[1] = s.split}
        last == Inputs(r, CHOOSE l \in onSplit : \A m \in onSplit : m <= l)
        at == {i \in DOMAIN last : last[i][1] = s.split}
        xors == {l \in mix : HasType(r, l, "xor") /\ \E b \in Reads(r, l) : b[1] \in Members(s.f)}
    IN  IF onSplit = {} \/ ~\E l \in mix : r.body[l].type \in {"xor", "rotr"} THEN {}
        ELSE {[rail |-> last[CHOOSE i \in at : \A j \in at : j <= i][2], f |-> MixedWith(r, s, xors)]}

\* TwofishRoundDiagram: its two mixed rails, and the words its other outputs carry.
TwofishPicture(r, s) ==
    {[mixed |-> <<a, b>>, carried |-> s.carried] : a \in MixRail(r, s, s.mix[1]), b \in MixRail(r, s, s.mix[2])}

-----------------------------------------------------------------------------
(***************************************************************************)
(* A double round of ChaCha20 or Salsa20: eight quarter rounds of twelve   *)
(* operations, each found backwards from the one rotation by an amount     *)
(* that no other of its rotations has.  Rails a, b, c, d are 1..4.         *)
(***************************************************************************)

RotatedBy(r, b, n) == Bits(r, b[1]) = n

MatchChaCha(r, rB7) ==
    LET below(l) == Inputs(r, l)[1][1]
        xBC2 == below(rB7)
        rB12 == Matched(r, xBC2, LAMBDA b : RotatedBy(r, b, 12))[1]
        aCD2 == Other(r, xBC2, LAMBDA b : RotatedBy(r, b, 12))[1]
        rD8 == Matched(r, aCD2, LAMBDA b : RotatedBy(r, b, 8))[1]
        aCD1 == Other(r, aCD2, LAMBDA b : RotatedBy(r, b, 8))[1]
        xDA2 == below(rD8)
        rD16 == Matched(r, xDA2, LAMBDA b : RotatedBy(r, b, 16))[1]
        aAB2 == Other(r, xDA2, LAMBDA b : RotatedBy(r, b, 16))[1]
        xBC1 == below(rB12)
        xDA1 == below(rD16)
        aAB1 == Other(r, aAB2, LAMBDA b : b[1] = rB12)[1]
        bIn == Other(r, xBC1, LAMBDA b : b[1] = aCD1)
        ops == <<aAB1, xDA1, rD16, aCD1, xBC1, rB12, aAB2, xDA2, rD8, aCD2, xBC2, rB7>>
    IN  IF /\ Sole(r, rB7) /\ Binary(r, xBC2, "xor") /\ Tells(r, xBC2, LAMBDA b : RotatedBy(r, b, 12))
           /\ Binary(r, aCD2, "add32") /\ Tells(r, aCD2, LAMBDA b : RotatedBy(r, b, 8))
           /\ Binary(r, aCD1, "add32") /\ Sole(r, rD8) /\ Binary(r, xDA2, "xor")
           /\ Tells(r, xDA2, LAMBDA b : RotatedBy(r, b, 16)) /\ Binary(r, aAB2, "add32")
           /\ Sole(r, rB12) /\ Sole(r, rD16) /\ Binary(r, xBC1, "xor") /\ Binary(r, xDA1, "xor")
           /\ Tells(r, aAB2, LAMBDA b : b[1] = rB12) /\ Binary(r, aAB1, "add32")
           /\ Tells(r, aCD1, LAMBDA b : b[1] = rD16) /\ Tells(r, xBC1, LAMBDA b : b[1] = aCD1)
           /\ Tells(r, xDA1, LAMBDA b : b[1] = aAB1) /\ Tells(r, aAB1, LAMBDA b : b = bIn)
           /\ Cardinality(Members(ops)) = 12
        THEN {[ops |-> ops, outputs |-> <<aAB2, rB7, aCD2, rD8>>,
               inputs |-> <<Other(r, aAB1, LAMBDA b : b = bIn), bIn,
                            Other(r, aCD1, LAMBDA b : b[1] = rD16), Other(r, xDA1, LAMBDA b : b[1] = aAB1)>>]}
        ELSE {}

\* A line of Salsa20 writes x xor ((y + z) rotated by n): this leaf is the xor of one.
EndsLine(r, l, n) == Binary(r, l, "xor") /\ Tells(r, l, LAMBDA b : Bits(r, b[1]) # 0)
                     /\ Bits(r, Matched(r, l, LAMBDA b : Bits(r, b[1]) # 0)[1]) = n

MatchSalsa(r, rot18) ==
    LET below(l) == Inputs(r, l)[1][1]
        add18 == below(rot18)
        xor13 == Matched(r, add18, LAMBDA b : EndsLine(r, b[1], 13))[1]
        xor9 == Other(r, add18, LAMBDA b : EndsLine(r, b[1], 13))[1]
        rot13 == Matched(r, xor13, LAMBDA b : RotatedBy(r, b, 13))[1]
        y3 == Other(r, xor13, LAMBDA b : RotatedBy(r, b, 13))
        add13 == below(rot13)
        xor7 == Other(r, add13, LAMBDA b : b[1] = xor9)[1]
        rot9 == Matched(r, xor9, LAMBDA b : RotatedBy(r, b, 9))[1]
        y2 == Other(r, xor9, LAMBDA b : RotatedBy(r, b, 9))
        add9 == below(rot9)
        y0 == Other(r, add9, LAMBDA b : b[1] = xor7)
        rot7 == Matched(r, xor7, LAMBDA b : RotatedBy(r, b, 7))[1]
        y1 == Other(r, xor7, LAMBDA b : RotatedBy(r, b, 7))
        add7 == below(rot7)
        readers == {l \in Leaves(r) : Binary(r, l, "xor") /\ \E b \in Reads(r, l) : b[1] = rot18}
        xor18 == CHOOSE l \in readers : TRUE
        ops == <<add7, rot7, xor7, add9, rot9, xor9, add13, rot13, xor13, add18, rot18, xor18>>
    IN  IF /\ Sole(r, rot18) /\ Binary(r, add18, "add32") /\ Tells(r, add18, LAMBDA b : EndsLine(r, b[1], 13))
           /\ EndsLine(r, xor9, 9) /\ Sole(r, rot13) /\ Binary(r, add13, "add32")
           /\ Tells(r, add13, LAMBDA b : b[1] = xor9) /\ Binary(r, xor7, "xor")
           /\ Sole(r, rot9) /\ Binary(r, add9, "add32") /\ Tells(r, add9, LAMBDA b : b[1] = xor7)
           /\ Tells(r, xor7, LAMBDA b : RotatedBy(r, b, 7)) /\ Sole(r, rot7) /\ Binary(r, add7, "add32")
           /\ Tells(r, add7, LAMBDA b : b = y0) /\ Other(r, add7, LAMBDA b : b = y0) = y3
           /\ Cardinality(readers) = 1 /\ Tells(r, xor18, LAMBDA b : b[1] = rot18)
           /\ Other(r, xor18, LAMBDA b : b[1] = rot18) = y0
           /\ Cardinality(Members(ops)) = 12
        THEN {[ops |-> ops, outputs |-> <<xor18, xor7, xor9, xor13>>, inputs |-> <<y0, y1, y2, y3>>]}
        ELSE {}

MatchQuarter(r, cipher, anchor) == IF cipher = "chacha20" THEN MatchChaCha(r, anchor) ELSE MatchSalsa(r, anchor)

\* The eight quarter rounds must tile the body but for its split and its join.
Tile(r, splits, quarters) ==
    LET claimed == UNION {Members(quarters[i].ops) : i \in DOMAIN quarters}
    IN  /\ r.container = "group" /\ HasType(r, r.out[1], "concat") /\ r.body[r.out[1]].n = 16
        /\ Cardinality(splits) = 1 /\ Cardinality(claimed) = 8 * 12
        /\ Leaves(r) \ claimed = splits \cup {r.out[1]}

ArxShape(r, cipher, splits, quarters) ==
    IF Tile(r, splits, quarters)
    THEN {[kind |-> "arx", cipher |-> cipher, split |-> CHOOSE l \in splits : TRUE,
           concat |-> r.out[1], quarters |-> quarters]}
    ELSE {}

\* Every anchor must be that of one.
ArxShapeOf(r, cipher, found) ==
    IF Len(found) # 8 \/ \E i \in DOMAIN found : found[i] = {} THEN {}
    ELSE ArxShape(r, cipher, {l \in Leaves(r) : SplitsInto(r, l, 16)},
                     [i \in DOMAIN found |-> CHOOSE q \in found[i] : TRUE])

AnalyzeArxDoubleRound(r, cipher, anchorBits) ==
    LET anchors == InSpecOrder({l \in Leaves(r) : Bits(r, l) = anchorBits})
    IN  ArxShapeOf(r, cipher, [i \in DOMAIN anchors |-> MatchQuarter(r, cipher, anchors[i])])

\* arx-group.ts tries one cipher, then the other.
AnalyzeArxGroup(r) ==
    FirstFound(AnalyzeArxDoubleRound(r, "chacha20", 7), AnalyzeArxDoubleRound(r, "salsa20", 18))

\* The results of a quarter round take the places of the words it read.
WordsAfter(words, quarter, word) ==
    [b \in DOMAIN words \cup {<<quarter.outputs[k], 0>> : k \in {j \in 1..4 : word[j] # -1}} |->
        IF b \in DOMAIN words THEN words[b] ELSE word[CHOOSE k \in 1..4 : b = <<quarter.outputs[k], 0>>]]

\* The number of the state word on each rail of each quarter round, -1 where it has none.
RECURSIVE WordIndices(_, _, _)
WordIndices(s, words, i) ==
    IF i > Len(s.quarters) THEN <<>>
    ELSE LET q == s.quarters[i]
             word == [k \in 1..4 |-> IF q.inputs[k] \in DOMAIN words THEN words[q.inputs[k]] ELSE -1]
         IN  <<word>> \o WordIndices(s, WordsAfter(words, q, word), i + 1)

DeriveArxWordIndices(s) == WordIndices(s, [b \in {s.split} \X (0..15) |-> b[2]], 1)

\* Mutant of Renamed: a rail has its new name one line too late.
RenamedLate(rail, line) == (<<4, 1, 2, 3>>)[rail] < line - 1

\* Salsa20's panel calls a rail z instead of y below the line that wrote it.
Renamed(rail, line) == (<<4, 1, 2, 3>>)[rail] < line

\* The operands its line n adds, as rails with the name in use there.
SalsaOperands(n) == {<<rail, Renamed(rail, n)>> : rail \in (<<{1, 4}, {1, 2}, {2, 3}, {3, 4}>>)[n]}

-----------------------------------------------------------------------------
(***************************************************************************)
(* A layer of the number-theoretic transform: eight leaves in an iterate.  *)
(* A leaf of zq arithmetic reads a, then b or the scalar, then the modulus.*)
(***************************************************************************)

\* The one leaf of a type, 0 if there are none or several.
SoleOf(r, type) ==
    LET hits == {l \in Leaves(r) : r.body[l].type = type}
    IN  IF Cardinality(hits) = 1 THEN CHOOSE l \in hits : TRUE ELSE 0

From(r, l, i, node) == i \in DOMAIN Inputs(r, l) /\ Inputs(r, l)[i][1] = node
ReadsPair(r, l, x, y) == {Inputs(r, l)[1], Inputs(r, l)[2]} = {x, y}

\* The wires of the two butterflies: multiply, then combine; combine, then multiply.
CooleyTukey(r, add, sub, mul, lo, hi) ==
    /\ Inputs(r, mul)[1] = hi /\ Inputs(r, sub)[1] = lo /\ From(r, sub, 2, mul)
    /\ ReadsPair(r, add, lo, <<mul, 0>>)

GentlemanSande(r, add, sub, mul, lo, hi) ==
    /\ From(r, mul, 1, sub) /\ Inputs(r, sub)[1] = hi /\ Inputs(r, sub)[2] = lo
    /\ ReadsPair(r, add, lo, hi)

AnalyzeNttButterfly(r) ==
    LET add == SoleOf(r, "zq-vec-add")
        sub == SoleOf(r, "zq-vec-sub")
        mul == SoleOf(r, "zq-vec-mul-scalar")
        modulus == SoleOf(r, "aux-load")
        splits == {l \in Leaves(r) : SplitsInto(r, l, 2)}
        split == CHOOSE l \in splits : Inputs(r, l)[1] = <<0, 0>>
        zeta == CHOOSE l \in splits : Inputs(r, l)[1] = <<0, 1>>
        forward == From(r, sub, 1, mul) \/ From(r, sub, 2, mul)
        lo == <<split, 0>>
        hi == <<split, 1>>
        recombine == r.out[1]
        others == {l \in Leaves(r) \ {recombine} : Joins(r, l, 2)}
        advance == CHOOSE l \in others : \A m \in others : l <= m
        steer == Inputs(r, advance)
    IN  IF /\ r.container = "iterate" /\ Cardinality(Leaves(r)) = 8
           /\ 0 \notin {add, sub, mul, modulus}
           /\ \A l \in {add, sub, mul} : From(r, l, 3, modulus)
           /\ Cardinality(splits) = 2
           /\ \A p \in {0, 1} : \E l \in splits : Inputs(r, l)[1] = <<0, p>>
           /\ From(r, mul, 2, zeta)
           /\ forward # From(r, mul, 1, sub)
           /\ IF forward THEN CooleyTukey(r, add, sub, mul, lo, hi)
                         ELSE GentlemanSande(r, add, sub, mul, lo, hi)
           /\ Joins(r, recombine, 2) /\ Inputs(r, recombine)[1][1] = add
           /\ Inputs(r, recombine)[2][1] = (IF forward THEN sub ELSE mul)
           /\ others # {} /\ steer[1][1] = zeta /\ steer[2][1] = zeta /\ steer[1][2] # steer[2][2]
           /\ Leaves(r) = {split, zeta, modulus, mul, add, sub, recombine, advance}
        THEN {[kind |-> "ntt", forward |-> forward, split |-> split, zeta |-> zeta, modulus |-> modulus,
               mul |-> mul, add |-> add, sub |-> sub, recombine |-> recombine, advance |-> advance]}
        ELSE {}

\* NttButterflyDiagram: its two columns of boxes, the rail of each, and the products.
NttPicture(s) ==
    LET twist == {<<s.mul, "hi">>}
        crossing == {<<s.add, "lo">>, <<s.sub, "hi">>}
    IN  IF s.forward THEN <<twist, crossing>> ELSE <<crossing, twist>>

-----------------------------------------------------------------------------
\* What the graph draws a container as; the wiring of one round fits one of them.
Shapes(r) == AnalyzeFeistelRound(r) \cup AnalyzeTwofishRound(r) \cup AnalyzeArxGroup(r) \cup AnalyzeNttButterfly(r)

=============================================================================
