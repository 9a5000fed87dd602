------------------------------ MODULE StepRows ------------------------------
(***************************************************************************)
(* One step of a trace, what its output rows hold, and what the inspector  *)
(* says of them: src/core/port-provenance.ts names the input cells a cell  *)
(* of the output is made from, src/core/cell-provenance-summary.ts folds   *)
(* them into a sentence.  An input port or an output port is its number.   *)
(***************************************************************************)
EXTENDS Bytes

Indices(s) == 1..Len(s)

\* The executors, by the type of the step; every result is a row per output port.
Execute(step, in) ==
    CASE step.type = "xor" -> <<Xor(in)>>
      [] step.type = "and" -> <<And(in)>>
      [] step.type = "not" -> <<Not(in[1])>>
      [] step.type = "xor-with-aux" -> <<XorWithAux(in[1], in[2])>>
      [] step.type = "byte-substitute" -> <<ByteSubstitute(in[1], step.sbox)>>
      [] step.type = "truncate-to-reference" -> <<TruncateToReference(in[1], in[2])>>
      [] step.type = "permute" -> <<Permute(in[1], step.indices)>>
      [] step.type = "concat" -> <<Concat(in)>>
      [] step.type = "split-bytes" -> SplitBytes(in[1], step.widths)
      [] step.type = "byte-slice" -> <<ByteSlice(in[1], step.offset, step.length)>>
      [] step.type = "gf-matrix-multiply" -> <<GfMatrixMultiply(in[1], step.matrix, step.modulus)>>
      [] step.type = "rotate-bits-left" -> <<RotateBitsLeft(in[1], step.bits, step.wordBits)>>
      [] step.type = "rotate-bits-right" -> <<RotateBitsRight(in[1], step.bits, step.wordBits)>>
      [] step.type = "shift-bits-left" -> <<ShiftBitsLeft(in[1], step.bits, step.wordBits)>>
      [] step.type = "shift-bits-right" -> <<ShiftBitsRight(in[1], step.bits, step.wordBits)>>
      [] step.type = "rotate-lanes" ->
            <<RotateLanes(in[1], step.wordBits, step.offsets, step.littleEndian)>>
      [] step.type = "add-mod-16" -> <<AddMod16(in)>>
      [] step.type = "add-mod-32" -> <<AddMod32(in)>>

Throws(step, in) ==
    CASE step.type \in {"xor", "and", "xor-with-aux"} -> ~SameLengths(in)
      [] step.type = "truncate-to-reference" -> TruncateThrows(in[1], in[2])
      [] step.type = "permute" -> PermuteThrows(in[1], step.indices)
      [] step.type = "split-bytes" -> SplitThrows(in[1], step.widths)
      [] step.type = "gf-matrix-multiply" -> WordThrows(in[1], 32)
      [] step.type \in {"rotate-bits-left", "rotate-bits-right", "shift-bits-left", "shift-bits-right"} ->
            WordThrows(in[1], step.wordBits)
      [] step.type = "rotate-lanes" -> RotateLanesThrows(in[1], step.wordBits, step.offsets)
      [] step.type = "add-mod-16" -> ~SameLengths(in) \/ WordThrows(in[1], 16)
      [] step.type = "add-mod-32" -> ~SameLengths(in) \/ WordThrows(in[1], 32)
      [] OTHER -> FALSE

-----------------------------------------------------------------------------
(***************************************************************************)
(* The provenance of a cell.  A frame of a run with a hole in its wiring   *)
(* may lack an input port, which is then no row at all.                    *)
(***************************************************************************)

Cell(port, index) == [port |-> port, index |-> index, label |-> 0]
Holds(in, port, i) == port \in DOMAIN in /\ i \in Indices(in[port])

SamePosition(in, i) == {c \in {Cell(1, i)} : Holds(in, 1, i)}
OperandColumn(in, n, i) == {Cell(k, i) : k \in {j \in 1..n : Holds(in, j, i)}}
FromInput(in, i) == {c \in {Cell(1, i)} : Holds(in, 1, i)}

ConcatSource(in, i) ==
    LET lengths == Row([k \in 1..Len(in) |-> Len(in[k])])
        owners == {k \in Indices(in) : Before(lengths, k) < i /\ i <= Before(lengths, k + 1)}
    IN  {Cell(k, i - Before(lengths, k)) : k \in owners}

\* Mutant of SplitSource: the widths before the port are not added up.
SplitSourceLastWidth(in, widths, port, i) ==
    FromInput(in, i + (IF port = 1 THEN 0 ELSE widths[port - 1]))

SplitSource(in, widths, port, i) == FromInput(in, Before(widths, port) + i)

\* The cells of the column whose coefficient is not 0, labelled with it.
GfMatrixSources(in, matrix, i) ==
    LET column == (i - 1) \div 4
        coefficients == matrix[((i - 1) % 4) + 1]
    IN  {[port |-> 1, index |-> (4 * column) + k, label |-> coefficients[k]] :
            k \in {j \in 1..4 : coefficients[j] # 0 /\ Holds(in, 1, (4 * column) + j)}}

Registered == {"xor", "and", "not", "xor-with-aux", "byte-substitute", "truncate-to-reference",
               "permute", "concat", "split-bytes", "byte-slice", "gf-matrix-multiply"}

Sources(step, in, port, i) ==
    CASE step.type \in {"xor", "and"} -> OperandColumn(in, Len(in), i)
      [] step.type = "xor-with-aux" -> OperandColumn(in, 2, i)
      [] step.type \in {"not", "byte-substitute", "truncate-to-reference"} -> SamePosition(in, i)
      [] step.type = "permute" -> FromInput(in, step.indices[i] + 1)
      [] step.type = "concat" -> ConcatSource(in, i)
      [] step.type = "split-bytes" -> SplitSource(in, step.widths, port, i)
      [] step.type = "byte-slice" -> FromInput(in, step.offset + i)
      [] step.type = "gf-matrix-multiply" -> GfMatrixSources(in, step.matrix, i)

-----------------------------------------------------------------------------
(***************************************************************************)
(* The sentence that stands for all the cells of a frame.                  *)
(***************************************************************************)

Rows(step, in, out) ==
    UNION {{[port |-> p, index |-> i, sources |-> Sources(step, in, p, i)] : i \in Indices(out[p])} :
           p \in Indices(out)}

Ports(row) == {c.port : c \in row.sources}

SameIndex(rows) ==
    /\ \A r \in rows : r.sources # {} /\ \A c \in r.sources : c.index = r.index
    /\ \A r, t \in rows : Ports(r) = Ports(t)

Shifted(rows, port, delta) ==
    \A r \in rows : Cardinality(r.sources) = 1 /\ \A c \in r.sources : c.port = port /\ c.index - r.index = delta

First(rows) == CHOOSE r \in rows : r.port = 1 /\ r.index = 1

Classified(rows) ==
    LET first == First(rows)
        source == CHOOSE c \in first.sources : TRUE
        delta == source.index - first.index
    IN  IF \E r \in rows : r.port # 1 THEN [kind |-> "per-cell", rows |-> rows]
        ELSE IF SameIndex(rows)
        THEN [kind |-> "same-index", ports |-> Ports(first), length |-> Cardinality(rows)]
        ELSE IF Cardinality(first.sources) = 1 /\ delta >= 1 /\ Shifted(rows, source.port, delta)
        THEN [kind |-> "offset", port |-> source.port, offset |-> delta, length |-> Cardinality(rows)]
        ELSE [kind |-> "per-cell", rows |-> rows]

\* Labelled cells are the lesson and stay apart.
Summary(step, in, out) ==
    LET rows == Rows(step, in, out)
    IN  IF step.type \notin Registered \/ rows = {} THEN [kind |-> "none"]
        ELSE IF \E r \in rows : \E c \in r.sources : c.label # 0 THEN [kind |-> "per-cell", rows |-> rows]
        ELSE Classified(rows)

-----------------------------------------------------------------------------
(***************************************************************************)
(* A frame, and the same frame of a run with one other byte in an input.   *)
(***************************************************************************)

RowJob(step, in) ==
    [kind |-> "row", step |-> step, in |-> in, out |-> Execute(step, in), edited |-> FALSE]

Probes == {0, 255}
EditByte ==
    /\ job.kind = "row" /\ ~job.edited
    /\ \E port \in Indices(job.in) : \E i \in Indices(job.in[port]), b \in Probes :
          job' = [RowJob(job.step, [job.in EXCEPT ![port][i] = b]) EXCEPT !.edited = TRUE]

-----------------------------------------------------------------------------
(***************************************************************************)
(* Properties.                                                             *)
(***************************************************************************)

\* Whether some other byte in the cell of an input changes the cell of an output.
Feeds(step, in, out, port, i, from, j) ==
    \E b \in Probes : Execute(step, [in EXCEPT ![from][j] = b])[port][i] # out[port][i]

AllCells(rows) == UNION {{<<p, i>> : i \in Indices(rows[p])} : p \in Indices(rows)}

\* The hover over a cell of the output marks the cells that it is made from,
\* none too few and none too many; where an operand masks the others the
\* marks are those of the rows that hide nothing.
SourcesAreExact ==
    (/\ job.kind = "row" /\ job.step.type \in Registered
     /\ \A c \in AllCells(job.in) : job.in[c[1]][c[2]] # 0
     /\ job.step.type = "and" => \A c \in AllCells(job.out) : job.out[c[1]][c[2]] # 0)
        => \A o \in AllCells(job.out), c \in AllCells(job.in) :
              Feeds(job.step, job.in, job.out, o[1], o[2], c[1], c[2])
                  <=> \E s \in Sources(job.step, job.in, o[1], o[2]) : s.port = c[1] /\ s.index = c[2]

\* The sentence, read back cell by cell, says what the hover says.
ReadBack(s) ==
    CASE s.kind = "same-index" ->
            {[port |-> 1, index |-> i, sources |-> {Cell(p, i) : p \in s.ports}] : i \in 1..s.length}
      [] s.kind = "offset" ->
            {[port |-> 1, index |-> i, sources |-> {Cell(s.port, i + s.offset)}] : i \in 1..s.length}
      [] s.kind = "per-cell" -> s.rows
      [] s.kind = "none" -> {}

SummaryMatchesRows ==
    (job.kind = "row" /\ job.step.type \in Registered)
        => ReadBack(Summary(job.step, job.in, job.out)) = Rows(job.step, job.in, job.out)

\* Bit k of word w, from the least significant bit of the last byte up; the
\* first byte of a little-endian lane is its least significant one.
WordBit(s, wordBits, w, k, littleEndian) ==
    LET width == wordBits \div 8
        byte == IF littleEndian THEN k \div 8 ELSE width - 1 - (k \div 8)
    IN  BitAt(s[((w - 1) * width) + byte + 1], k % 8)

\* What a step moves bit k of word w from, or -1 when a zero comes in.
BitSource(step, w, k) ==
    LET n == step.wordBits
    IN  CASE step.type = "rotate-bits-right" -> (k + step.bits) % n
          [] step.type = "rotate-bits-left" -> (k - step.bits) % n
          [] step.type = "rotate-lanes" -> (k - step.offsets[w]) % n
          [] step.type = "shift-bits-right" -> IF k + step.bits < n THEN k + step.bits ELSE -1
          [] step.type = "shift-bits-left" -> IF k >= step.bits THEN k - step.bits ELSE -1

BitMoves == {"rotate-bits-right", "rotate-bits-left", "rotate-lanes", "shift-bits-right", "shift-bits-left"}

\* A rotation or a shift moves every bit of a word by the amount asked, at
\* amounts of 0, of whole bytes, and of the width of the word and beyond.
BitsAreMoved ==
    (job.kind = "row" /\ job.step.type \in BitMoves) =>
        LET s == job.step
            little == s.type = "rotate-lanes" /\ s.littleEndian
        IN  \A w \in 1..((8 * Len(job.in[1])) \div s.wordBits), k \in 0..(s.wordBits - 1) :
                WordBit(job.out[1], s.wordBits, w, k, little)
                    = IF BitSource(s, w, k) = -1 THEN 0
                      ELSE WordBit(job.in[1], s.wordBits, w, BitSource(s, w, k), little)

Residue(s, m) == FoldLeft(LAMBDA r, b : ((256 * r) + b) % m, 0, s)
Moduli == {251, 253, 255, 256, 257}

\* The sum of words is the sum of the numbers less a whole number of times
\* 2^w: the residues of five numbers without a common factor settle it.
SumsWrap ==
    (job.kind = "row" /\ job.step.type \in {"add-mod-16", "add-mod-32"}) =>
        LET width == IF job.step.type = "add-mod-16" THEN 2 ELSE 4
            carry == <<1>> \o Zeros(width)
        IN  \A w \in 1..(Len(job.out[1]) \div width) : \E wraps \in 0..(Len(job.in) - 1) : \A m \in Moduli :
                LET Of(s) == Residue(Part(s, (w - 1) * width, width), m)
                IN  (Of(job.out[1]) + (wraps * Residue(carry, m))) % m
                        = FoldLeft(LAMBDA sum, s : (sum + Of(s)) % m, 0, job.in)

=============================================================================
