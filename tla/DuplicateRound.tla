--------------------------- MODULE DuplicateRound ---------------------------
(***************************************************************************)
(* "Duplicate round" on an AES spec (src/core/spec-mutations.ts), its      *)
(* mirror in the other direction's spec (src/ui/stores/spec.ts) and the    *)
(* pins that follow it (src/ui/stores/layout.ts).                          *)
(*                                                                         *)
(* A spec is its list of round groups, the two AddRoundKey leaves at the   *)
(* edge folded into the first key, the number of rounds that the key       *)
(* schedule is built for and the node its output is read from.  A round    *)
(* keeps its number, the round key it reads, the node that feeds it and    *)
(* the matrix of its (Inv)MixColumns; ids and wires inside a round are     *)
(* renumbered with it and are left out, as are the other steps, which are  *)
(* the same in every round.  Undo restores specs and layouts wholesale     *)
(* (EditHistory), hence to an earlier state of this module.                *)
(***************************************************************************)
EXTENDS Integers, Sequences, FiniteSets, SequencesExt

CONSTANTS
    Rounds,         \* the canonical number of rounds
    Matrices,       \* values of the matrix parameter
    Standard,       \* the canonical one
    NoMix,          \* in place of a matrix: a round without (Inv)MixColumns
    Exit,           \* where the exit is bound, "outputFrom" or "bodyOutput"
    Resets,         \* the modes whose spec the user resets
    Places,         \* positions of pinned nodes
    MaxDuplicates,  \* bounds of the model: duplications since the last reset,
    MaxPins         \* and pins in all

ASSUME RoundsAssumption == Rounds \in Nat /\ Rounds >= 2
ASSUME MatricesAssumption == Standard \in Matrices /\ NoMix \notin Matrices
ASSUME ExitAssumption == Exit \in {"outputFrom", "bodyOutput"}
ASSUME ResetsAssumption == Resets \subseteq {"encrypt", "decrypt"}
ASSUME BoundsAssumption == MaxDuplicates \in Nat /\ MaxPins \in Nat

VARIABLES
    mode,   \* "encrypt" or "decrypt"
    specs,  \* the spec of each mode
    pins    \* the entries of layout.positions for each spec, in their order

vars == <<mode, specs, pins>>

Modes == {"encrypt", "decrypt"}
Other(m) == IF m = "encrypt" THEN "decrypt" ELSE "encrypt"

Initial == -1  \* the (inverse) initial AddRoundKey, as a node
MaxRound == Rounds + MaxDuplicates
RoundIds == 0..MaxRound

Round == [id : RoundIds, key : RoundIds, seed : RoundIds \cup {Initial},
          mix : Matrices \cup {NoMix}]
Spec_ == [rounds : Seq(Round), initialKey : RoundIds, schedule : RoundIds, exit : RoundIds]
Pin == [id : RoundIds, at : Places]

-----------------------------------------------------------------------------
(***************************************************************************)
(* The canonical specs.                                                    *)
(***************************************************************************)

EncryptRound(n) ==
    [id |-> n, key |-> n, seed |-> IF n = 1 THEN Initial ELSE n - 1,
     mix |-> IF n = Rounds THEN NoMix ELSE Standard]

DecryptRound(n) ==
    [id |-> n, key |-> n, seed |-> IF n = Rounds - 1 THEN Initial ELSE n + 1,
     mix |-> IF n = 0 THEN NoMix ELSE Standard]

Canonical(m) ==
    IF m = "encrypt"
    THEN [rounds |-> [i \in 1..Rounds |-> EncryptRound(i)],
          initialKey |-> 0, schedule |-> Rounds, exit |-> Rounds]
    ELSE [rounds |-> [i \in 1..Rounds |-> DecryptRound(Rounds - i)],
          initialKey |-> Rounds, schedule |-> Rounds, exit |-> 0]

-----------------------------------------------------------------------------
(***************************************************************************)
(* duplicateRoundGroup.                                                    *)
(***************************************************************************)

Ids(rounds) == {rounds[i].id : i \in DOMAIN rounds}

\* Mutant of Renumbered: a round keeps the node that feeds it.
RenumberedOnly(r, toN, m) ==
    [r EXCEPT !.id = toN, !.key = IF @ = r.id THEN toN ELSE @]

\* A round key is bumped if it is the round's own.  Going forward a round is
\* fed by its new predecessor; the inverse chain is rewired as a whole.
Renumbered(r, toN, m) ==
    [r EXCEPT !.id = toN,
              !.key = IF @ = r.id THEN toN ELSE @,
              !.seed = IF m = "decrypt" THEN @ ELSE IF toN = 1 THEN Initial ELSE toN - 1]

\* rewireReverseSeedInputChain: from the highest number down.
Rewired(rounds) ==
    [i \in DOMAIN rounds |->
        [rounds[i] EXCEPT !.seed =
            IF \A id \in Ids(rounds) : id <= rounds[i].id THEN Initial ELSE rounds[i].id + 1]]

Place(rounds, n) == CHOOSE i \in DOMAIN rounds : rounds[i].id = n

\* The rounds that make room: those after the source, or in the list of the
\* inverse cipher those ahead of it with a higher number.
Moved(rounds, sourceN, m) ==
    {i \in DOMAIN rounds :
        IF m = "encrypt" THEN i > Place(rounds, sourceN)
        ELSE i < Place(rounds, sourceN) /\ rounds[i].id > sourceN}

\* The clone stands between them and the source.
Inserted(rounds, sourceN, m) ==
    LET source == Place(rounds, sourceN)
        others == [i \in DOMAIN rounds |->
                      IF i \in Moved(rounds, sourceN, m)
                      THEN Renumbered(rounds[i], rounds[i].id + 1, m) ELSE rounds[i]]
    IN  InsertAt(others, IF m = "encrypt" THEN source + 1 ELSE source,
                 Renumbered(rounds[source], sourceN + 1, m))

\* The rename map, on numbers.
Renamed(rounds, sourceN, m, id) ==
    IF \E i \in Moved(rounds, sourceN, m) : rounds[i].id = id THEN id + 1 ELSE id

\* The inverse initial AddRoundKey is bumped, the schedule rebuilt for a round
\* more, and the spec's outputFrom renamed.  In a mode of operation the rounds
\* are the body of an iterate, whose bodyOutput is not.
Duplicated(spec, sourceN, m) ==
    [rounds |-> IF m = "encrypt" THEN Inserted(spec.rounds, sourceN, m)
                ELSE Rewired(Inserted(spec.rounds, sourceN, m)),
     initialKey |-> IF m = "encrypt" THEN spec.initialKey ELSE spec.initialKey + 1,
     schedule |-> spec.schedule + 1,
     exit |-> IF Exit = "outputFrom" THEN Renamed(spec.rounds, sourceN, m, spec.exit)
              ELSE spec.exit]

\* isRoundDuplicatable: a full round, in the canonical numbering.
IsRoundDuplicatable(spec, n, m) ==
    /\ n \in Ids(spec.rounds)
    /\ IF m = "encrypt" THEN n + 1 \in Ids(spec.rounds) ELSE n > 0

-----------------------------------------------------------------------------
(***************************************************************************)
(* layout.positions: an object, whose entries keep the order of insertion. *)
(***************************************************************************)

PinOf(entries, id) == {entries[i].at : i \in {j \in DOMAIN entries : entries[j].id = id}}

\* A write to a key: in its place, or at the end.
WithPin(entries, id, at) ==
    IF PinOf(entries, id) = {} THEN Append(entries, [id |-> id, at |-> at])
    ELSE [i \in DOMAIN entries |->
            IF entries[i].id = id THEN [entries[i] EXCEPT !.at = at] ELSE entries[i]]

\* Mutant of RenamedPins: the pins stay on the numbers.
PinsStay(entries, rounds, sourceN, m) == entries

\* renameLayoutIds: the entries are written one by one under their new names.
RenamedPins(entries, rounds, sourceN, m) ==
    LET written[i \in 0..Len(entries)] ==
            IF i = 0 THEN <<>>
            ELSE WithPin(written[i - 1], Renamed(rounds, sourceN, m, entries[i].id), entries[i].at)
    IN  written[Len(entries)]

-----------------------------------------------------------------------------
(***************************************************************************)
(* The operations.                                                         *)
(***************************************************************************)

Init ==
    /\ mode = "encrypt"
    /\ specs = [m \in Modes |-> Canonical(m)]
    /\ pins = [m \in Modes |-> <<>>]

\* Mutant of MirrorId: the inverse round that undoes the round's SubBytes.
MirrorBySubBytes(n) == IF mode = "encrypt" THEN n - 1 ELSE n

\* round.N and inv-round.N read the same round key.
MirrorId(n) == n

\* duplicateRoundInSpec: the active spec, and the other one if it has the
\* round's mirror image.
Duplicate(n) ==
    LET source == [m \in Modes |-> IF m = mode THEN n ELSE MirrorId(n)]
        hit == {m \in Modes : m = mode \/ source[m] \in Ids(specs[m].rounds)}
    IN  /\ IsRoundDuplicatable(specs[mode], n, mode)
        /\ \A m \in Modes : specs[m].schedule < MaxRound
        /\ specs' = [m \in Modes |->
                        IF m \in hit THEN Duplicated(specs[m], source[m], m) ELSE specs[m]]
        /\ pins' = [m \in Modes |->
                        IF m \in hit THEN RenamedPins(pins[m], specs[m].rounds, source[m], m)
                        ELSE pins[m]]
        /\ UNCHANGED mode

\* updateStepParams on the (Inv)MixColumns of a round of the active spec.
UpdateMatrix(i, matrix) ==
    /\ i \in DOMAIN specs[mode].rounds
    /\ specs[mode].rounds[i].mix \notin {NoMix, matrix}
    /\ specs' = [specs EXCEPT ![mode].rounds[i].mix = matrix]
    /\ UNCHANGED <<mode, pins>>

SetMode ==
    /\ mode' = Other(mode)
    /\ UNCHANGED <<specs, pins>>

\* resetSpec, offered for a custom spec; its layout stays.
ResetSpec ==
    /\ mode \in Resets
    /\ specs[mode] # Canonical(mode)
    /\ specs' = [specs EXCEPT ![mode] = Canonical(mode)]
    /\ UNCHANGED <<mode, pins>>

SetNodePosition(id, at) ==
    /\ id \in Ids(specs[mode].rounds)
    /\ Len(WithPin(pins[mode], id, at)) + Len(pins[Other(mode)]) <= MaxPins
    /\ pins' = [pins EXCEPT ![mode] = WithPin(@, id, at)]
    /\ UNCHANGED <<mode, specs>>

ClearNodePosition(id) ==
    /\ id \in Ids(specs[mode].rounds)
    /\ \E i \in DOMAIN pins[mode] :
          pins[mode][i].id = id /\ pins' = [pins EXCEPT ![mode] = RemoveAt(@, i)]
    /\ UNCHANGED <<mode, specs>>

\* setLayoutForSpec(null), the toolbar's reset.
ResetLayout ==
    /\ pins[mode] # <<>>
    /\ pins' = [pins EXCEPT ![mode] = <<>>]
    /\ UNCHANGED <<mode, specs>>

Next ==
    \/ \E n \in RoundIds : Duplicate(n)
    \/ \E i \in 1..MaxRound, matrix \in Matrices : UpdateMatrix(i, matrix)
    \/ SetMode \/ ResetSpec
    \/ \E id \in RoundIds : (\E at \in Places : SetNodePosition(id, at)) \/ ClearNodePosition(id)
    \/ ResetLayout

Spec == Init /\ [][Next]_vars

-----------------------------------------------------------------------------
(***************************************************************************)
(* What a spec computes: its rounds run in the order of the list, each on  *)
(* the output of the node that feeds it, and the output is the exit's.  A  *)
(* computation is the sequence of operations applied to the input;         *)
(* SubBytes and ShiftRows commute and count as one.                        *)
(***************************************************************************)

RoundSteps(r, m) ==
    LET mixed == IF r.mix = NoMix THEN <<>> ELSE <<<<"mix", r.mix>>>>
    IN  IF m = "encrypt" THEN <<<<"sub">>>> \o mixed \o <<<<"key", r.key>>>>
        ELSE <<<<"sub">>, <<"key", r.key>>>> \o mixed

\* The computation at each place of the list, 0 being the initial AddRoundKey.
\* A round whose feeder does not stand before it computes nothing.
Computed(spec, m) ==
    LET feeders(i) == IF spec.rounds[i].seed = Initial THEN {0}
                      ELSE {j \in 1..(i - 1) : spec.rounds[j].id = spec.rounds[i].seed}
        at[i \in 0..Len(spec.rounds)] ==
            IF i = 0 THEN <<<<"key", spec.initialKey>>>>
            ELSE IF feeders(i) = {} THEN <<>>
            ELSE at[CHOOSE j \in feeders(i) : \A k \in feeders(i) : k <= j]
                     \o RoundSteps(spec.rounds[i], m)
    IN  at

Output(spec, m) == Computed(spec, m)[Place(spec.rounds, spec.exit)]

-----------------------------------------------------------------------------
(***************************************************************************)
(* Properties.                                                             *)
(***************************************************************************)

TypeOK ==
    /\ mode \in Modes
    /\ \A m \in Modes :
          /\ specs[m].rounds \in Seq(Round)
          /\ {specs[m].initialKey, specs[m].schedule, specs[m].exit} \subseteq RoundIds
          /\ pins[m] \in Seq(Pin)
          /\ \A i, j \in DOMAIN pins[m] : pins[m][i].id = pins[m][j].id => i = j

\* The rounds are numbered through, up in the cipher and down in its inverse,
\* each reads its own key and is fed by the one before it, and the exit is at
\* the last one.
Chained(spec, m) ==
    LET n == Len(spec.rounds)
        number(i) == IF m = "encrypt" THEN i ELSE n - i
    IN  /\ \A i \in 1..n :
              /\ spec.rounds[i].id = number(i) /\ spec.rounds[i].key = number(i)
              /\ spec.rounds[i].seed = IF i = 1 THEN Initial ELSE number(i - 1)
        /\ spec.exit = number(n) /\ spec.schedule = n
        /\ spec.initialKey = IF m = "encrypt" THEN 0 ELSE n

\* Both specs stay chained, whatever was duplicated in a spec or in its mirror
\* and reset in between.
RoundsChained == \A m \in Modes : Chained(specs[m], m)

\* Hence each reads every round key that its schedule provides, once and in
\* order.
KeysInOrder ==
    \A m \in Modes :
        LET output == Output(specs[m], m)
            reads == {p \in DOMAIN output : output[p][1] = "key"}
            key(p) == output[p][2]
        IN  /\ {key(p) : p \in reads} = 0..specs[m].schedule
            /\ \A p, q \in reads :
                  p < q => IF m = "encrypt" THEN key(p) < key(q) ELSE key(q) < key(p)

\* Decryption undoes encryption.
Undone == Output(specs["decrypt"], "decrypt") = Reverse(Output(specs["encrypt"], "encrypt"))

\* Duplicating a round, of either spec, leaves the other spec its inverse
\* ("applies the mirrored operation to the decrypt counterpart so round-trip
\* stays valid").
DuplicationKeepsInverse ==
    [][(\E n \in RoundIds : Duplicate(n)) => (Undone => Undone')]_vars

\* A pin follows its round to the new number, and none comes to the clone,
\* unless a round that is gone has left a pin on that number.
PinsFollowRounds ==
    [][\A n \in RoundIds : Duplicate(n) =>
        \A m \in Modes : n \in Ids(specs[m].rounds) =>
            /\ \A id \in Ids(specs[m].rounds) :
                  LET to == IF id > n THEN id + 1 ELSE id
                  IN  to \in Ids(specs[m].rounds) \/ PinOf(pins[m], to) = {}
                      => PinOf(pins'[m], to) = PinOf(pins[m], id)
            /\ n + 1 \in Ids(specs[m].rounds) => PinOf(pins'[m], n + 1) = {}]_vars

\* A pin follows its round whatever a round that is gone has left behind: no pin
\* that is written later takes its name (renameLayoutIds: two ids with one new
\* name "never happens", for "the destinations are all distinct").  The code does
\* not keep it: the stale pin of a round that a reset took away wins.
LivePinsFollow ==
    [][\A n \in RoundIds : Duplicate(n) =>
        \A m \in Modes : n \in Ids(specs[m].rounds) =>
            \A id \in Ids(specs[m].rounds) : PinOf(pins[m], id) # {} =>
                PinOf(pins'[m], IF id > n THEN id + 1 ELSE id) = PinOf(pins[m], id)]_vars

=============================================================================
