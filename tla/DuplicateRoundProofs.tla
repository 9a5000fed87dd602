------------------------ MODULE DuplicateRoundProofs ------------------------
(***************************************************************************)
(* Proofs about DuplicateRound, for any number of rounds and duplicates,   *)
(* where the exit is the spec's own and nobody resets the encryption spec  *)
(* alone.  Both specs stay chained; so what they compute can be written    *)
(* down place by place, which gives the order of the keys and says when    *)
(* one spec undoes the other; and so a duplication renames exactly the     *)
(* rounds above its source, which gives the pins.                          *)
(***************************************************************************)
EXTENDS DuplicateRound, SequenceTheorems, FiniteSetTheorems, WellFoundedInduction, TLAPS

\* The types without the model's bound.
AnyRound == [id : Int, key : Int, seed : Int, mix : Matrices \cup {NoMix}]
AnySpec == [rounds : Seq(AnyRound), initialKey : Int, schedule : Int, exit : Int]

\* The decryption spec may have been reset, the encryption spec never was; so
\* the mirror of an inverse round is never the last round.
ChainInv ==
    /\ mode \in Modes
    /\ specs \in [Modes -> AnySpec]
    /\ RoundsChained
    /\ Rounds <= Len(specs["decrypt"].rounds)
    /\ Len(specs["decrypt"].rounds) <= Len(specs["encrypt"].rounds)

-----------------------------------------------------------------------------
(***************************************************************************)
(* The pieces of a duplication.                                            *)
(***************************************************************************)

\* An element inserted at a place moves those from there on.
LEMMA InsertAtProperties ==
    ASSUME NEW S, NEW s \in Seq(S), NEW k \in 1..(Len(s) + 1), NEW e \in S
    PROVE  /\ InsertAt(s, k, e) \in Seq(S)
           /\ Len(InsertAt(s, k, e)) = Len(s) + 1
           /\ \A i \in 1..(k - 1) : InsertAt(s, k, e)[i] = s[i]
           /\ InsertAt(s, k, e)[k] = e
           /\ \A i \in (k + 1)..(Len(s) + 1) : InsertAt(s, k, e)[i] = s[i - 1]
<1>. DEFINE front == SubSeq(s, 1, k - 1)
            back == SubSeq(s, k, Len(s))
<1>0. Len(s) \in Nat
  OBVIOUS
<1>1. /\ front \in Seq(S) /\ Len(front) = k - 1
      /\ \A i \in 1..(k - 1) : front[i] = s[i]
  BY <1>0, SubSeqProperties
<1>2. /\ back \in Seq(S) /\ Len(back) = Len(s) - k + 1
      /\ \A i \in 1..(Len(s) - k + 1) : back[i] = s[k + i - 1]
  BY <1>0, SubSeqProperties
<1>3. InsertAt(s, k, e) = front \o <<e>> \o back
  BY DEF InsertAt
<1>. HIDE DEF front, back
<1>4. /\ front \o <<e>> \in Seq(S) /\ Len(front \o <<e>>) = k
      /\ \A i \in 1..(k - 1) : (front \o <<e>>)[i] = s[i]
      /\ (front \o <<e>>)[k] = e
  BY <1>0, <1>1
<1>5. PICK f : f = front \o <<e>>
  OBVIOUS
<1>6. /\ f \o back \in Seq(S) /\ Len(f \o back) = Len(s) + 1
      /\ \A i \in 1..k : (f \o back)[i] = f[i]
      /\ \A i \in (k + 1)..(Len(s) + 1) : (f \o back)[i] = back[i - k]
  <2>1. f \in Seq(S) /\ Len(f) = k
    BY <1>4, <1>5
  <2>2. PICK b : b = back
    OBVIOUS
  <2>3. b \in Seq(S) /\ Len(b) = Len(s) - k + 1
    BY <1>2, <2>2
  <2>4. f \o b \in Seq(S) /\ Len(f \o b) = Len(f) + Len(b)
    BY <2>1, <2>3, ConcatProperties
  <2>5. \A i \in 1..k : (f \o b)[i] = f[i]
    BY <2>1, <2>3
  <2>6. \A i \in (k + 1)..(Len(s) + 1) : (f \o b)[i] = b[i - k]
    BY <1>0, <2>1, <2>3
  <2>. QED  BY <1>0, <2>1, <2>2, <2>3, <2>4, <2>5, <2>6
<1>7. \A i \in (k + 1)..(Len(s) + 1) : back[i - k] = s[i - 1]
  <2>. TAKE i \in (k + 1)..(Len(s) + 1)
  <2>1. i - k \in 1..(Len(s) - k + 1) /\ k + (i - k) - 1 = i - 1
    BY <1>0
  <2>. QED  BY <1>2, <2>1
<1>. QED  BY <1>0, <1>3, <1>4, <1>5, <1>6, <1>7

\* The number of the round at a place of a chained list.
Number(len, i, m) == IF m = "encrypt" THEN i ELSE len - i

\* In a chained spec a round stands at the place that its number says.
LEMMA ChainedPlaces ==
    ASSUME NEW m \in Modes, NEW spec \in AnySpec, Chained(spec, m),
           NEW n \in Ids(spec.rounds)
    PROVE  /\ Len(spec.rounds) \in Nat
           /\ Place(spec.rounds, n) \in 1..Len(spec.rounds)
           /\ Number(Len(spec.rounds), Place(spec.rounds, n), m) = n
           /\ n \in Int
<1>1. spec.rounds \in Seq(AnyRound)
  BY DEF AnySpec
<1>2. Len(spec.rounds) \in Nat /\ DOMAIN spec.rounds = 1..Len(spec.rounds)
  BY <1>1
<1>3. \E i \in DOMAIN spec.rounds : spec.rounds[i].id = n
  BY DEF Ids
<1>4. Place(spec.rounds, n) \in DOMAIN spec.rounds /\ spec.rounds[Place(spec.rounds, n)].id = n
  BY <1>3 DEF Place
<1>5. \A i \in 1..Len(spec.rounds) : spec.rounds[i].id = Number(Len(spec.rounds), i, m)
  BY DEF Chained, Number
<1>. QED  BY <1>2, <1>4, <1>5 DEF Number

\* A duplicated list, place by place: what is on the clone's side of the source
\* is numbered up, the rest is as it was.
LEMMA InsertedPlaces ==
    ASSUME NEW m \in Modes, NEW spec \in AnySpec, Chained(spec, m),
           NEW n \in Ids(spec.rounds), n >= 0
    PROVE  LET rounds == spec.rounds
               len == Len(spec.rounds)
               at == IF m = "encrypt" THEN n + 1 ELSE len - n
               next == Inserted(rounds, n, m)
           IN  /\ at \in 1..(len + 1)
               /\ next \in Seq(AnyRound) /\ Len(next) = len + 1
               /\ \A i \in 1..(len + 1) :
                     /\ next[i].id = Number(len + 1, i, m)
                     /\ next[i].key = next[i].id
                     /\ m = "encrypt" => next[i].seed = IF i = 1 THEN Initial ELSE i - 1
                     /\ next[i].mix = rounds[IF i <= Place(rounds, n) THEN i ELSE i - 1].mix
<1>. DEFINE rounds == spec.rounds
            len == Len(spec.rounds)
            source == Place(rounds, n)
            at == IF m = "encrypt" THEN n + 1 ELSE len - n
            Up(r) == Renumbered(r, r.id + 1, m)
            others == [i \in DOMAIN rounds |->
                         IF i \in Moved(rounds, n, m) THEN Up(rounds[i]) ELSE rounds[i]]
            clone == Renumbered(rounds[source], n + 1, m)
            next == Inserted(rounds, n, m)
<1>1. /\ rounds \in Seq(AnyRound) /\ len \in Nat /\ DOMAIN rounds = 1..len
      /\ n \in Int
      /\ \A i \in 1..len :
            /\ rounds[i] \in AnyRound
            /\ rounds[i].id = Number(len, i, m) /\ rounds[i].key = rounds[i].id
            /\ m = "encrypt" => rounds[i].seed = IF i = 1 THEN Initial ELSE i - 1
  <2>1. rounds \in Seq(AnyRound)
    BY DEF AnySpec
  <2>2. len \in Nat /\ DOMAIN rounds = 1..len /\ \A i \in 1..len : rounds[i] \in AnyRound
    BY <2>1
  <2>3. \A i \in 1..len :
           /\ rounds[i].id = Number(len, i, m) /\ rounds[i].key = rounds[i].id
           /\ m = "encrypt" => rounds[i].seed = IF i = 1 THEN Initial ELSE i - 1
    BY DEF Chained, Number
  <2>. QED  BY <2>1, <2>2, <2>3, ChainedPlaces
<1>2. /\ source \in 1..len /\ Number(len, source, m) = n
      /\ source = IF m = "encrypt" THEN n ELSE len - n
  BY <1>1, ChainedPlaces DEF Number
<1>3. at \in 1..(len + 1) /\ at = IF m = "encrypt" THEN source + 1 ELSE source
  BY <1>1, <1>2
<1>4. \A i \in 1..len : i \in Moved(rounds, n, m) <=> IF m = "encrypt" THEN i >= at ELSE i < at
  BY <1>1, <1>2, <1>3 DEF Moved, Number
<1>5. \A r \in AnyRound, to \in Int :
         LET up == Renumbered(r, to, m)
         IN  /\ up \in AnyRound /\ up.id = to /\ up.mix = r.mix
             /\ r.key = r.id => up.key = to
             /\ m = "encrypt" => up.seed = IF to = 1 THEN Initial ELSE to - 1
  <2>. SUFFICES ASSUME NEW r \in AnyRound, NEW to \in Int
       PROVE  LET up == Renumbered(r, to, m)
              IN  /\ up \in AnyRound /\ up.id = to /\ up.mix = r.mix
                  /\ r.key = r.id => up.key = to
                  /\ m = "encrypt" => up.seed = IF to = 1 THEN Initial ELSE to - 1
    OBVIOUS
  <2>1. m = "encrypt" <=> m # "decrypt"
    BY DEF Modes
  <2>2. /\ r.key \in Int /\ r.seed \in Int /\ r.id \in Int
        /\ r = [id |-> r.id, key |-> r.key, seed |-> r.seed, mix |-> r.mix]
        /\ r.mix \in Matrices \cup {NoMix}
    BY DEF AnyRound
  <2>3. Renumbered(r, to, m) =
           [id |-> to, key |-> IF r.key = r.id THEN to ELSE r.key,
            seed |-> IF m = "decrypt" THEN r.seed ELSE IF to = 1 THEN Initial ELSE to - 1,
            mix |-> r.mix]
    <3>1. PICK key, seed :
             /\ key = IF r.key = r.id THEN to ELSE r.key
             /\ seed = IF m = "decrypt" THEN r.seed ELSE IF to = 1 THEN Initial ELSE to - 1
      OBVIOUS
    <3>2. Renumbered(r, to, m) = [r EXCEPT !.id = to, !.key = key, !.seed = seed]
      BY Zenon, <3>1 DEF Renumbered
    <3>. QED  BY <2>2, <3>1, <3>2
  <2>. QED  BY <2>1, <2>2, <2>3 DEF AnyRound, Initial
<1>6. \A i \in 1..len :
         /\ others[i] \in AnyRound /\ others[i].key = others[i].id
         /\ others[i].mix = rounds[i].mix
         /\ others[i].id = IF i \in Moved(rounds, n, m) THEN rounds[i].id + 1 ELSE rounds[i].id
         /\ m = "encrypt" =>
               others[i].seed = IF i \in Moved(rounds, n, m) THEN i
                                ELSE IF i = 1 THEN Initial ELSE i - 1
  <2>. TAKE i \in 1..len
  <2>1. rounds[i] \in AnyRound /\ rounds[i].id \in Int
    BY <1>1 DEF AnyRound
  <2>2. CASE i \in Moved(rounds, n, m)
    <3>1. others[i] = Renumbered(rounds[i], rounds[i].id + 1, m)
      BY <1>1, <2>2
    <3>2. m = "encrypt" => rounds[i].id + 1 # 1 /\ (rounds[i].id + 1) - 1 = i
      BY <1>1 DEF Number
    <3>3. PICK r, to : r = rounds[i] /\ to = rounds[i].id + 1
      OBVIOUS
    <3>4. /\ r \in AnyRound /\ to \in Int /\ r.key = r.id /\ others[i] = Renumbered(r, to, m)
          /\ m = "encrypt" => to # 1 /\ to - 1 = i
      BY <1>1, <2>1, <3>1, <3>2, <3>3
    <3>5. /\ others[i] \in AnyRound /\ others[i].id = to /\ others[i].key = to
          /\ others[i].mix = r.mix
          /\ m = "encrypt" => others[i].seed = IF to = 1 THEN Initial ELSE to - 1
      <4>. HIDE DEF others
      <4>1. LET up == Renumbered(r, to, m)
            IN  /\ up \in AnyRound /\ up.id = to /\ up.mix = r.mix
                /\ r.key = r.id => up.key = to
                /\ m = "encrypt" => up.seed = IF to = 1 THEN Initial ELSE to - 1
        BY <1>5, <3>4
      <4>. QED  BY <3>4, <4>1
    <3>. QED  BY <2>2, <3>3, <3>4, <3>5
  <2>3. CASE i \notin Moved(rounds, n, m)
    BY <1>1, <2>1, <2>3
  <2>. QED  BY <2>2, <2>3
<1>7. others \in Seq(AnyRound) /\ Len(others) = len
  <2>1. others = [i \in 1..len |-> others[i]]
    BY <1>1
  <2>2. \A i \in 1..len : others[i] \in AnyRound
    BY <1>6
  <2>. HIDE DEF others, len
  <2>3. others \in [1..len -> AnyRound] /\ len \in Nat
    BY <1>1, <2>1, <2>2
  <2>. QED  BY <2>3
<1>8. /\ clone \in AnyRound /\ clone.id = n + 1 /\ clone.key = n + 1
      /\ clone.mix = rounds[source].mix
      /\ m = "encrypt" => clone.seed = IF n + 1 = 1 THEN Initial ELSE n
  <2>1. /\ rounds[source] \in AnyRound /\ rounds[source].id = n
        /\ rounds[source].key = rounds[source].id /\ n + 1 \in Int /\ (n + 1) - 1 = n
    BY <1>1, <1>2
  <2>. QED  BY <1>5, <2>1
<1>9. next = InsertAt(others, at, clone)
  BY <1>3 DEF Inserted
<1>. HIDE DEF others, clone, next, at, source
<1>10. /\ next \in Seq(AnyRound) /\ Len(next) = len + 1
       /\ \A i \in 1..(at - 1) : next[i] = others[i]
       /\ next[at] = clone
       /\ \A i \in (at + 1)..(len + 1) : next[i] = others[i - 1]
  <2>1. PICK o, c, k : o = others /\ c = clone /\ k = at
    OBVIOUS
  <2>2. o \in Seq(AnyRound) /\ Len(o) = len /\ c \in AnyRound /\ k \in 1..(Len(o) + 1)
    BY <1>3, <1>7, <1>8, <2>1
  <2>3. /\ InsertAt(o, k, c) \in Seq(AnyRound)
        /\ Len(InsertAt(o, k, c)) = Len(o) + 1
        /\ \A i \in 1..(k - 1) : InsertAt(o, k, c)[i] = o[i]
        /\ InsertAt(o, k, c)[k] = c
        /\ \A i \in (k + 1)..(Len(o) + 1) : InsertAt(o, k, c)[i] = o[i - 1]
    BY <2>2, InsertAtProperties
  <2>. QED  BY <1>9, <2>1, <2>2, <2>3
<1>11. \A i \in 1..(len + 1) :
          /\ next[i].id = Number(len + 1, i, m)
          /\ next[i].key = next[i].id
          /\ m = "encrypt" => next[i].seed = IF i = 1 THEN Initial ELSE i - 1
          /\ next[i].mix = rounds[IF i <= source THEN i ELSE i - 1].mix
  <2>. TAKE i \in 1..(len + 1)
  <2>1. CASE i < at
    <3>1. i \in 1..len /\ i \in 1..(at - 1) /\ next[i] = others[i]
      BY <1>1, <1>3, <1>10, <2>1
    <3>2. i \in Moved(rounds, n, m) <=> m # "encrypt"
      BY <1>1, <1>3, <1>4, <2>1, <3>1
    <3>3. rounds[IF i <= source THEN i ELSE i - 1] = rounds[i]
      BY <1>1, <1>2, <1>3, <2>1
    <3>4. next[i].mix = rounds[IF i <= source THEN i ELSE i - 1].mix
      BY <1>6, <3>1, <3>3
    <3>. QED  BY <1>1, <1>6, <3>1, <3>2, <3>4 DEF Number
  <2>2. CASE i = at
    <3>1. next[i] = clone
      BY <1>10, <2>2
    <3>2. n + 1 = Number(len + 1, i, m)
      BY <1>1, <1>2, <1>3, <2>2 DEF Number
    <3>3. m = "encrypt" => i = n + 1
      BY <1>2, <1>3, <2>2
    <3>4. source = IF i <= source THEN i ELSE i - 1
      BY <1>1, <1>2, <1>3, <2>2
    <3>. QED  BY <1>1, <1>8, <3>1, <3>2, <3>3, <3>4
  <2>3. CASE i > at
    <3>1. i - 1 \in 1..len /\ i \in (at + 1)..(len + 1) /\ next[i] = others[i - 1]
      BY <1>1, <1>3, <1>10, <2>3
    <3>2. i - 1 \in Moved(rounds, n, m) <=> m = "encrypt"
      BY <1>1, <1>3, <1>4, <2>3, <3>1
    <3>3. i # 1 /\ ~(i <= source)
      BY <1>1, <1>2, <1>3, <2>3, <3>1
    <3>. QED  BY <1>1, <1>6, <3>1, <3>2, <3>3 DEF Number
  <2>. QED  BY <1>1, <1>3, <2>1, <2>2, <2>3
<1>. QED  BY <1>3, <1>10, <1>11 DEF next, at, source

\* The inverse chain is rewired from the highest number down.
LEMMA RewiredPlaces ==
    ASSUME NEW rounds \in Seq(AnyRound),
           \A i \in 1..Len(rounds) : rounds[i].id = Len(rounds) - i
    PROVE  /\ Rewired(rounds) \in Seq(AnyRound) /\ Len(Rewired(rounds)) = Len(rounds)
           /\ \A i \in 1..Len(rounds) :
                 /\ Rewired(rounds)[i].id = rounds[i].id
                 /\ Rewired(rounds)[i].key = rounds[i].key
                 /\ Rewired(rounds)[i].mix = rounds[i].mix
                 /\ Rewired(rounds)[i].seed = IF i = 1 THEN Initial ELSE rounds[i].id + 1
<1>. DEFINE len == Len(rounds)
            last(i) == \A id \in Ids(rounds) : id <= rounds[i].id
            seed(i) == IF last(i) THEN Initial ELSE rounds[i].id + 1
<1>1. len \in Nat /\ DOMAIN rounds = 1..len /\ \A i \in 1..len : rounds[i] \in AnyRound
  OBVIOUS
<1>2. \A i \in 1..len : last(i) <=> i = 1
  <2>. TAKE i \in 1..len
  <2>1. Ids(rounds) = {rounds[j].id : j \in 1..len}
    BY <1>1 DEF Ids
  <2>2. rounds[i].id = len - i /\ rounds[1].id = len - 1 /\ 1 \in 1..len
    BY <1>1
  <2>3. ASSUME last(i) PROVE i = 1
    <3>1. rounds[1].id \in Ids(rounds)
      BY <2>1, <2>2
    <3>2. rounds[1].id <= rounds[i].id
      BY <2>3, <3>1
    <3>. QED  BY <1>1, <2>2, <3>2
  <2>4. ASSUME i = 1 PROVE last(i)
    BY <1>1, <2>1, <2>2, <2>4
  <2>. QED  BY <2>3, <2>4
<1>3. Rewired(rounds) = [i \in 1..len |-> [rounds[i] EXCEPT !.seed = seed(i)]]
  BY <1>1 DEF Rewired
<1>. HIDE DEF last
<1>4. \A i \in 1..len :
         LET up == [rounds[i] EXCEPT !.seed = seed(i)]
         IN  /\ up \in AnyRound /\ up.id = rounds[i].id /\ up.key = rounds[i].key
             /\ up.mix = rounds[i].mix
             /\ up.seed = IF i = 1 THEN Initial ELSE rounds[i].id + 1
  <2>. TAKE i \in 1..len
  <2>1. PICK new : new = seed(i)
    OBVIOUS
  <2>2. rounds[i] \in AnyRound /\ rounds[i].id \in Int
    BY <1>1 DEF AnyRound
  <2>3. new \in Int /\ new = IF i = 1 THEN Initial ELSE rounds[i].id + 1
    BY <1>2, <2>1, <2>2 DEF Initial
  <2>4. PICK r : r = rounds[i]
    OBVIOUS
  <2>5. LET up == [r EXCEPT !.seed = new]
        IN  /\ up \in AnyRound /\ up.id = r.id /\ up.key = r.key /\ up.seed = new
            /\ up.mix = r.mix
    BY <2>2, <2>3, <2>4 DEF AnyRound
  <2>. QED  BY <2>1, <2>3, <2>4, <2>5
<1>. DEFINE up == [i \in 1..len |-> [rounds[i] EXCEPT !.seed = seed(i)]]
<1>5. /\ \A i \in 1..len :
            /\ up[i] \in AnyRound /\ up[i].id = rounds[i].id /\ up[i].key = rounds[i].key
            /\ up[i].mix = rounds[i].mix
            /\ up[i].seed = IF i = 1 THEN Initial ELSE rounds[i].id + 1
      /\ up = [i \in 1..len |-> up[i]]
  BY <1>4
<1>6. Rewired(rounds) = up
  BY <1>3
<1>. HIDE DEF seed, up, len
<1>7. up \in [1..len -> AnyRound] /\ len \in Nat
  BY <1>1, <1>5
<1>8. up \in Seq(AnyRound) /\ Len(up) = len
  BY <1>7
<1>. QED  BY <1>5, <1>6, <1>8 DEF len

\* One duplication keeps a spec chained, and adds a round.  In the cipher the
\* source has to be a round before the last, or the exit would stay behind.
LEMMA DuplicatedChained ==
    ASSUME Exit = "outputFrom",
           NEW m \in Modes, NEW spec \in AnySpec, Chained(spec, m),
           NEW n \in Ids(spec.rounds), n >= 0,
           m = "encrypt" => n < Len(spec.rounds)
    PROVE  /\ Duplicated(spec, n, m) \in AnySpec
           /\ Chained(Duplicated(spec, n, m), m)
           /\ Len(Duplicated(spec, n, m).rounds) = Len(spec.rounds) + 1
           /\ \A i \in 1..(Len(spec.rounds) + 1) :
                 Duplicated(spec, n, m).rounds[i].mix =
                    spec.rounds[IF i <= Place(spec.rounds, n) THEN i ELSE i - 1].mix
<1>. DEFINE len == Len(spec.rounds)
            inserted == Inserted(spec.rounds, n, m)
            rounds == IF m = "encrypt" THEN inserted ELSE Rewired(inserted)
            exit == Renamed(spec.rounds, n, m, spec.exit)
            next == Duplicated(spec, n, m)
<1>1. /\ inserted \in Seq(AnyRound) /\ Len(inserted) = len + 1
      /\ \A i \in 1..(len + 1) :
            /\ inserted[i].id = Number(len + 1, i, m)
            /\ inserted[i].key = inserted[i].id
            /\ m = "encrypt" => inserted[i].seed = IF i = 1 THEN Initial ELSE i - 1
            /\ inserted[i].mix = spec.rounds[IF i <= Place(spec.rounds, n) THEN i ELSE i - 1].mix
  BY InsertedPlaces
<1>2. /\ len \in Nat /\ n \in Int /\ spec.rounds \in Seq(AnyRound)
      /\ DOMAIN spec.rounds = 1..len
      /\ \A i \in 1..len : spec.rounds[i].id = Number(len, i, m)
      /\ Place(spec.rounds, n) \in 1..len
      /\ Number(len, Place(spec.rounds, n), m) = n
  <2>1. len \in Nat /\ spec.rounds \in Seq(AnyRound) /\ DOMAIN spec.rounds = 1..len
    BY DEF AnySpec
  <2>2. \A i \in 1..len : spec.rounds[i].id = Number(len, i, m)
    BY DEF Chained, Number
  <2>. QED  BY <2>1, <2>2, ChainedPlaces
<1>. HIDE DEF inserted
<1>3. /\ rounds \in Seq(AnyRound) /\ Len(rounds) = len + 1
      /\ \A i \in 1..(len + 1) :
            /\ rounds[i].id = Number(len + 1, i, m)
            /\ rounds[i].key = Number(len + 1, i, m)
            /\ rounds[i].seed = IF i = 1 THEN Initial ELSE Number(len + 1, i - 1, m)
            /\ rounds[i].mix = spec.rounds[IF i <= Place(spec.rounds, n) THEN i ELSE i - 1].mix
  <2>1. CASE m = "encrypt"
    BY <1>1, <2>1 DEF Number
  <2>2. CASE m # "encrypt"
    <3>1. PICK s : s = inserted
      OBVIOUS
    <3>2. s \in Seq(AnyRound) /\ Len(s) = len + 1 /\ \A i \in 1..Len(s) : s[i].id = Len(s) - i
      BY <1>1, <2>2, <3>1 DEF Number
    <3>3. /\ Rewired(s) \in Seq(AnyRound) /\ Len(Rewired(s)) = Len(s)
          /\ \A i \in 1..Len(s) :
                /\ Rewired(s)[i].id = s[i].id /\ Rewired(s)[i].key = s[i].key
                /\ Rewired(s)[i].mix = s[i].mix
                /\ Rewired(s)[i].seed = IF i = 1 THEN Initial ELSE s[i].id + 1
      BY <3>2, RewiredPlaces
    <3>4. \A i \in 1..(len + 1) : s[i].id + 1 = Number(len + 1, i - 1, m)
      BY <1>2, <2>2, <3>2 DEF Number
    <3>. QED  BY <1>1, <2>2, <3>1, <3>2, <3>3, <3>4
  <2>. QED  BY <2>1, <2>2
<1>4. exit = Number(len + 1, len + 1, m)
  <2>1. spec.exit = Number(len, len, m)
    BY DEF Chained, Number
  <2>2. CASE m = "encrypt"
    <3>1. len \in Moved(spec.rounds, n, m) /\ spec.rounds[len].id = spec.exit
      BY <1>2, <2>1, <2>2 DEF Moved, Number
    <3>. QED  BY <2>1, <2>2, <3>1 DEF Renamed, Number
  <2>3. CASE m # "encrypt"
    <3>1. \A i \in Moved(spec.rounds, n, m) : spec.rounds[i].id > n
      BY <2>3 DEF Moved
    <3>2. spec.exit = 0 /\ ~ \E i \in Moved(spec.rounds, n, m) : spec.rounds[i].id = spec.exit
      BY <1>2, <2>1, <2>3, <3>1 DEF Number
    <3>. QED  BY <1>2, <2>3, <3>2 DEF Renamed, Number
  <2>. QED  BY <2>2, <2>3
<1>5. next = [rounds |-> rounds,
              initialKey |-> IF m = "encrypt" THEN spec.initialKey ELSE spec.initialKey + 1,
              schedule |-> spec.schedule + 1, exit |-> exit]
  BY DEF Duplicated, inserted
<1>6. /\ spec.schedule = len
      /\ spec.initialKey = IF m = "encrypt" THEN 0 ELSE len
  BY DEF Chained
<1>. HIDE DEF rounds, exit, next
<1>7. /\ next.rounds = rounds /\ next.schedule = len + 1
      /\ next.initialKey = IF m = "encrypt" THEN 0 ELSE len + 1
      /\ next.exit = Number(len + 1, len + 1, m)
  BY <1>4, <1>5, <1>6
<1>8. next \in AnySpec
  <2>1. exit \in Int /\ spec.schedule + 1 \in Int
    BY <1>2, <1>4, <1>6 DEF Number
  <2>2. (IF m = "encrypt" THEN spec.initialKey ELSE spec.initialKey + 1) \in Int
    BY <1>2, <1>6
  <2>. QED  BY <1>3, <1>5, <2>1, <2>2 DEF AnySpec
<1>9. Chained(next, m)
  BY <1>2, <1>3, <1>7 DEF Chained, Number
<1>. QED  BY <1>3, <1>7, <1>8, <1>9 DEF next

-----------------------------------------------------------------------------
(***************************************************************************)
(* The invariant.                                                          *)
(***************************************************************************)

\* The canonical specs are chained.
LEMMA CanonicalChained ==
    ASSUME NEW m \in Modes
    PROVE  /\ Canonical(m) \in AnySpec /\ Chained(Canonical(m), m)
           /\ Len(Canonical(m).rounds) = Rounds
<1>. USE RoundsAssumption, MatricesAssumption
<1>1. CASE m = "encrypt"
  <2>. DEFINE rounds == [i \in 1..Rounds |-> EncryptRound(i)]
  <2>1. \A i \in 1..Rounds : /\ EncryptRound(i) \in AnyRound /\ EncryptRound(i).id = i
                             /\ EncryptRound(i).key = i
                             /\ EncryptRound(i).seed = IF i = 1 THEN Initial ELSE i - 1
    BY DEF EncryptRound, AnyRound, Initial
  <2>. HIDE DEF EncryptRound
  <2>2. rounds \in Seq(AnyRound) /\ Len(rounds) = Rounds
    BY <2>1
  <2>3. \A i \in 1..Rounds : rounds[i] = EncryptRound(i)
    OBVIOUS
  <2>4. Canonical(m) = [rounds |-> rounds, initialKey |-> 0, schedule |-> Rounds, exit |-> Rounds]
    BY <1>1 DEF Canonical
  <2>. HIDE DEF rounds
  <2>. QED  BY <1>1, <2>1, <2>2, <2>3, <2>4 DEF AnySpec, Chained
<1>2. CASE m # "encrypt"
  <2>. DEFINE rounds == [i \in 1..Rounds |-> DecryptRound(Rounds - i)]
  <2>1. \A i \in 1..Rounds :
           /\ DecryptRound(Rounds - i) \in AnyRound /\ DecryptRound(Rounds - i).id = Rounds - i
           /\ DecryptRound(Rounds - i).key = Rounds - i
           /\ DecryptRound(Rounds - i).seed = IF i = 1 THEN Initial ELSE Rounds - (i - 1)
    BY DEF DecryptRound, AnyRound, Initial
  <2>. HIDE DEF DecryptRound
  <2>2. rounds \in Seq(AnyRound) /\ Len(rounds) = Rounds
    BY <2>1
  <2>3. \A i \in 1..Rounds : rounds[i] = DecryptRound(Rounds - i)
    OBVIOUS
  <2>4. Canonical(m) = [rounds |-> rounds, initialKey |-> Rounds, schedule |-> Rounds, exit |-> 0]
    BY <1>2 DEF Canonical
  <2>. HIDE DEF rounds
  <2>5. /\ Canonical(m).rounds = rounds /\ Canonical(m).initialKey = Rounds
        /\ Canonical(m).schedule = Rounds /\ Canonical(m).exit = 0
        /\ Canonical(m) \in AnySpec
    BY <2>2, <2>4 DEF AnySpec
  <2>6. Rounds - Rounds = 0
    OBVIOUS
  <2>7. /\ Len(Canonical(m).rounds) = Rounds
        /\ \A i \in 1..Rounds :
              /\ Canonical(m).rounds[i].id = Rounds - i /\ Canonical(m).rounds[i].key = Rounds - i
              /\ Canonical(m).rounds[i].seed = IF i = 1 THEN Initial ELSE Rounds - (i - 1)
    BY <2>1, <2>2, <2>3, <2>5
  <2>. QED  BY <1>2, <2>5, <2>6, <2>7 DEF Chained
<1>. QED  BY <1>1, <1>2

\* The numbers of a chained list.
LEMMA ChainedIds ==
    ASSUME NEW m \in Modes, NEW spec \in AnySpec, Chained(spec, m), NEW id \in Int
    PROVE  id \in Ids(spec.rounds) <=>
              IF m = "encrypt" THEN 1 <= id /\ id <= Len(spec.rounds)
              ELSE 0 <= id /\ id < Len(spec.rounds)
<1>. DEFINE len == Len(spec.rounds)
<1>1. /\ spec.rounds \in Seq(AnyRound) /\ len \in Nat
      /\ DOMAIN spec.rounds = 1..len
  BY DEF AnySpec
<1>2. \A i \in 1..len : spec.rounds[i].id = Number(len, i, m)
  BY DEF Chained, Number
<1>3. id \in Ids(spec.rounds) <=> \E i \in 1..len : id = Number(len, i, m)
  BY <1>1, <1>2 DEF Ids
<1>4. CASE m = "encrypt"
  BY <1>1, <1>3, <1>4 DEF Number
<1>5. CASE m # "encrypt"
  <2>1. ASSUME 0 <= id, id < len PROVE \E i \in 1..len : id = Number(len, i, m)
    <3>1. len - id \in 1..len /\ id = Number(len, len - id, m)
      BY <1>1, <1>5, <2>1 DEF Number
    <3>. QED  BY <3>1
  <2>2. ASSUME \E i \in 1..len : id = Number(len, i, m) PROVE 0 <= id /\ id < len
    BY <1>1, <1>5, <2>2 DEF Number
  <2>. QED  BY <1>3, <1>5, <2>1, <2>2
<1>. QED  BY <1>4, <1>5

\* The specs that a duplication of round n changes.
Hit(m, n) == m = mode \/ n \in Ids(specs[m].rounds)

\* What a duplication of round n makes of the spec of mode m.
Grown(m, n) ==
    /\ n \in Ids(specs[m].rounds)
    /\ m = "encrypt" => n < Len(specs[m].rounds)
    /\ specs'[m] \in AnySpec /\ Chained(specs'[m], m)
    /\ Len(specs'[m].rounds) = Len(specs[m].rounds) + 1
    /\ \A i \in 1..(Len(specs[m].rounds) + 1) :
          specs'[m].rounds[i].mix =
             specs[m].rounds[IF i <= Place(specs[m].rounds, n) THEN i ELSE i - 1].mix

\* A duplication grows the specs it hits, the encryption spec always, and
\* leaves the others.
LEMMA DuplicateGrows ==
    ASSUME Exit = "outputFrom", ChainInv, NEW n \in RoundIds, Duplicate(n)
    PROVE  /\ mode' = mode /\ mode \in Modes /\ n \in Nat
           /\ mode # "encrypt" => n > 0
           /\ \A m \in Modes : specs[m] \in AnySpec /\ Chained(specs[m], m)
           /\ n < Len(specs["encrypt"].rounds) /\ Hit("encrypt", n)
           /\ \A m \in Modes : IF Hit(m, n) THEN Grown(m, n) ELSE specs'[m] = specs[m]
           /\ specs' = [m \in Modes |-> specs'[m]]
<1>. DEFINE len(m) == Len(specs[m].rounds)
<1>1. /\ mode \in Modes /\ n \in Int /\ n >= 0
      /\ \A m \in Modes : specs[m] \in AnySpec /\ Chained(specs[m], m) /\ len(m) \in Nat
  <2>1. n \in Int /\ n >= 0
    BY DEF RoundIds
  <2>2. \A m \in Modes : len(m) \in Nat
    BY DEF ChainInv, AnySpec
  <2>. QED  BY <2>1, <2>2 DEF ChainInv, RoundsChained
<1>2. /\ mode' = mode
      /\ specs' = [m \in Modes |-> IF Hit(m, n) THEN Duplicated(specs[m], n, m) ELSE specs[m]]
      /\ n \in Ids(specs[mode].rounds)
      /\ mode = "encrypt" => n + 1 \in Ids(specs[mode].rounds)
      /\ mode # "encrypt" => n > 0
  BY <1>1 DEF Duplicate, MirrorId, IsRoundDuplicatable, Modes, Hit
<1>3. \A m \in Modes, id \in Int :
         id \in Ids(specs[m].rounds) <=>
            IF m = "encrypt" THEN 1 <= id /\ id <= len(m) ELSE 0 <= id /\ id < len(m)
  BY <1>1, ChainedIds
<1>4. Rounds <= len("decrypt") /\ len("decrypt") <= len("encrypt")
  BY DEF ChainInv
<1>5. n < len("encrypt") /\ Hit("encrypt", n) /\ \A m \in Modes : Hit(m, n) => n \in Ids(specs[m].rounds)
  <2>1. CASE mode = "encrypt"
    <3>1. n + 1 <= len("encrypt")
      BY <1>1, <1>2, <1>3, <2>1
    <3>. QED  BY <1>1, <1>2, <2>1, <3>1 DEF Hit
  <2>2. CASE mode # "encrypt"
    <3>1. mode = "decrypt" /\ n < len("decrypt") /\ n > 0
      BY <1>1, <1>2, <1>3, <2>2 DEF Modes
    <3>2. n < len("encrypt") /\ n \in Ids(specs["encrypt"].rounds)
      BY <1>1, <1>3, <1>4, <3>1 DEF Modes
    <3>. QED  BY <1>2, <3>2 DEF Hit
  <2>. QED  BY <2>1, <2>2
<1>6. ASSUME NEW m \in Modes, Hit(m, n) PROVE Grown(m, n)
  <2>1. specs'[m] = Duplicated(specs[m], n, m)
    BY <1>2, <1>6
  <2>2. PICK spec : spec = specs[m]
    OBVIOUS
  <2>3. /\ spec \in AnySpec /\ Chained(spec, m) /\ n \in Ids(spec.rounds)
        /\ m = "encrypt" => n < Len(spec.rounds)
    BY <1>1, <1>5, <1>6, <2>2
  <2>4. /\ Duplicated(spec, n, m) \in AnySpec
        /\ Chained(Duplicated(spec, n, m), m)
        /\ Len(Duplicated(spec, n, m).rounds) = Len(spec.rounds) + 1
        /\ \A i \in 1..(Len(spec.rounds) + 1) :
              Duplicated(spec, n, m).rounds[i].mix =
                 spec.rounds[IF i <= Place(spec.rounds, n) THEN i ELSE i - 1].mix
    BY <1>1, <2>3, DuplicatedChained
  <2>. QED  BY <2>1, <2>2, <2>3, <2>4 DEF Grown
<1>7. ASSUME NEW m \in Modes, ~ Hit(m, n) PROVE specs'[m] = specs[m]
  BY <1>1, <1>2, <1>7
<1>. QED  BY <1>1, <1>2, <1>5, <1>6, <1>7

\* The chains go on growing.
LEMMA DuplicateKeepsChains ==
    ASSUME Exit = "outputFrom", ChainInv, NEW n \in RoundIds, Duplicate(n)
    PROVE  ChainInv'
<1>. DEFINE len(m) == Len(specs[m].rounds)
<1>1. /\ mode' = mode /\ mode \in Modes /\ n \in Nat
      /\ mode # "encrypt" => n > 0
      /\ \A m \in Modes : specs[m] \in AnySpec /\ Chained(specs[m], m)
      /\ n < Len(specs["encrypt"].rounds) /\ Hit("encrypt", n)
      /\ \A m \in Modes : IF Hit(m, n) THEN Grown(m, n) ELSE specs'[m] = specs[m]
      /\ specs' = [m \in Modes |-> specs'[m]]
  BY DuplicateGrows
<1>2. Rounds <= len("decrypt") /\ len("decrypt") <= len("encrypt")
  BY DEF ChainInv
<1>3. ASSUME NEW m \in Modes
      PROVE  /\ specs'[m] \in AnySpec /\ Chained(specs'[m], m)
             /\ Len(specs'[m].rounds) = IF Hit(m, n) THEN len(m) + 1 ELSE len(m)
  BY <1>1 DEF Grown
<1>4. specs' \in [Modes -> AnySpec]
  BY <1>1, <1>3
<1>5. RoundsChained'
  BY <1>3 DEF RoundsChained
<1>6. /\ Rounds <= Len(specs'["decrypt"].rounds)
      /\ Len(specs'["decrypt"].rounds) <= Len(specs'["encrypt"].rounds)
  <2>1. "decrypt" \in Modes /\ "encrypt" \in Modes
    BY DEF Modes
  <2>2. len("decrypt") \in Nat /\ len("encrypt") \in Nat
    BY <1>1, <2>1 DEF AnySpec
  <2>3. /\ Len(specs'["encrypt"].rounds) = len("encrypt") + 1
        /\ \/ Len(specs'["decrypt"].rounds) = len("decrypt")
           \/ Len(specs'["decrypt"].rounds) = len("decrypt") + 1
    BY <1>1, <1>3, <2>1
  <2>. HIDE DEF len
  <2>. QED  BY <1>2, <2>2, <2>3, RoundsAssumption
<1>. QED  BY <1>1, <1>4, <1>5, <1>6 DEF ChainInv

\* A matrix is no part of the chain.
LEMMA UpdateMatrixKeepsChains ==
    ASSUME ChainInv, NEW i \in 1..MaxRound, NEW matrix \in Matrices, UpdateMatrix(i, matrix)
    PROVE  ChainInv'
<1>. DEFINE spec == specs[mode]
            rounds == spec.rounds
            after == [rounds EXCEPT ![i] = [@ EXCEPT !.mix = matrix]]
            next == [spec EXCEPT !.rounds = after]
<1>1. /\ mode \in Modes /\ specs \in [Modes -> AnySpec] /\ spec \in AnySpec
      /\ Chained(spec, mode) /\ rounds \in Seq(AnyRound)
  BY DEF ChainInv, RoundsChained, AnySpec
<1>2. specs' = [specs EXCEPT ![mode] = next] /\ mode' = mode /\ i \in DOMAIN rounds
  BY DEF UpdateMatrix
<1>3. /\ after \in Seq(AnyRound) /\ Len(after) = Len(rounds)
      /\ \A j \in 1..Len(rounds) : /\ after[j].id = rounds[j].id /\ after[j].key = rounds[j].key
                                    /\ after[j].seed = rounds[j].seed
  <2>1. PICK r : r = rounds[i]
    OBVIOUS
  <2>2. r \in AnyRound
    BY <1>1, <1>2, <2>1
  <2>3. PICK up : up = [r EXCEPT !.mix = matrix]
    OBVIOUS
  <2>4. up \in AnyRound /\ up.id = r.id /\ up.key = r.key /\ up.seed = r.seed
    BY <2>2, <2>3 DEF AnyRound
  <2>5. after = [rounds EXCEPT ![i] = up]
    BY <2>1, <2>3
  <2>6. PICK s : s = rounds
    OBVIOUS
  <2>7. s \in Seq(AnyRound) /\ i \in DOMAIN s /\ s[i] = r
    BY <1>1, <1>2, <2>1, <2>6
  <2>8. /\ [s EXCEPT ![i] = up] \in Seq(AnyRound) /\ Len([s EXCEPT ![i] = up]) = Len(s)
        /\ \A j \in 1..Len(s) : [s EXCEPT ![i] = up][j] = IF j = i THEN up ELSE s[j]
    BY <2>4, <2>7
  <2>. QED  BY <2>4, <2>5, <2>6, <2>7, <2>8
<1>. HIDE DEF after
<1>4. next \in AnySpec /\ next.rounds = after /\ next.exit = spec.exit
      /\ next.schedule = spec.schedule /\ next.initialKey = spec.initialKey
  BY <1>1, <1>3 DEF AnySpec
<1>5. Chained(next, mode)
  <2>1. Len(rounds) \in Nat
    BY <1>1
  <2>2. \A j \in 1..Len(rounds) :
           /\ rounds[j].id = Number(Len(rounds), j, mode)
           /\ rounds[j].key = Number(Len(rounds), j, mode)
           /\ rounds[j].seed = IF j = 1 THEN Initial ELSE Number(Len(rounds), j - 1, mode)
    BY <1>1 DEF Chained, Number
  <2>. HIDE DEF next
  <2>3. Len(next.rounds) = Len(rounds)
    BY <1>3, <1>4
  <2>4. \A j \in 1..Len(rounds) :
           /\ next.rounds[j].id = Number(Len(rounds), j, mode)
           /\ next.rounds[j].key = Number(Len(rounds), j, mode)
           /\ next.rounds[j].seed = IF j = 1 THEN Initial ELSE Number(Len(rounds), j - 1, mode)
    BY <1>3, <1>4, <2>2
  <2>5. /\ next.exit = Number(Len(rounds), Len(rounds), mode) /\ next.schedule = Len(rounds)
        /\ next.initialKey = IF mode = "encrypt" THEN 0 ELSE Len(rounds)
    BY <1>1, <1>4 DEF Chained, Number
  <2>. QED  BY <2>3, <2>4, <2>5 DEF Chained, Number
<1>. HIDE DEF next
<1>6. \A m \in Modes : specs'[m] = IF m = mode THEN next ELSE specs[m]
  BY <1>1, <1>2
<1>7. specs' \in [Modes -> AnySpec]
  BY <1>1, <1>2, <1>4
<1>8. RoundsChained'
  BY <1>5, <1>6 DEF ChainInv, RoundsChained
<1>9. \A m \in Modes : Len(specs'[m].rounds) = Len(specs[m].rounds)
  BY <1>3, <1>4, <1>6
<1>. QED  BY <1>2, <1>7, <1>8, <1>9 DEF ChainInv, Modes

\* Every step keeps the chains.
LEMMA ChainNext ==
    ASSUME Exit = "outputFrom", "encrypt" \notin Resets, ChainInv, [Next]_vars
    PROVE  ChainInv'
<1>1. CASE \E n \in RoundIds : Duplicate(n)
  BY <1>1, DuplicateKeepsChains
<1>2. CASE \E i \in 1..MaxRound, matrix \in Matrices : UpdateMatrix(i, matrix)
  BY <1>2, UpdateMatrixKeepsChains
<1>3. CASE SetMode
  BY <1>3 DEF SetMode, ChainInv, RoundsChained, Modes, Other
<1>4. CASE ResetSpec
  <2>. DEFINE next == Canonical("decrypt")
  <2>1. "decrypt" \in Modes /\ "encrypt" \in Modes
    BY DEF Modes
  <2>2. next \in AnySpec /\ Chained(next, "decrypt") /\ Len(next.rounds) = Rounds
    BY <2>1, CanonicalChained
  <2>3. mode = "decrypt" /\ mode' = mode /\ specs' = [specs EXCEPT !["decrypt"] = next]
    BY <1>4 DEF ResetSpec, ChainInv, Modes
  <2>. HIDE DEF next
  <2>4. \A m \in Modes : specs'[m] = IF m = "decrypt" THEN next ELSE specs[m]
    BY <2>1, <2>3 DEF ChainInv
  <2>5. specs' \in [Modes -> AnySpec]
    BY <2>2, <2>3 DEF ChainInv
  <2>6. RoundsChained'
    BY <2>2, <2>4 DEF ChainInv, RoundsChained
  <2>7. /\ Len(specs["decrypt"].rounds) \in Nat /\ Len(specs["encrypt"].rounds) \in Nat
    BY <2>1 DEF ChainInv, AnySpec
  <2>. QED  BY <2>1, <2>2, <2>3, <2>4, <2>5, <2>6, <2>7, RoundsAssumption DEF ChainInv
<1>5. CASE \/ \E id \in RoundIds :
                 (\E at \in Places : SetNodePosition(id, at)) \/ ClearNodePosition(id)
           \/ ResetLayout
  <2>1. UNCHANGED <<mode, specs>>
    BY <1>5 DEF SetNodePosition, ClearNodePosition, ResetLayout
  <2>. QED  BY <2>1 DEF ChainInv, RoundsChained
<1>6. CASE UNCHANGED vars
  BY <1>6 DEF vars, ChainInv, RoundsChained
<1>. QED  BY <1>1, <1>2, <1>3, <1>4, <1>5, <1>6 DEF Next

-----------------------------------------------------------------------------
(***************************************************************************)
(* Induction along a list.                                                 *)
(***************************************************************************)

\* A set that has 0 and the next of each of its members below n has everything
\* up to n: there is no first number it misses.
LEMMA Climb ==
    ASSUME NEW n \in Nat, NEW T, 0 \in T, \A k \in 0..(n - 1) : k \in T => k + 1 \in T
    PROVE  0..n \subseteq T
<1>. SUFFICES ASSUME NEW z \in 0..n, z \notin T PROVE FALSE
  OBVIOUS
<1>. DEFINE Below == {0..(p - 1) : p \in (0..n) \ T}
            R == StrictSubsetOrdering(0..n)
<1>1. Below \subseteq SUBSET (0..n) /\ Below # {}
  OBVIOUS
<1>2. IsWellFoundedOn(R, SUBSET (0..n))
  <2>1. IsFiniteSet(0..n)
    BY FS_Interval
  <2>. QED  BY <2>1, FS_FiniteSubsetsOfFinite, FS_StrictSubsetOrderingWellFounded
<1>3. PICK b \in Below : \A v \in Below : ~(<<v, b>> \in R)
  <2>. HIDE DEF Below, R
  <2>. QED  BY <1>1, <1>2, WFMin
<1>4. PICK p \in (0..n) \ T : b = 0..(p - 1)
  OBVIOUS
<1>5. p # 0 /\ p - 1 \in 0..(n - 1) /\ p - 1 \in 0..n /\ (p - 1) + 1 = p
  OBVIOUS
<1>6. p - 1 \notin T
  BY <1>5
<1>7. 0..((p - 1) - 1) \in Below /\ 0..((p - 1) - 1) \subseteq b /\ 0..((p - 1) - 1) # b
  BY <1>4, <1>5, <1>6
<1>8. <<0..((p - 1) - 1), b>> \in R
  BY <1>1, <1>7 DEF StrictSubsetOrdering
<1>. QED  BY <1>3, <1>7, <1>8

\* A function that starts at b and goes on by the steps of F, up to n.
GoesOn(g, n, S, b, F) ==
    g \in [0..n -> S] /\ g[0] = b /\ \A i \in 1..n : g[i] = F[i][g[i - 1]]

\* There is one.
LEMMA Recurrence ==
    ASSUME NEW n \in Nat, NEW S, NEW b \in S, NEW F, F \in [1..n -> [S -> S]]
    PROVE  \E g : GoesOn(g, n, S, b, F)
<1>. DEFINE Steps(g, k) == g[0] = b /\ \A i \in 1..k : g[i] = F[i][g[i - 1]]
            T == {k \in 0..n : \E g \in [0..k -> S] : Steps(g, k)}
<1>1. 0 \in T
  <2>1. PICK g : g = [i \in 0..0 |-> b]
    OBVIOUS
  <2>2. g \in [0..0 -> S] /\ g[0] = b /\ \A i \in 1..0 : g[i] = F[i][g[i - 1]]
    BY <2>1
  <2>3. 0 \in 0..n
    OBVIOUS
  <2>. QED  BY <2>2, <2>3
<1>2. ASSUME NEW k \in 0..(n - 1), k \in T PROVE k + 1 \in T
  <2>1. PICK g \in [0..k -> S] : Steps(g, k)
    BY <1>2
  <2>2. k + 1 \in 1..n /\ k + 1 \in 0..n /\ g[k] \in S /\ F[k + 1][g[k]] \in S
    OBVIOUS
  <2>3. PICK next \in S : next = F[k + 1][g[k]]
    BY <2>2
  <2>4. PICK h : h = [i \in 0..(k + 1) |-> IF i <= k THEN g[i] ELSE next]
    OBVIOUS
  <2>5. h \in [0..(k + 1) -> S]
    BY <2>4
  <2>6. \A i \in 1..(k + 1) : h[i] = F[i][h[i - 1]]
    <3>. TAKE i \in 1..(k + 1)
    <3>1. CASE i <= k
      <4>1. i \in 1..k /\ h[i] = g[i] /\ h[i - 1] = g[i - 1]
        BY <2>4, <3>1
      <4>. QED  BY <2>1, <4>1
    <3>2. CASE i = k + 1
      BY <2>3, <2>4, <3>2
    <3>. QED  BY <3>1, <3>2
  <2>7. h[0] = b
    BY <2>1, <2>4
  <2>. QED  BY <2>2, <2>5, <2>6, <2>7
<1>3. n \in T
  <2>1. \A k \in 0..(n - 1) : k \in T => k + 1 \in T
    BY <1>2
  <2>. HIDE DEF T
  <2>2. 0..n \subseteq T
    BY <1>1, <2>1, Climb
  <2>. QED  BY <2>2
<1>. QED  BY <1>3 DEF GoesOn

-----------------------------------------------------------------------------
(***************************************************************************)
(* Where a round lacks its matrix.                                         *)
(***************************************************************************)

\* Only the last round is without (Inv)MixColumns.
Mixed(spec) ==
    \A i \in 1..Len(spec.rounds) : spec.rounds[i].mix = NoMix <=> i = Len(spec.rounds)

MixInv == \A m \in Modes : Mixed(specs[m])

\* So it is in the canonical specs.
LEMMA CanonicalMixed ==
    ASSUME NEW m \in Modes
    PROVE  Mixed(Canonical(m))
<1>. USE RoundsAssumption, MatricesAssumption
<1>1. Len(Canonical(m).rounds) = Rounds
  BY CanonicalChained
<1>2. CASE m = "encrypt"
  <2>1. Canonical(m).rounds = [i \in 1..Rounds |-> EncryptRound(i)]
    BY <1>2 DEF Canonical
  <2>2. \A i \in 1..Rounds : EncryptRound(i).mix = NoMix <=> i = Rounds
    BY DEF EncryptRound
  <2>. QED  BY <1>1, <2>1, <2>2 DEF Mixed
<1>3. CASE m # "encrypt"
  <2>1. Canonical(m).rounds = [i \in 1..Rounds |-> DecryptRound(Rounds - i)]
    BY <1>3 DEF Canonical
  <2>2. \A i \in 1..Rounds : DecryptRound(Rounds - i).mix = NoMix <=> i = Rounds
    BY DEF DecryptRound
  <2>. QED  BY <1>1, <2>1, <2>2 DEF Mixed
<1>. QED  BY <1>2, <1>3

\* The source of a duplication stands before the last round, in both specs.
LEMMA SourceIsFull ==
    ASSUME NEW m \in Modes, NEW n \in Nat, n > 0,
           NEW spec \in AnySpec, Chained(spec, m), n \in Ids(spec.rounds),
           m = "encrypt" => n < Len(spec.rounds)
    PROVE  /\ Len(spec.rounds) \in Nat
           /\ Place(spec.rounds, n) \in 1..(Len(spec.rounds) - 1)
           /\ Place(spec.rounds, n) = Number(Len(spec.rounds), n, m)
<1>1. /\ Len(spec.rounds) \in Nat
      /\ Place(spec.rounds, n) \in 1..Len(spec.rounds)
      /\ Number(Len(spec.rounds), Place(spec.rounds, n), m) = n
  BY ChainedPlaces
<1>. QED  BY <1>1 DEF Number

\* A duplicated round has a matrix, so the last one is still the only one
\* without.
LEMMA GrownMixed ==
    ASSUME NEW m \in Modes, NEW n \in Nat, n > 0,
           specs[m] \in AnySpec, Chained(specs[m], m), Mixed(specs[m]), Grown(m, n)
    PROVE  Mixed(specs'[m])
<1>. DEFINE len == Len(specs[m].rounds)
            p == Place(specs[m].rounds, n)
<1>1. /\ Len(specs'[m].rounds) = len + 1
      /\ \A i \in 1..(len + 1) :
            specs'[m].rounds[i].mix = specs[m].rounds[IF i <= p THEN i ELSE i - 1].mix
      /\ n \in Ids(specs[m].rounds)
      /\ m = "encrypt" => n < Len(specs[m].rounds)
  BY DEF Grown
<1>2. len \in Nat /\ p \in 1..(len - 1)
  <2>1. PICK spec : spec = specs[m]
    OBVIOUS
  <2>2. Len(spec.rounds) \in Nat /\ Place(spec.rounds, n) \in 1..(Len(spec.rounds) - 1)
    BY <1>1, <2>1, SourceIsFull
  <2>. QED  BY <2>1, <2>2
<1>. HIDE DEF len, p
<1>3. ASSUME NEW i \in 1..(len + 1)
      PROVE  specs'[m].rounds[i].mix = NoMix <=> i = len + 1
  <2>1. PICK j : j = IF i <= p THEN i ELSE i - 1
    OBVIOUS
  <2>2. j \in 1..len /\ (j = len <=> i = len + 1)
    BY <1>2, <2>1
  <2>3. specs[m].rounds[j].mix = NoMix <=> j = len
    BY <2>2 DEF Mixed, len
  <2>. QED  BY <1>1, <2>1, <2>2, <2>3
<1>. QED  BY <1>1, <1>3 DEF Mixed

\* Every step keeps it so.
LEMMA MixNext ==
    ASSUME Exit = "outputFrom", ChainInv, MixInv, [Next]_vars
    PROVE  MixInv'
<1>1. ASSUME NEW n \in RoundIds, Duplicate(n) PROVE MixInv'
  <2>1. /\ mode \in Modes /\ n \in Nat
        /\ \A m \in Modes : specs[m] \in AnySpec /\ Chained(specs[m], m)
        /\ Hit("encrypt", n)
        /\ \A m \in Modes : IF Hit(m, n) THEN Grown(m, n) ELSE specs'[m] = specs[m]
    BY <1>1, DuplicateGrows
  <2>2. n > 0
    <3>1. "encrypt" \in Modes
      BY DEF Modes
    <3>2. n \in Ids(specs["encrypt"].rounds)
      BY <2>1, <3>1 DEF Grown
    <3>3. PICK spec : spec = specs["encrypt"]
      OBVIOUS
    <3>4. n \in Ids(spec.rounds) <=> 1 <= n /\ n <= Len(spec.rounds)
      BY <2>1, <3>1, <3>3, ChainedIds
    <3>. QED  BY <2>1, <3>2, <3>3, <3>4
  <2>3. ASSUME NEW m \in Modes PROVE Mixed(specs'[m])
    <3>1. CASE Hit(m, n)
      BY <2>1, <2>2, <3>1, GrownMixed DEF MixInv
    <3>2. CASE ~ Hit(m, n)
      BY <2>1, <3>2 DEF MixInv
    <3>. QED  BY <3>1, <3>2
  <2>. QED  BY <2>3 DEF MixInv
<1>2. ASSUME NEW i \in 1..MaxRound, NEW matrix \in Matrices, UpdateMatrix(i, matrix)
      PROVE  MixInv'
  <2>. DEFINE rounds == specs[mode].rounds
              after == [rounds EXCEPT ![i] = [@ EXCEPT !.mix = matrix]]
              next == [specs[mode] EXCEPT !.rounds = after]
  <2>1. /\ mode \in Modes /\ specs \in [Modes -> AnySpec] /\ specs[mode] \in AnySpec
        /\ rounds \in Seq(AnyRound)
    BY DEF ChainInv, AnySpec
  <2>2. specs' = [specs EXCEPT ![mode] = next] /\ i \in DOMAIN rounds /\ rounds[i].mix # NoMix
    BY <1>2 DEF UpdateMatrix
  <2>3. Len(after) = Len(rounds) /\ DOMAIN rounds = 1..Len(rounds)
        /\ \A j \in 1..Len(rounds) : after[j].mix = IF j = i THEN matrix ELSE rounds[j].mix
    <3>1. PICK r : r = rounds[i]
      OBVIOUS
    <3>2. r \in AnyRound
      BY <2>1, <2>2, <3>1
    <3>3. PICK up : up = [r EXCEPT !.mix = matrix]
      OBVIOUS
    <3>4. up.mix = matrix
      BY <3>2, <3>3 DEF AnyRound
    <3>5. after = [rounds EXCEPT ![i] = up]
      BY <3>1, <3>3
    <3>6. PICK s : s = rounds
      OBVIOUS
    <3>7. s \in Seq(AnyRound) /\ up \in AnyRound
      BY <2>1, <3>2, <3>3, <3>6 DEF AnyRound
    <3>8. /\ Len([s EXCEPT ![i] = up]) = Len(s) /\ DOMAIN s = 1..Len(s)
          /\ \A j \in 1..Len(s) : [s EXCEPT ![i] = up][j] = IF j = i THEN up ELSE s[j]
      BY <3>7
    <3>. QED  BY <3>4, <3>5, <3>6, <3>8
  <2>. HIDE DEF after
  <2>4. next.rounds = after
    BY <2>1 DEF AnySpec
  <2>. HIDE DEF next
  <2>5. matrix # NoMix
    BY MatricesAssumption
  <2>6. \A m \in Modes : specs'[m] = IF m = mode THEN next ELSE specs[m]
    BY <2>1, <2>2
  <2>7. Mixed(next)
    BY <2>1, <2>2, <2>3, <2>4, <2>5 DEF Mixed, MixInv
  <2>. QED  BY <2>6, <2>7 DEF MixInv
<1>3. CASE SetMode
  BY <1>3 DEF SetMode, MixInv
<1>4. CASE ResetSpec
  <2>1. mode \in Modes /\ specs \in [Modes -> AnySpec]
    BY DEF ChainInv
  <2>2. \A m \in Modes : specs'[m] = IF m = mode THEN Canonical(mode) ELSE specs[m]
    BY <1>4, <2>1 DEF ResetSpec
  <2>. QED  BY <2>1, <2>2, CanonicalMixed DEF MixInv
<1>5. CASE \/ \E id \in RoundIds :
                 (\E at \in Places : SetNodePosition(id, at)) \/ ClearNodePosition(id)
           \/ ResetLayout
  <2>1. UNCHANGED specs
    BY <1>5 DEF SetNodePosition, ClearNodePosition, ResetLayout
  <2>. QED  BY <2>1 DEF MixInv
<1>6. CASE UNCHANGED vars
  BY <1>6 DEF vars, MixInv
<1>. QED  BY <1>1, <1>2, <1>3, <1>4, <1>5, <1>6 DEF Next

-----------------------------------------------------------------------------
(***************************************************************************)
(* What a chained spec computes.                                           *)
(***************************************************************************)

\* The operations of a computation.
Operation == {<<"sub">>} \cup ({"key"} \X Int) \cup ({"mix"} \X Matrices)

\* The second and third step of a round, which the two directions exchange.
Second(r, m) == IF m = "encrypt" THEN <<"mix", r.mix>> ELSE <<"key", r.key>>
Third(r, m) == IF m = "encrypt" THEN <<"key", r.key>> ELSE <<"mix", r.mix>>

\* Short lists put together.
LEMMA PairOf ==
    ASSUME NEW S, NEW a \in S, NEW b \in S
    PROVE  <<a>> \o <<b>> = <<a, b>>
<1>. DEFINE s == <<a>>
            t == <<b>>
<1>1. s \in Seq(S) /\ Len(s) = 1 /\ s[1] = a
  OBVIOUS
<1>2. t \in Seq(S) /\ Len(t) = 1 /\ t[1] = b
  OBVIOUS
<1>. HIDE DEF s, t
<1>3. PICK v : v = s \o t
  OBVIOUS
<1>4. v \in Seq(S) /\ Len(v) = 2 /\ v[1] = a /\ v[2] = b
  BY <1>1, <1>2, <1>3, ConcatProperties
<1>5. PICK u : u = <<a, b>>
  OBVIOUS
<1>6. u \in Seq(S) /\ Len(u) = 2 /\ u[1] = a /\ u[2] = b
  BY <1>5
<1>7. u = v
  BY <1>4, <1>6, SeqEqual
<1>. QED  BY <1>3, <1>5, <1>7 DEF s, t

\* And three.
LEMMA TripleOf ==
    ASSUME NEW S, NEW a \in S, NEW b \in S, NEW c \in S
    PROVE  <<a, b>> \o <<c>> = <<a, b, c>>
<1>. DEFINE s == <<a, b>>
            t == <<c>>
<1>1. s \in Seq(S) /\ Len(s) = 2 /\ s[1] = a /\ s[2] = b
  OBVIOUS
<1>2. t \in Seq(S) /\ Len(t) = 1 /\ t[1] = c
  OBVIOUS
<1>. HIDE DEF s, t
<1>3. PICK v : v = s \o t
  OBVIOUS
<1>4. /\ v \in Seq(S) /\ Len(v) = Len(s) + Len(t)
      /\ \A i \in 1..(Len(s) + Len(t)) : v[i] = IF i <= Len(s) THEN s[i] ELSE t[i - Len(s)]
  BY <1>1, <1>2, <1>3, ConcatProperties
<1>5. PICK u : u = <<a, b, c>>
  OBVIOUS
<1>6. u \in Seq(S) /\ Len(u) = 3 /\ u[1] = a /\ u[2] = b /\ u[3] = c
  BY <1>5
<1>7. Len(v) = 3 /\ v[1] = a /\ v[2] = b /\ v[3] = c
  BY <1>1, <1>2, <1>4
<1>8. u = v
  BY <1>4, <1>6, <1>7, SeqEqual
<1>. QED  BY <1>3, <1>5, <1>8 DEF s, t

\* A round has three steps, the one without a matrix two.
LEMMA StepsOfRound ==
    ASSUME NEW r \in AnyRound, NEW m \in Modes
    PROVE  /\ RoundSteps(r, m) \in Seq(Operation)
           /\ RoundSteps(r, m)[1] = <<"sub">>
           /\ r.mix # NoMix => /\ Len(RoundSteps(r, m)) = 3
                               /\ RoundSteps(r, m)[2] = Second(r, m)
                               /\ RoundSteps(r, m)[3] = Third(r, m)
           /\ r.mix = NoMix => /\ Len(RoundSteps(r, m)) = 2
                               /\ RoundSteps(r, m)[2] = <<"key", r.key>>
<1>1. /\ <<"sub">> \in Operation /\ <<"key", r.key>> \in Operation
      /\ r.mix # NoMix => <<"mix", r.mix>> \in Operation
  BY DEF AnyRound, Operation
<1>2. PICK sub, key, mix : sub = <<"sub">> /\ key = <<"key", r.key>> /\ mix = <<"mix", r.mix>>
  OBVIOUS
<1>3. PICK u : u = RoundSteps(r, m)
  OBVIOUS
<1>4. sub \in Operation /\ key \in Operation
  BY <1>1, <1>2
<1>5. CASE r.mix = NoMix
  <2>1. u = IF m = "encrypt" THEN <<sub>> \o <<>> \o <<key>> ELSE <<sub, key>> \o <<>>
    BY <1>2, <1>3, <1>5 DEF RoundSteps
  <2>2. <<sub>> \o <<>> = <<sub>>
    BY <1>4
  <2>3. <<sub, key>> \o <<>> = <<sub, key>>
    BY <1>4
  <2>4. <<sub>> \o <<key>> = <<sub, key>>
    BY <1>4, PairOf
  <2>5. u = <<sub, key>>
    BY <2>1, <2>2, <2>3, <2>4
  <2>6. u \in Seq(Operation) /\ Len(u) = 2 /\ u[1] = sub /\ u[2] = key
    BY <1>4, <2>5
  <2>. QED  BY <1>2, <1>3, <1>5, <2>6
<1>6. CASE r.mix # NoMix
  <2>1. u = IF m = "encrypt" THEN <<sub>> \o <<mix>> \o <<key>> ELSE <<sub, key>> \o <<mix>>
    BY <1>2, <1>3, <1>6 DEF RoundSteps
  <2>2. mix \in Operation
    BY <1>1, <1>2, <1>6
  <2>3. <<sub>> \o <<mix>> = <<sub, mix>>
    BY <1>4, <2>2, PairOf
  <2>4. <<sub, mix>> \o <<key>> = <<sub, mix, key>>
    BY <1>4, <2>2, TripleOf
  <2>5. <<sub, key>> \o <<mix>> = <<sub, key, mix>>
    BY <1>4, <2>2, TripleOf
  <2>6. u = IF m = "encrypt" THEN <<sub, mix, key>> ELSE <<sub, key, mix>>
    BY <2>1, <2>3, <2>4, <2>5
  <2>7. /\ u \in Seq(Operation) /\ Len(u) = 3 /\ u[1] = sub
        /\ u[2] = IF m = "encrypt" THEN mix ELSE key
        /\ u[3] = IF m = "encrypt" THEN key ELSE mix
    BY <1>4, <2>2, <2>6
  <2>. QED  BY <1>2, <1>3, <1>6, <2>7 DEF Second, Third
<1>. QED  BY <1>5, <1>6

\* In a chained list the round at each place goes on from the place before it.
LEMMA ComputedUnfolds ==
    ASSUME NEW m \in Modes, NEW spec \in AnySpec, Chained(spec, m)
    PROVE  /\ Computed(spec, m)[0] = <<<<"key", spec.initialKey>>>>
           /\ \A i \in 1..Len(spec.rounds) :
                 Computed(spec, m)[i] = Computed(spec, m)[i - 1] \o RoundSteps(spec.rounds[i], m)
<1>. DEFINE len == Len(spec.rounds)
            feeders(i) == IF spec.rounds[i].seed = Initial THEN {0}
                          ELSE {j \in 1..(i - 1) : spec.rounds[j].id = spec.rounds[i].seed}
            last(i) == CHOOSE j \in feeders(i) : \A k \in feeders(i) : k <= j
            first == <<<<"key", spec.initialKey>>>>
            E(f) == [i \in 0..len |->
                       IF i = 0 THEN first
                       ELSE IF feeders(i) = {} THEN <<>>
                       ELSE f[last(i)] \o RoundSteps(spec.rounds[i], m)]
            S == Seq(Operation)
<1>1. /\ len \in Nat /\ \A i \in 1..len : spec.rounds[i] \in AnyRound
      /\ spec.initialKey \in Int
  BY DEF AnySpec
<1>2. \A i \in 1..len : feeders(i) # {} /\ last(i) = i - 1
  <2>. TAKE i \in 1..len
  <2>1. /\ spec.rounds[i].seed = IF i = 1 THEN Initial ELSE Number(len, i - 1, m)
        /\ \A j \in 1..len : spec.rounds[j].id = Number(len, j, m)
    BY DEF Chained, Number
  <2>2. feeders(i) = {i - 1}
    <3>1. CASE i = 1
      BY <2>1, <3>1
    <3>2. CASE i # 1
      <4>1. Number(len, i - 1, m) # Initial
        BY <1>1, <3>2 DEF Number, Initial
      <4>2. \A j \in 1..(i - 1) : j \in 1..len /\ (spec.rounds[j].id = spec.rounds[i].seed <=> j = i - 1)
        BY <1>1, <2>1, <3>2 DEF Number
      <4>3. feeders(i) = {j \in 1..(i - 1) : spec.rounds[j].id = spec.rounds[i].seed}
        BY <2>1, <3>2, <4>1
      <4>4. i - 1 \in 1..(i - 1)
        BY <3>2
      <4>. HIDE DEF feeders
      <4>. QED  BY <4>2, <4>3, <4>4
    <3>. QED  BY <3>1, <3>2
  <2>. HIDE DEF feeders
  <2>. QED  BY <2>2
<1>. HIDE DEF feeders, last
<1>3. \A f : E(f) = [i \in 0..len |->
                       IF i = 0 THEN first ELSE f[i - 1] \o RoundSteps(spec.rounds[i], m)]
  BY <1>2
<1>4. \E f : f = E(f)
  <2>. DEFINE F == [i \in 1..len |-> [s \in S |-> s \o RoundSteps(spec.rounds[i], m)]]
  <2>1. first \in S
    <3>1. <<"key", spec.initialKey>> \in Operation
      BY <1>1 DEF Operation
    <3>. QED  BY <3>1
  <2>2. F \in [1..len -> [S -> S]]
    <3>1. \A i \in 1..len : RoundSteps(spec.rounds[i], m) \in S
      BY <1>1, StepsOfRound
    <3>2. \A i \in 1..len, s \in S : s \o RoundSteps(spec.rounds[i], m) \in S
      BY <3>1, ConcatProperties
    <3>. HIDE DEF S
    <3>. QED  BY <3>2
  <2>3. \A i \in 1..len, s \in S : F[i][s] = s \o RoundSteps(spec.rounds[i], m)
    OBVIOUS
  <2>. HIDE DEF F, S, first
  <2>4. PICK n \in Nat : n = len
    BY <1>1
  <2>5. PICK W, b, G : W = S /\ b = first /\ G = F
    OBVIOUS
  <2>6. PICK g \in [0..n -> S] : g[0] = b /\ \A i \in 1..n : g[i] = G[i][g[i - 1]]
    <3>1. b \in W /\ G \in [1..n -> [W -> W]]
      BY <2>1, <2>2, <2>4, <2>5
    <3>2. PICK g : GoesOn(g, n, W, b, G)
      BY <2>4, <3>1, Recurrence
    <3>. QED  BY <2>5, <3>2 DEF GoesOn
  <2>7. \A i \in 1..n : g[i] = g[i - 1] \o RoundSteps(spec.rounds[i], m)
    <3>. TAKE i \in 1..n
    <3>1. i - 1 \in 0..n
      BY <2>4
    <3>2. g[i - 1] \in S
      BY <3>1
    <3>3. F[i][g[i - 1]] = g[i - 1] \o RoundSteps(spec.rounds[i], m)
      BY <2>3, <2>4, <3>2
    <3>. QED  BY <2>5, <2>6, <3>3
  <2>8. \A i \in 0..n : g[i] = IF i = 0 THEN first ELSE g[i - 1] \o RoundSteps(spec.rounds[i], m)
    <3>. TAKE i \in 0..n
    <3>1. i = 0 \/ i \in 1..n
      BY <2>4
    <3>. QED  BY <2>5, <2>6, <2>7, <3>1
  <2>9. g = [i \in 0..n |-> IF i = 0 THEN first ELSE g[i - 1] \o RoundSteps(spec.rounds[i], m)]
    BY <2>8
  <2>. HIDE DEF E
  <2>. QED  BY <1>3, <2>4, <2>9
<1>5. Computed(spec, m) = CHOOSE f : f = E(f)
  BY DEF Computed, feeders, last
<1>. HIDE DEF E, len, first
<1>6. Computed(spec, m) = E(Computed(spec, m))
  BY <1>4, <1>5
<1>7. PICK c : c = Computed(spec, m)
  OBVIOUS
<1>8. c = [i \in 0..len |-> IF i = 0 THEN first ELSE c[i - 1] \o RoundSteps(spec.rounds[i], m)]
  BY <1>3, <1>6, <1>7
<1>9. PICK n \in Nat : n = len
  BY <1>1 DEF len
<1>10. \A i \in 0..n : c[i] = IF i = 0 THEN first ELSE c[i - 1] \o RoundSteps(spec.rounds[i], m)
  BY <1>8, <1>9
<1>11. c[0] = first
  <2>1. 0 \in 0..n
    OBVIOUS
  <2>. QED  BY <1>10, <2>1
<1>12. \A i \in 1..n : c[i] = c[i - 1] \o RoundSteps(spec.rounds[i], m)
  <2>. TAKE i \in 1..n
  <2>1. i \in 0..n /\ i # 0
    OBVIOUS
  <2>. QED  BY <1>10, <2>1
<1>. QED  BY <1>7, <1>9, <1>11, <1>12 DEF len, first

\* The computation of the first i rounds, all of them full: a key, then three
\* steps for each.
Prefix(s, i, spec, m) ==
    /\ s \in Seq(Operation) /\ Len(s) = 3 * i + 1
    /\ s[1] = <<"key", spec.initialKey>>
    /\ \A j \in 1..i : /\ s[3 * j - 1] = <<"sub">>
                       /\ s[3 * j] = Second(spec.rounds[j], m)
                       /\ s[3 * j + 1] = Third(spec.rounds[j], m)

\* It grows by the steps of the next full round.
LEMMA PrefixGrows ==
    ASSUME NEW m \in Modes, NEW spec, NEW i \in Nat, NEW s, Prefix(s, i, spec, m),
           spec.rounds[i + 1] \in AnyRound, spec.rounds[i + 1].mix # NoMix
    PROVE  Prefix(s \o RoundSteps(spec.rounds[i + 1], m), i + 1, spec, m)
<1>1. PICK r : r = spec.rounds[i + 1]
  OBVIOUS
<1>2. PICK t : t = RoundSteps(r, m)
  OBVIOUS
<1>3. /\ t \in Seq(Operation) /\ Len(t) = 3
      /\ t[1] = <<"sub">> /\ t[2] = Second(r, m) /\ t[3] = Third(r, m)
  BY <1>1, <1>2, StepsOfRound
<1>4. /\ s \in Seq(Operation) /\ Len(s) = 3 * i + 1 /\ s[1] = <<"key", spec.initialKey>>
      /\ \A j \in 1..i : /\ s[3 * j - 1] = <<"sub">>
                         /\ s[3 * j] = Second(spec.rounds[j], m)
                         /\ s[3 * j + 1] = Third(spec.rounds[j], m)
  BY DEF Prefix
<1>5. PICK u : u = s \o t
  OBVIOUS
<1>6. /\ u \in Seq(Operation) /\ Len(u) = Len(s) + Len(t)
      /\ \A p \in 1..(Len(s) + Len(t)) : u[p] = IF p <= Len(s) THEN s[p] ELSE t[p - Len(s)]
  BY <1>3, <1>4, <1>5, ConcatProperties
<1>7. Len(u) = 3 * (i + 1) + 1 /\ u[1] = <<"key", spec.initialKey>>
  <2>1. 1 \in 1..(Len(s) + Len(t)) /\ 1 <= Len(s)
    BY <1>3, <1>4
  <2>2. u[1] = s[1]
    BY <1>6, <2>1
  <2>. QED  BY <1>3, <1>4, <1>6, <2>2
<1>8. \A p \in 1..(3 * i + 1) : u[p] = s[p]
  BY <1>3, <1>4, <1>6
<1>9. /\ u[3 * (i + 1) - 1] = t[1] /\ u[3 * (i + 1)] = t[2] /\ u[3 * (i + 1) + 1] = t[3]
  BY <1>3, <1>4, <1>6
<1>10. ASSUME NEW j \in 1..(i + 1)
       PROVE  /\ u[3 * j - 1] = <<"sub">>
              /\ u[3 * j] = Second(spec.rounds[j], m)
              /\ u[3 * j + 1] = Third(spec.rounds[j], m)
  <2>1. CASE j <= i
    <3>1. /\ j \in 1..i /\ 3 * j - 1 \in 1..(3 * i + 1) /\ 3 * j \in 1..(3 * i + 1)
          /\ 3 * j + 1 \in 1..(3 * i + 1)
      BY <2>1
    <3>. QED  BY <1>4, <1>8, <3>1
  <2>2. CASE j = i + 1
    BY <1>1, <1>3, <1>9, <2>2
  <2>. QED  BY <2>1, <2>2
<1>. QED  BY <1>1, <1>2, <1>5, <1>6, <1>7, <1>10 DEF Prefix

\* The output of a spec: the full rounds, then the last one, which has a key
\* and no matrix.
Complete(s, spec, m) ==
    LET len == Len(spec.rounds)
    IN  /\ s \in Seq(Operation) /\ Len(s) = 3 * len
        /\ s[1] = <<"key", spec.initialKey>>
        /\ \A j \in 1..(len - 1) : /\ s[3 * j - 1] = <<"sub">>
                                   /\ s[3 * j] = Second(spec.rounds[j], m)
                                   /\ s[3 * j + 1] = Third(spec.rounds[j], m)
        /\ s[3 * len - 1] = <<"sub">>
        /\ s[3 * len] = <<"key", spec.rounds[len].key>>

\* A chained spec, whose last round alone lacks a matrix, computes that.
LEMMA OutputIsComplete ==
    ASSUME NEW m \in Modes, NEW spec \in AnySpec, Chained(spec, m), Mixed(spec),
           Len(spec.rounds) > 0
    PROVE  Complete(Output(spec, m), spec, m)
<1>. DEFINE len == Len(spec.rounds)
<1>1. /\ len \in Nat /\ \A i \in 1..len : spec.rounds[i] \in AnyRound
      /\ spec.initialKey \in Int /\ DOMAIN spec.rounds = 1..len
      /\ len > 0
  BY DEF AnySpec
<1>2. PICK c : c = Computed(spec, m)
  OBVIOUS
<1>3. /\ c[0] = <<<<"key", spec.initialKey>>>>
      /\ \A i \in 1..len : c[i] = c[i - 1] \o RoundSteps(spec.rounds[i], m)
  BY <1>2, ComputedUnfolds
<1>4. Output(spec, m) = c[len]
  <2>1. /\ spec.exit = Number(len, len, m)
        /\ \A i \in 1..len : spec.rounds[i].id = Number(len, i, m)
    BY DEF Chained, Number
  <2>2. \A i \in 1..len : spec.rounds[i].id = spec.exit <=> i = len
    BY <1>1, <2>1 DEF Number
  <2>3. len \in 1..len
    BY <1>1
  <2>. HIDE DEF len
  <2>4. Place(spec.rounds, spec.exit) = len
    BY <1>1, <2>2, <2>3 DEF Place
  <2>. QED  BY <1>2, <2>4 DEF Output
<1>. HIDE DEF len
<1>5. \A i \in 0..(len - 1) : Prefix(c[i], i, spec, m)
  <2>. DEFINE T == {i \in 0..(len - 1) : Prefix(c[i], i, spec, m)}
  <2>1. 0 \in T
    <3>1. <<"key", spec.initialKey>> \in Operation
      BY <1>1 DEF Operation
    <3>2. Prefix(c[0], 0, spec, m)
      BY <1>3, <3>1 DEF Prefix
    <3>. QED  BY <1>1, <3>2
  <2>2. ASSUME NEW i \in 0..((len - 1) - 1), i \in T PROVE i + 1 \in T
    <3>1. /\ i \in Nat /\ i + 1 \in 1..len /\ i + 1 \in 0..(len - 1) /\ i + 1 # len
          /\ (i + 1) - 1 = i
      BY <1>1
    <3>2. PICK s : s = c[i]
      OBVIOUS
    <3>3. spec.rounds[i + 1] \in AnyRound /\ spec.rounds[i + 1].mix # NoMix
      BY <1>1, <3>1 DEF Mixed, len
    <3>4. Prefix(s \o RoundSteps(spec.rounds[i + 1], m), i + 1, spec, m)
      BY <2>2, <3>1, <3>2, <3>3, PrefixGrows
    <3>5. c[i + 1] = s \o RoundSteps(spec.rounds[i + 1], m)
      BY <1>3, <3>1, <3>2
    <3>. QED  BY <3>1, <3>4, <3>5
  <2>3. len - 1 \in Nat
    BY <1>1
  <2>4. 0..(len - 1) \subseteq T
    <3>1. PICK n \in Nat : n = len - 1
      BY <2>3
    <3>2. \A i \in 0..(n - 1) : i \in T => i + 1 \in T
      BY <2>2, <3>1
    <3>. HIDE DEF T
    <3>3. 0..n \subseteq T
      BY <2>1, <3>2, Climb
    <3>. QED  BY <3>1, <3>3
  <2>. QED  BY <2>4
<1>6. PICK s, r, t : s = c[len - 1] /\ r = spec.rounds[len] /\ t = RoundSteps(r, m)
  OBVIOUS
<1>7. /\ s \in Seq(Operation) /\ Len(s) = 3 * len - 2
      /\ s[1] = <<"key", spec.initialKey>>
      /\ \A j \in 1..(len - 1) : /\ s[3 * j - 1] = <<"sub">>
                                 /\ s[3 * j] = Second(spec.rounds[j], m)
                                 /\ s[3 * j + 1] = Third(spec.rounds[j], m)
  <2>1. PICK n \in Nat : n = len - 1
    BY <1>1
  <2>2. Prefix(s, n, spec, m)
    <3>1. n \in 0..(len - 1)
      BY <2>1
    <3>. QED  BY <1>5, <1>6, <2>1, <3>1
  <2>3. 3 * n + 1 = 3 * len - 2
    BY <1>1, <2>1
  <2>. QED  BY <2>1, <2>2, <2>3 DEF Prefix
<1>8. /\ t \in Seq(Operation) /\ Len(t) = 2
      /\ t[1] = <<"sub">> /\ t[2] = <<"key", r.key>>
  <2>1. r \in AnyRound /\ r.mix = NoMix
    BY <1>1, <1>6 DEF Mixed, len
  <2>. QED  BY <1>6, <2>1, StepsOfRound
<1>9. PICK u : u = s \o t
  OBVIOUS
<1>10. /\ u \in Seq(Operation) /\ Len(u) = Len(s) + Len(t)
       /\ \A p \in 1..(Len(s) + Len(t)) : u[p] = IF p <= Len(s) THEN s[p] ELSE t[p - Len(s)]
  BY <1>7, <1>8, <1>9, ConcatProperties
<1>11. \A p \in 1..(3 * len - 2) : u[p] = s[p]
  BY <1>1, <1>7, <1>8, <1>10
<1>12. /\ u[3 * len - 1] = t[1] /\ u[3 * len] = t[2] /\ Len(u) = 3 * len
  BY <1>1, <1>7, <1>8, <1>10
<1>13. ASSUME NEW j \in 1..(len - 1)
       PROVE  /\ u[3 * j - 1] = <<"sub">>
              /\ u[3 * j] = Second(spec.rounds[j], m)
              /\ u[3 * j + 1] = Third(spec.rounds[j], m)
  <2>1. /\ 3 * j - 1 \in 1..(3 * len - 2) /\ 3 * j \in 1..(3 * len - 2)
        /\ 3 * j + 1 \in 1..(3 * len - 2)
    BY <1>1
  <2>. QED  BY <1>7, <1>11, <2>1
<1>14. u[1] = <<"key", spec.initialKey>>
  <2>1. 1 \in 1..(3 * len - 2)
    BY <1>1
  <2>. QED  BY <1>7, <1>11, <2>1
<1>15. Output(spec, m) = u
  <2>1. len \in 1..len
    BY <1>1
  <2>. QED  BY <1>3, <1>4, <1>6, <1>9, <2>1
<1>. QED  BY <1>6, <1>8, <1>10, <1>12, <1>13, <1>14, <1>15 DEF Complete, len

\* A chained spec of mode m with len rounds and the output s.
ComputesAs(spec, m, len, s) ==
    /\ spec \in AnySpec /\ Chained(spec, m) /\ len \in Nat /\ len > 0
    /\ len = Len(spec.rounds) /\ Complete(s, spec, m)

\* The operations of an output, place by place.
PlacesOf(s, spec, m, len) ==
    /\ s \in Seq(Operation) /\ Len(s) = 3 * len
    /\ \A j \in 1..len : s[3 * j - 1] = <<"sub">>
    /\ \A j \in 1..(len - 1) :
          /\ m = "encrypt" => /\ s[3 * j] = <<"mix", spec.rounds[j].mix>>
                              /\ s[3 * j + 1] = <<"key", j>>
          /\ m # "encrypt" => /\ s[3 * j] = <<"key", len - j>>
                              /\ s[3 * j + 1] = <<"mix", spec.rounds[j].mix>>
    /\ s[1] = <<"key", IF m = "encrypt" THEN 0 ELSE len>>
    /\ s[3 * len] = <<"key", IF m = "encrypt" THEN len ELSE 0>>

\* Those of a chained spec.
LEMMA OutputPlaces ==
    ASSUME NEW m \in Modes, NEW spec, NEW len \in Nat, NEW s, ComputesAs(spec, m, len, s)
    PROVE  PlacesOf(s, spec, m, len)
<1>1. /\ \A j \in 1..len : spec.rounds[j].key = IF m = "encrypt" THEN j ELSE len - j
      /\ spec.initialKey = IF m = "encrypt" THEN 0 ELSE len
  BY DEF ComputesAs, Chained
<1>2. /\ s \in Seq(Operation) /\ Len(s) = 3 * len
      /\ s[1] = <<"key", spec.initialKey>>
      /\ \A j \in 1..(len - 1) : /\ s[3 * j - 1] = <<"sub">>
                                 /\ s[3 * j] = Second(spec.rounds[j], m)
                                 /\ s[3 * j + 1] = Third(spec.rounds[j], m)
      /\ s[3 * len - 1] = <<"sub">>
      /\ s[3 * len] = <<"key", spec.rounds[len].key>>
  BY DEF ComputesAs, Complete
<1>3. ASSUME NEW j \in 1..(len - 1)
      PROVE  /\ m = "encrypt" => /\ s[3 * j] = <<"mix", spec.rounds[j].mix>>
                                 /\ s[3 * j + 1] = <<"key", j>>
             /\ m # "encrypt" => /\ s[3 * j] = <<"key", len - j>>
                                 /\ s[3 * j + 1] = <<"mix", spec.rounds[j].mix>>
  <2>1. j \in 1..len
    OBVIOUS
  <2>2. PICK r : r = spec.rounds[j]
    OBVIOUS
  <2>3. r.key = IF m = "encrypt" THEN j ELSE len - j
    BY <1>1, <2>1, <2>2
  <2>4. s[3 * j] = Second(r, m) /\ s[3 * j + 1] = Third(r, m)
    BY <1>2, <2>2
  <2>5. CASE m = "encrypt"
    <3>1. Second(r, m) = <<"mix", r.mix>> /\ Third(r, m) = <<"key", j>>
      BY <2>3, <2>5 DEF Second, Third
    <3>. QED  BY <2>2, <2>4, <2>5, <3>1
  <2>6. CASE m # "encrypt"
    <3>1. Second(r, m) = <<"key", len - j>> /\ Third(r, m) = <<"mix", r.mix>>
      BY <2>3, <2>6 DEF Second, Third
    <3>. QED  BY <2>2, <2>4, <2>6, <3>1
  <2>. QED  BY <2>5, <2>6
<1>4. \A j \in 1..len : s[3 * j - 1] = <<"sub">>
  <2>. TAKE j \in 1..len
  <2>1. j = len \/ j \in 1..(len - 1)
    OBVIOUS
  <2>. QED  BY <1>2, <2>1
<1>5. /\ s[1] = <<"key", IF m = "encrypt" THEN 0 ELSE len>>
      /\ s[3 * len] = <<"key", IF m = "encrypt" THEN len ELSE 0>>
  <2>1. len \in 1..len
    BY DEF ComputesAs
  <2>. QED  BY <1>1, <1>2, <2>1
<1>. QED  BY <1>2, <1>3, <1>4, <1>5 DEF PlacesOf

-----------------------------------------------------------------------------
(***************************************************************************)
(* The round keys that a chained spec reads.                               *)
(***************************************************************************)

\* Where the output of a spec of len rounds reads key k.
KeyPlace(k, len, m) ==
    IF m = "encrypt" THEN IF k < len THEN 3 * k + 1 ELSE 3 * len
    ELSE IF k < len THEN 3 * (len - k) ELSE 1

\* It reads each key at its place, and none elsewhere.
ReadsAtPlaces(s, m, len) ==
    /\ \A k \in 0..len : /\ KeyPlace(k, len, m) \in 1..(3 * len)
                         /\ s[KeyPlace(k, len, m)] = <<"key", k>>
    /\ \A p \in 1..(3 * len) :
          s[p][1] = "key" => \E k \in 0..len : p = KeyPlace(k, len, m)

\* So it does.
LEMMA KeysAtTheirPlaces ==
    ASSUME NEW m \in Modes, NEW spec, NEW len \in Nat, len > 0, NEW s,
           ComputesAs(spec, m, len, s)
    PROVE  ReadsAtPlaces(s, m, len)
<1>1. PlacesOf(s, spec, m, len)
  BY OutputPlaces
<1>2. \A j \in 1..len : s[3 * j - 1] = <<"sub">>
  BY <1>1 DEF PlacesOf
<1>3. \A j \in 1..(len - 1) :
         /\ m = "encrypt" => /\ s[3 * j] = <<"mix", spec.rounds[j].mix>>
                             /\ s[3 * j + 1] = <<"key", j>>
         /\ m # "encrypt" => /\ s[3 * j] = <<"key", len - j>>
                             /\ s[3 * j + 1] = <<"mix", spec.rounds[j].mix>>
  BY <1>1 DEF PlacesOf
<1>4. /\ s[1] = <<"key", IF m = "encrypt" THEN 0 ELSE len>>
      /\ s[3 * len] = <<"key", IF m = "encrypt" THEN len ELSE 0>>
  BY <1>1 DEF PlacesOf
<1>5. ASSUME NEW k \in 0..len
      PROVE  /\ KeyPlace(k, len, m) \in 1..(3 * len)
             /\ s[KeyPlace(k, len, m)] = <<"key", k>>
  <2>1. KeyPlace(k, len, m) \in 1..(3 * len)
    BY DEF KeyPlace
  <2>2. CASE m = "encrypt"
    <3>1. CASE k = 0
      <4>1. KeyPlace(k, len, m) = 1
        BY <2>2, <3>1 DEF KeyPlace
      <4>. QED  BY <1>4, <2>2, <3>1, <4>1
    <3>2. CASE k = len
      <4>1. KeyPlace(k, len, m) = 3 * len
        BY <2>2, <3>2 DEF KeyPlace
      <4>. QED  BY <1>4, <2>2, <3>2, <4>1
    <3>3. CASE k # 0 /\ k # len
      <4>1. KeyPlace(k, len, m) = 3 * k + 1 /\ k \in 1..(len - 1)
        BY <2>2, <3>3 DEF KeyPlace
      <4>. QED  BY <1>3, <2>2, <4>1
    <3>. QED  BY <2>1, <3>1, <3>2, <3>3
  <2>3. CASE m # "encrypt"
    <3>1. CASE k = len
      <4>1. KeyPlace(k, len, m) = 1
        BY <2>3, <3>1 DEF KeyPlace
      <4>. QED  BY <1>4, <2>3, <3>1, <4>1
    <3>2. CASE k = 0
      <4>1. KeyPlace(k, len, m) = 3 * len
        BY <2>3, <3>2 DEF KeyPlace
      <4>. QED  BY <1>4, <2>3, <3>2, <4>1
    <3>3. CASE k # 0 /\ k # len
      <4>1. PICK j \in 1..(len - 1) : j = len - k
        <5>1. len - k \in 1..(len - 1)
          BY <3>3
        <5>. QED  BY <5>1
      <4>2. KeyPlace(k, len, m) = 3 * j /\ len - j = k
        BY <2>3, <3>3, <4>1 DEF KeyPlace
      <4>3. s[3 * j] = <<"key", len - j>>
        BY <1>3, <2>3
      <4>. QED  BY <2>1, <4>2, <4>3
    <3>. QED  BY <2>1, <3>1, <3>2, <3>3
  <2>. QED  BY <2>1, <2>2, <2>3
<1>6. ASSUME NEW p \in 1..(3 * len), s[p][1] = "key"
      PROVE  \E k \in 0..len : p = KeyPlace(k, len, m)
  <2>1. CASE p = 1
    <3>1. p = KeyPlace(IF m = "encrypt" THEN 0 ELSE len, len, m)
      BY <2>1 DEF KeyPlace
    <3>. QED  BY <3>1
  <2>2. CASE p = 3 * len
    <3>1. p = KeyPlace(IF m = "encrypt" THEN len ELSE 0, len, m)
      BY <2>2 DEF KeyPlace
    <3>. QED  BY <3>1
  <2>3. CASE p # 1 /\ p # 3 * len
    <3>1. p # 3 * len - 1
      BY <1>2, <1>6
    <3>2. PICK j \in 1..(len - 1) : p = 3 * j - 1 \/ p = 3 * j \/ p = 3 * j + 1
      <4>1. PICK j : j = (p + 1) \div 3
        OBVIOUS
      <4>2. j \in Int /\ 3 * j <= p + 1 /\ p + 1 < 3 * j + 3
        BY <4>1
      <4>. QED  BY <2>3, <3>1, <4>2
    <3>3. CASE m = "encrypt"
      <4>1. s[3 * j - 1][1] # "key" /\ s[3 * j][1] # "key"
        <5>1. s[3 * j - 1] = <<"sub">> /\ s[3 * j] = <<"mix", spec.rounds[j].mix>>
          <6>1. j \in 1..len
            OBVIOUS
          <6>2. s[3 * j - 1] = <<"sub">>
            BY <1>2, <6>1
          <6>3. s[3 * j] = <<"mix", spec.rounds[j].mix>>
            BY <1>3, <3>3
          <6>. QED  BY <6>2, <6>3
        <5>2. PICK mix : mix = spec.rounds[j].mix
          OBVIOUS
        <5>. QED  BY <5>1, <5>2
      <4>2. p = 3 * j + 1
        BY <1>6, <3>2, <4>1
      <4>3. p = KeyPlace(j, len, m) /\ j \in 0..len
        BY <3>3, <4>2 DEF KeyPlace
      <4>. QED  BY <4>3
    <3>4. CASE m # "encrypt"
      <4>1. s[3 * j - 1][1] # "key" /\ s[3 * j + 1][1] # "key"
        <5>1. s[3 * j - 1] = <<"sub">> /\ s[3 * j + 1] = <<"mix", spec.rounds[j].mix>>
          <6>1. j \in 1..len
            OBVIOUS
          <6>2. s[3 * j - 1] = <<"sub">>
            BY <1>2, <6>1
          <6>3. s[3 * j + 1] = <<"mix", spec.rounds[j].mix>>
            BY <1>3, <3>4
          <6>. QED  BY <6>2, <6>3
        <5>2. PICK mix : mix = spec.rounds[j].mix
          OBVIOUS
        <5>. QED  BY <5>1, <5>2
      <4>2. p = 3 * j
        BY <1>6, <3>2, <4>1
      <4>3. len - j \in 0..len /\ len - (len - j) = j /\ len - j < len
        OBVIOUS
      <4>4. p = KeyPlace(len - j, len, m)
        BY <3>4, <4>2, <4>3 DEF KeyPlace
      <4>. QED  BY <4>3, <4>4
    <3>. QED  BY <3>3, <3>4
  <2>. QED  BY <2>1, <2>2, <2>3
<1>. QED  BY <1>5, <1>6 DEF ReadsAtPlaces

\* So the keys of a chained spec come in the order of its schedule.
LEMMA KeysOfChain ==
    ASSUME NEW m \in Modes, NEW spec, NEW len \in Nat, len > 0, NEW s,
           ComputesAs(spec, m, len, s)
    PROVE  LET reads == {p \in DOMAIN s : s[p][1] = "key"}
           IN  /\ {s[p][2] : p \in reads} = 0..spec.schedule
               /\ \A p, q \in reads :
                     p < q => IF m = "encrypt" THEN s[p][2] < s[q][2] ELSE s[q][2] < s[p][2]
<1>. DEFINE at(k) == KeyPlace(k, len, m)
            reads == {p \in DOMAIN s : s[p][1] = "key"}
<1>0. ReadsAtPlaces(s, m, len)
  BY KeysAtTheirPlaces
<1>1. DOMAIN s = 1..(3 * len)
  BY DEF ComputesAs, Complete
<1>2. spec.schedule = len
  BY DEF ComputesAs, Chained
<1>3. \A k \in 0..len : at(k) \in 1..(3 * len) /\ s[at(k)] = <<"key", k>>
  BY <1>0 DEF ReadsAtPlaces
<1>4. \A p \in 1..(3 * len) : s[p][1] = "key" => \E k \in 0..len : p = at(k)
  BY <1>0 DEF ReadsAtPlaces
<1>5. \A k, l \in 0..len : k < l => IF m = "encrypt" THEN at(k) < at(l) ELSE at(l) < at(k)
  BY DEF KeyPlace
<1>. HIDE DEF at
<1>6. \A k \in 0..len : at(k) \in reads /\ s[at(k)][2] = k
  BY <1>1, <1>3
<1>7. \A p \in reads : \E k \in 0..len : p = at(k) /\ s[p][2] = k
  BY <1>1, <1>4, <1>6
<1>. HIDE DEF reads
<1>8. {s[p][2] : p \in reads} = 0..len
  BY <1>6, <1>7
<1>9. ASSUME NEW p \in reads, NEW q \in reads, p < q
      PROVE  IF m = "encrypt" THEN s[p][2] < s[q][2] ELSE s[q][2] < s[p][2]
  <2>1. PICK k \in 0..len : p = at(k) /\ s[p][2] = k
    BY <1>7
  <2>2. PICK l \in 0..len : q = at(l) /\ s[q][2] = l
    BY <1>7
  <2>3. at(k) \in Int /\ at(l) \in Int
    BY <1>3
  <2>4. k # l /\ (m = "encrypt" => ~(l < k)) /\ (m # "encrypt" => ~(k < l))
    BY <1>5, <1>9, <2>1, <2>2, <2>3
  <2>5. IF m = "encrypt" THEN k < l ELSE l < k
    BY <2>4
  <2>. QED  BY <2>1, <2>2, <2>5
<1>. QED  BY <1>2, <1>8, <1>9 DEF reads

\* The invariant behind the outputs.
LEMMA OutputsComplete ==
    ASSUME ChainInv, MixInv, NEW m \in Modes
    PROVE  /\ specs[m] \in AnySpec /\ Chained(specs[m], m)
           /\ Len(specs[m].rounds) \in Nat /\ Len(specs[m].rounds) > 0
           /\ Complete(Output(specs[m], m), specs[m], m)
<1>1. specs[m] \in AnySpec /\ Chained(specs[m], m) /\ Mixed(specs[m])
  BY DEF ChainInv, RoundsChained, MixInv
<1>2. Len(specs["encrypt"].rounds) \in Nat /\ Len(specs["decrypt"].rounds) \in Nat
  BY DEF ChainInv, Modes, AnySpec
<1>3. Len(specs[m].rounds) \in Nat /\ Len(specs[m].rounds) > 0
  BY <1>2, RoundsAssumption DEF ChainInv, Modes
<1>4. PICK spec : spec = specs[m]
  OBVIOUS
<1>5. Complete(Output(spec, m), spec, m)
  BY <1>1, <1>3, <1>4, OutputIsComplete
<1>. QED  BY <1>1, <1>3, <1>4, <1>5

\* In such a state the keys are in order.
LEMMA KeysFollow ==
    ASSUME ChainInv, MixInv
    PROVE  KeysInOrder
<1>1. ASSUME NEW m \in Modes
      PROVE  LET s == Output(specs[m], m)
                 reads == {p \in DOMAIN s : s[p][1] = "key"}
             IN  /\ {s[p][2] : p \in reads} = 0..specs[m].schedule
                 /\ \A p, q \in reads :
                       p < q => IF m = "encrypt" THEN s[p][2] < s[q][2] ELSE s[q][2] < s[p][2]
  <2>1. PICK spec, s, len : spec = specs[m] /\ s = Output(specs[m], m) /\ len = Len(specs[m].rounds)
    OBVIOUS
  <2>2. len \in Nat /\ len > 0 /\ ComputesAs(spec, m, len, s)
    BY <2>1, OutputsComplete DEF ComputesAs
  <2>3. LET reads == {p \in DOMAIN s : s[p][1] = "key"}
        IN  /\ {s[p][2] : p \in reads} = 0..spec.schedule
            /\ \A p, q \in reads :
                  p < q => IF m = "encrypt" THEN s[p][2] < s[q][2] ELSE s[q][2] < s[p][2]
    BY <2>2, KeysOfChain
  <2>. QED  BY <2>1, <2>3
<1>. QED  BY <1>1 DEF KeysInOrder

-----------------------------------------------------------------------------
(***************************************************************************)
(* When decryption undoes encryption.                                      *)
(***************************************************************************)

\* A place counted from the other end of three for each of n rounds.
LEMMA MirrorPlaces ==
    ASSUME NEW n \in Nat, NEW p \in 1..(3 * n), p # 1, p # 3 * n
    PROVE  \E j, i \in 1..n :
              \/ p = 3 * j - 1 /\ 3 * n - p + 1 = 3 * i - 1
              \/ /\ j < n /\ i < n /\ i = n - j /\ j = n - i
                 /\ \/ p = 3 * j /\ 3 * n - p + 1 = 3 * i + 1
                    \/ p = 3 * j + 1 /\ 3 * n - p + 1 = 3 * i
<1>1. PICK j : j = (p + 1) \div 3
  OBVIOUS
<1>2. j \in Int /\ 3 * j <= p + 1 /\ p + 1 < 3 * j + 3 /\ p \in Int
  BY <1>1
<1>3. j \in 1..n /\ (p = 3 * j - 1 \/ p = 3 * j \/ p = 3 * j + 1)
  BY <1>2
<1>4. CASE p = 3 * j - 1
  <2>1. n - j + 1 \in 1..n /\ 3 * n - p + 1 = 3 * (n - j + 1) - 1
    BY <1>2, <1>3, <1>4
  <2>. QED  BY <1>3, <1>4, <2>1
<1>5. CASE p # 3 * j - 1
  <2>1. j < n /\ n - j \in 1..n /\ n - j < n /\ j = n - (n - j)
    BY <1>2, <1>3, <1>5
  <2>2. CASE p = 3 * j
    <3>1. 3 * n - p + 1 = 3 * (n - j) + 1
      BY <1>2, <2>2
    <3>. QED  BY <1>3, <2>1, <2>2, <3>1
  <2>3. CASE p = 3 * j + 1
    <3>1. 3 * n - p + 1 = 3 * (n - j)
      BY <1>2, <2>3
    <3>. QED  BY <1>3, <2>1, <2>3, <3>1
  <2>. QED  BY <1>3, <1>5, <2>2, <2>3
<1>. QED  BY <1>4, <1>5

\* Mirrored rounds have the same matrix.
MatricesMirrored(e, d, len) == \A j \in 1..(len - 1) : e.rounds[j].mix = d.rounds[len - j].mix

\* The two outputs are each other's reverse when the specs have as many
\* rounds and the same matrices, in the opposite order.
LEMMA UndoneByMatrices ==
    ASSUME NEW e, NEW d, NEW le \in Nat, NEW ld \in Nat, NEW s, NEW t,
           ComputesAs(e, "encrypt", le, s), ComputesAs(d, "decrypt", ld, t)
    PROVE  t = Reverse(s) <=> le = ld /\ MatricesMirrored(e, d, le)
<1>1. /\ s \in Seq(Operation) /\ Len(s) = 3 * le
      /\ \A j \in 1..le : s[3 * j - 1] = <<"sub">>
      /\ \A j \in 1..(le - 1) : /\ s[3 * j] = <<"mix", e.rounds[j].mix>>
                                /\ s[3 * j + 1] = <<"key", j>>
      /\ s[1] = <<"key", 0>> /\ s[3 * le] = <<"key", le>>
  <2>1. PlacesOf(s, e, "encrypt", le)
    BY OutputPlaces DEF Modes
  <2>. QED  BY <2>1 DEF PlacesOf
<1>2. /\ t \in Seq(Operation) /\ Len(t) = 3 * ld
      /\ \A j \in 1..ld : t[3 * j - 1] = <<"sub">>
      /\ \A j \in 1..(ld - 1) : /\ t[3 * j] = <<"key", ld - j>>
                                /\ t[3 * j + 1] = <<"mix", d.rounds[j].mix>>
      /\ t[1] = <<"key", ld>> /\ t[3 * ld] = <<"key", 0>>
  <2>1. PlacesOf(t, d, "decrypt", ld)
    BY OutputPlaces DEF Modes
  <2>. QED  BY <2>1 DEF PlacesOf
<1>3. /\ Reverse(s) \in Seq(Operation) /\ Len(Reverse(s)) = 3 * le
      /\ \A p \in 1..(3 * le) : Reverse(s)[p] = s[3 * le - p + 1]
  <2>1. Reverse(s) = [p \in 1..(3 * le) |-> s[3 * le - p + 1]]
    BY <1>1 DEF Reverse
  <2>2. PICK n \in Nat : n = 3 * le
    OBVIOUS
  <2>3. \A p \in 1..n : s[n - p + 1] \in Operation
    <3>. TAKE p \in 1..n
    <3>1. n - p + 1 \in 1..Len(s)
      BY <1>1, <2>2
    <3>. QED  BY <1>1, <3>1, ElementOfSeq
  <2>4. PICK r : r = Reverse(s)
    OBVIOUS
  <2>5. r = [p \in 1..n |-> s[n - p + 1]]
    BY <2>1, <2>2, <2>4
  <2>6. r \in Seq(Operation) /\ Len(r) = n /\ \A p \in 1..n : r[p] = s[n - p + 1]
    BY <2>3, <2>5
  <2>. QED  BY <2>2, <2>4, <2>6
<1>4. ASSUME t = Reverse(s)
      PROVE  le = ld /\ MatricesMirrored(e, d, le)
  <2>1. le = ld
    BY <1>2, <1>3, <1>4
  <2>2. ASSUME NEW j \in 1..(le - 1) PROVE e.rounds[j].mix = d.rounds[le - j].mix
    <3>1. PICK i \in 1..(le - 1) : i = le - j
      <4>1. le - j \in 1..(le - 1)
        OBVIOUS
      <4>. QED  BY <4>1
    <3>2. PICK p \in 1..(3 * le) : p = 3 * i + 1
      <4>1. 3 * i + 1 \in 1..(3 * le)
        OBVIOUS
      <4>. QED  BY <4>1
    <3>3. 3 * le - p + 1 = 3 * j
      BY <3>1, <3>2
    <3>4. t[p] = s[3 * j]
      BY <1>3, <1>4, <3>3
    <3>5. PICK a, b : a = e.rounds[j].mix /\ b = d.rounds[i].mix
      OBVIOUS
    <3>6. <<"mix", b>> = <<"mix", a>>
      BY <1>1, <1>2, <2>1, <3>2, <3>4, <3>5
    <3>7. a = b
      BY <3>6
    <3>. QED  BY <3>1, <3>5, <3>7
  <2>. QED  BY <2>1, <2>2 DEF MatricesMirrored
<1>5. ASSUME le = ld, MatricesMirrored(e, d, le)
      PROVE  t = Reverse(s)
  <2>1. ASSUME NEW p \in 1..(3 * le) PROVE t[p] = s[3 * le - p + 1]
    <3>1. CASE p = 1
      <4>1. 3 * le - p + 1 = 3 * le
        BY <3>1
      <4>. QED  BY <1>1, <1>2, <1>5, <3>1, <4>1
    <3>2. CASE p = 3 * le
      <4>1. 3 * le - p + 1 = 1
        BY <3>2
      <4>. QED  BY <1>1, <1>2, <1>5, <3>2, <4>1
    <3>3. CASE p # 1 /\ p # 3 * le
      <4>1. PICK j, i \in 1..le :
               \/ p = 3 * j - 1 /\ 3 * le - p + 1 = 3 * i - 1
               \/ /\ j < le /\ i < le /\ i = le - j /\ j = le - i
                  /\ \/ p = 3 * j /\ 3 * le - p + 1 = 3 * i + 1
                     \/ p = 3 * j + 1 /\ 3 * le - p + 1 = 3 * i
        BY <3>3, MirrorPlaces
      <4>2. CASE p = 3 * j - 1 /\ 3 * le - p + 1 = 3 * i - 1
        BY <1>1, <1>2, <1>5, <4>2
      <4>3. CASE j < le /\ i < le /\ i = le - j /\ p = 3 * j /\ 3 * le - p + 1 = 3 * i + 1
        <5>1. i \in 1..(le - 1) /\ j \in 1..(le - 1)
          BY <4>3
        <5>2. t[3 * j] = <<"key", i>>
          BY <1>2, <1>5, <4>3, <5>1
        <5>3. s[3 * i + 1] = <<"key", i>>
          BY <1>1, <5>1
        <5>. QED  BY <4>3, <5>2, <5>3
      <4>4. CASE j < le /\ i < le /\ j = le - i /\ p = 3 * j + 1 /\ 3 * le - p + 1 = 3 * i
        <5>1. i \in 1..(le - 1) /\ j \in 1..(le - 1)
          BY <4>4
        <5>2. e.rounds[i].mix = d.rounds[j].mix
          BY <1>5, <4>4, <5>1 DEF MatricesMirrored
        <5>3. t[3 * j + 1] = <<"mix", d.rounds[j].mix>>
          BY <1>2, <1>5, <5>1
        <5>4. s[3 * i] = <<"mix", e.rounds[i].mix>>
          BY <1>1, <5>1
        <5>. QED  BY <4>4, <5>2, <5>3, <5>4
      <4>. QED  BY <4>1, <4>2, <4>3, <4>4
    <3>. QED  BY <3>1, <3>2, <3>3
  <2>2. PICK r, n : r = Reverse(s) /\ n = 3 * le
    OBVIOUS
  <2>3. /\ r \in Seq(Operation) /\ t \in Seq(Operation) /\ Len(r) = n /\ Len(t) = n
        /\ \A p \in 1..n : t[p] = r[p]
    BY <1>2, <1>3, <1>5, <2>1, <2>2
  <2>4. t = r
    BY <2>3, SeqEqual
  <2>. QED  BY <2>2, <2>4
<1>. QED  BY <1>4, <1>5

\* A duplication puts the same matrix at mirrored places.
LEMMA DuplicationMirrors ==
    ASSUME Exit = "outputFrom", ChainInv, MixInv, ChainInv', MixInv',
           NEW n \in RoundIds, Duplicate(n), Undone
    PROVE  Undone'
<1>. DEFINE e == specs["encrypt"]
            d == specs["decrypt"]
            ee == specs'["encrypt"]
            dd == specs'["decrypt"]
<1>0. "encrypt" \in Modes /\ "decrypt" \in Modes
  BY DEF Modes
<1>1. PICK len \in Nat : len = Len(e.rounds) /\ len > 0
  BY <1>0, OutputsComplete
<1>2. /\ e \in AnySpec /\ Chained(e, "encrypt") /\ Complete(Output(e, "encrypt"), e, "encrypt")
      /\ d \in AnySpec /\ Chained(d, "decrypt") /\ Complete(Output(d, "decrypt"), d, "decrypt")
      /\ Len(d.rounds) \in Nat /\ Len(d.rounds) > 0
  BY <1>0, OutputsComplete
<1>3. Len(d.rounds) = len /\ MatricesMirrored(e, d, len)
  <2>1. PICK ae, ad, ld, s, t : ae = e /\ ad = d /\ ld = Len(d.rounds)
                                /\ s = Output(e, "encrypt") /\ t = Output(d, "decrypt")
    OBVIOUS
  <2>2. ld \in Nat /\ ComputesAs(ae, "encrypt", len, s) /\ ComputesAs(ad, "decrypt", ld, t)
    BY <1>1, <1>2, <2>1 DEF ComputesAs
  <2>3. t = Reverse(s)
    BY <2>1 DEF Undone
  <2>4. len = ld /\ MatricesMirrored(ae, ad, len)
    BY <2>2, <2>3, UndoneByMatrices
  <2>. QED  BY <2>1, <2>4
<1>4. /\ n \in Nat /\ Grown("encrypt", n)
      /\ IF Hit("decrypt", n) THEN Grown("decrypt", n) ELSE specs'["decrypt"] = specs["decrypt"]
  BY <1>0, DuplicateGrows
<1>5. n > 0 /\ n < len
  <2>1. n \in Ids(e.rounds) /\ n < len
    BY <1>1, <1>4 DEF Grown
  <2>2. PICK spec : spec = e
    OBVIOUS
  <2>3. n \in Ids(spec.rounds) <=> 1 <= n /\ n <= Len(spec.rounds)
    BY <1>0, <1>2, <1>4, <2>2, ChainedIds
  <2>. QED  BY <1>4, <2>1, <2>2, <2>3
<1>6. Grown("decrypt", n)
  <2>1. PICK spec : spec = d
    OBVIOUS
  <2>2. n \in Ids(spec.rounds) <=> 0 <= n /\ n < Len(spec.rounds)
    BY <1>0, <1>2, <1>4, <2>1, ChainedIds
  <2>3. n \in Ids(d.rounds)
    BY <1>3, <1>4, <1>5, <2>1, <2>2
  <2>. QED  BY <1>4, <2>3 DEF Hit
<1>7. Place(e.rounds, n) = n
  <2>1. PICK spec : spec = e
    OBVIOUS
  <2>2. n \in Ids(spec.rounds) /\ n < Len(spec.rounds)
    BY <1>4, <2>1 DEF Grown
  <2>3. Place(spec.rounds, n) = Number(Len(spec.rounds), n, "encrypt")
    BY <1>0, <1>2, <1>4, <1>5, <2>1, <2>2, SourceIsFull
  <2>. QED  BY <2>1, <2>3 DEF Number
<1>8. Place(d.rounds, n) = len - n
  <2>1. PICK spec : spec = d
    OBVIOUS
  <2>2. n \in Ids(spec.rounds)
    BY <1>6, <2>1 DEF Grown
  <2>3. Place(spec.rounds, n) = Number(Len(spec.rounds), n, "decrypt")
    BY <1>0, <1>2, <1>4, <1>5, <2>1, <2>2, SourceIsFull
  <2>. QED  BY <1>3, <2>1, <2>3 DEF Number
<1>9. /\ ee \in AnySpec /\ Chained(ee, "encrypt") /\ Len(ee.rounds) = len + 1
      /\ \A i \in 1..(len + 1) : ee.rounds[i].mix = e.rounds[IF i <= n THEN i ELSE i - 1].mix
  BY <1>1, <1>4, <1>7 DEF Grown
<1>10. /\ dd \in AnySpec /\ Chained(dd, "decrypt") /\ Len(dd.rounds) = len + 1
       /\ \A i \in 1..(len + 1) : dd.rounds[i].mix = d.rounds[IF i <= len - n THEN i ELSE i - 1].mix
  BY <1>3, <1>6, <1>8 DEF Grown
<1>. HIDE DEF e, d, ee, dd
<1>11. ASSUME NEW j \in 1..((len + 1) - 1)
       PROVE  ee.rounds[j].mix = dd.rounds[(len + 1) - j].mix
  <2>1. PICK i \in 1..(len + 1) : i = (len + 1) - j
    <3>1. (len + 1) - j \in 1..(len + 1)
      OBVIOUS
    <3>. QED  BY <3>1
  <2>2. j \in 1..(len + 1)
    OBVIOUS
  <2>3. CASE j <= n
    <3>1. j \in 1..(len - 1) /\ ~(i <= len - n) /\ i - 1 = len - j
      BY <1>4, <1>5, <2>1, <2>3
    <3>2. ee.rounds[j].mix = e.rounds[j].mix /\ dd.rounds[i].mix = d.rounds[len - j].mix
      BY <1>9, <1>10, <2>2, <2>3, <3>1
    <3>3. e.rounds[j].mix = d.rounds[len - j].mix
      BY <1>3, <3>1 DEF MatricesMirrored
    <3>. QED  BY <2>1, <3>2, <3>3
  <2>4. CASE ~(j <= n)
    <3>1. j - 1 \in 1..(len - 1) /\ i <= len - n /\ i = len - (j - 1)
      BY <1>4, <1>5, <2>1, <2>4
    <3>2. ee.rounds[j].mix = e.rounds[j - 1].mix /\ dd.rounds[i].mix = d.rounds[i].mix
      BY <1>9, <1>10, <2>2, <2>4, <3>1
    <3>3. e.rounds[j - 1].mix = d.rounds[len - (j - 1)].mix
      BY <1>3, <3>1 DEF MatricesMirrored
    <3>. QED  BY <2>1, <3>1, <3>2, <3>3
  <2>. QED  BY <2>3, <2>4
<1>12. Mixed(ee) /\ Mixed(dd)
  BY <1>0 DEF MixInv, ee, dd
<1>13. PICK ae, ad, l, s, t : ae = ee /\ ad = dd /\ l = len + 1
                              /\ s = Output(ee, "encrypt") /\ t = Output(dd, "decrypt")
  OBVIOUS
<1>14. /\ ae \in AnySpec /\ Chained(ae, "encrypt") /\ ad \in AnySpec /\ Chained(ad, "decrypt")
       /\ l \in Nat /\ l = Len(ae.rounds) /\ l = Len(ad.rounds) /\ l > 0
       /\ Mixed(ae) /\ Mixed(ad)
       /\ MatricesMirrored(ae, ad, l)
  <2>1. MatricesMirrored(ee, dd, len + 1)
    BY <1>11 DEF MatricesMirrored
  <2>. QED  BY <1>9, <1>10, <1>12, <1>13, <2>1
<1>15. ComputesAs(ae, "encrypt", l, s) /\ ComputesAs(ad, "decrypt", l, t)
  <2>1. Complete(Output(ae, "encrypt"), ae, "encrypt")
    BY <1>0, <1>14, OutputIsComplete
  <2>2. Complete(Output(ad, "decrypt"), ad, "decrypt")
    BY <1>0, <1>14, OutputIsComplete
  <2>. QED  BY <1>13, <1>14, <2>1, <2>2 DEF ComputesAs
<1>16. t = Reverse(s)
  BY <1>14, <1>15, UndoneByMatrices
<1>. QED  BY <1>13, <1>16 DEF Undone, ee, dd

-----------------------------------------------------------------------------
(***************************************************************************)
(* The pins.                                                               *)
(***************************************************************************)

\* Entries under different names, the names without the model's bound.
AnyPin == [id : Int, at : Places]
Distinct(entries) ==
    \A i, j \in DOMAIN entries : entries[i].id = entries[j].id => i = j
Layouts == {entries \in Seq(AnyPin) : Distinct(entries)}

PinInv == pins \in [Modes -> Layouts]

\* No pins are a layout.
LEMMA NoPins == <<>> \in Layouts /\ \A x : PinOf(<<>>, x) = {}
BY DEF Layouts, Distinct, PinOf

\* A write to a key changes the pin of that key alone.
LEMMA WithPinWrites ==
    ASSUME NEW e \in Layouts, NEW id \in Int, NEW at \in Places
    PROVE  /\ WithPin(e, id, at) \in Layouts
           /\ \A x : PinOf(WithPin(e, id, at), x) = IF x = id THEN {at} ELSE PinOf(e, x)
<1>1. /\ e \in Seq(AnyPin) /\ Len(e) \in Nat /\ DOMAIN e = 1..Len(e)
      /\ \A i \in 1..Len(e) : e[i] \in AnyPin
      /\ \A i, j \in 1..Len(e) : e[i].id = e[j].id => i = j
  BY DEF Layouts, Distinct
<1>2. PICK len \in Nat : len = Len(e)
  BY <1>1
<1>3. PICK new : new = [id |-> id, at |-> at]
  OBVIOUS
<1>4. new \in AnyPin /\ new.id = id /\ new.at = at
  BY <1>3 DEF AnyPin
<1>5. PICK w : w = WithPin(e, id, at)
  OBVIOUS
<1>6. CASE PinOf(e, id) = {}
  <2>1. ASSUME NEW i \in 1..len PROVE e[i].id # id
    <3>1. e[i].id = id => e[i].at \in PinOf(e, id)
      BY <1>1, <1>2 DEF PinOf
    <3>. QED  BY <1>6, <3>1
  <2>2. w = Append(e, new)
    BY <1>3, <1>5, <1>6 DEF WithPin
  <2>3. /\ w \in Seq(AnyPin) /\ Len(w) = len + 1 /\ DOMAIN w = 1..(len + 1)
        /\ \A i \in 1..len : w[i] = e[i]
        /\ w[len + 1] = new
    BY <1>1, <1>2, <1>4, <2>2, AppendProperties
  <2>4. Distinct(w)
    <3>. SUFFICES ASSUME NEW i \in 1..(len + 1), NEW j \in 1..(len + 1), w[i].id = w[j].id
                  PROVE  i = j
      BY <2>3 DEF Distinct
    <3>1. (i \in 1..len \/ i = len + 1) /\ (j \in 1..len \/ j = len + 1)
      OBVIOUS
    <3>. QED  BY <1>1, <1>2, <1>4, <2>1, <2>3, <3>1
  <2>5. ASSUME NEW x PROVE PinOf(w, x) = IF x = id THEN {at} ELSE PinOf(e, x)
    <3>1. \A i \in 1..(len + 1) : i \in 1..len \/ i = len + 1
      OBVIOUS
    <3>2. len + 1 \in 1..(len + 1) /\ \A i \in 1..len : i \in 1..(len + 1)
      OBVIOUS
    <3>3. PinOf(w, x) = {w[i].at : i \in {j \in 1..(len + 1) : w[j].id = x}}
      BY <2>3 DEF PinOf
    <3>4. PinOf(e, x) = {e[i].at : i \in {j \in 1..len : e[j].id = x}}
      BY <1>1, <1>2 DEF PinOf
    <3>5. CASE x = id
      <4>1. \A j \in 1..(len + 1) : w[j].id = x <=> j = len + 1
        BY <1>4, <2>1, <2>3, <3>1, <3>5
      <4>. QED  BY <1>4, <2>3, <3>2, <3>3, <3>5, <4>1
    <3>6. CASE x # id
      <4>1. \A j \in 1..(len + 1) : w[j].id = x <=> j \in 1..len /\ e[j].id = x
        BY <1>4, <2>3, <3>1, <3>6
      <4>2. {w[i].at : i \in {j \in 1..(len + 1) : w[j].id = x}}
              = {e[i].at : i \in {j \in 1..len : e[j].id = x}}
        BY <2>3, <3>2, <4>1
      <4>. QED  BY <3>3, <3>4, <3>6, <4>2
    <3>. QED  BY <3>5, <3>6
  <2>. QED  BY <1>5, <2>3, <2>4, <2>5 DEF Layouts
<1>7. CASE PinOf(e, id) # {}
  <2>1. PICK k \in 1..len : e[k].id = id
    BY <1>1, <1>2, <1>7 DEF PinOf
  <2>2. \A i \in 1..len : e[i].id = id <=> i = k
    BY <1>1, <1>2, <2>1
  <2>3. ASSUME NEW i \in 1..len
        PROVE  /\ [e[i] EXCEPT !.at = at] \in AnyPin
               /\ [e[i] EXCEPT !.at = at].id = e[i].id /\ [e[i] EXCEPT !.at = at].at = at
    <3>1. PICK r : r = e[i]
      OBVIOUS
    <3>2. r \in AnyPin
      BY <1>1, <1>2, <3>1
    <3>3. /\ [r EXCEPT !.at = at] \in AnyPin
          /\ [r EXCEPT !.at = at].id = r.id /\ [r EXCEPT !.at = at].at = at
      BY <3>2 DEF AnyPin
    <3>. QED  BY <3>1, <3>3
  <2>4. w = [i \in 1..len |-> IF e[i].id = id THEN [e[i] EXCEPT !.at = at] ELSE e[i]]
    BY <1>1, <1>2, <1>5, <1>7 DEF WithPin
  <2>5. \A i \in 1..len : /\ w[i] \in AnyPin /\ w[i].id = e[i].id
                          /\ w[i].at = IF i = k THEN at ELSE e[i].at
    BY <1>1, <1>2, <2>2, <2>3, <2>4
  <2>6. w \in Seq(AnyPin) /\ Len(w) = len /\ DOMAIN w = 1..len
    <3>1. w \in [1..len -> AnyPin]
      BY <2>4, <2>5
    <3>. QED  BY <3>1
  <2>7. Distinct(w)
    BY <1>1, <1>2, <2>5, <2>6 DEF Distinct
  <2>8. ASSUME NEW x PROVE PinOf(w, x) = IF x = id THEN {at} ELSE PinOf(e, x)
    <3>1. PinOf(w, x) = {w[i].at : i \in {j \in 1..len : e[j].id = x}}
      <4>1. {j \in 1..len : w[j].id = x} = {j \in 1..len : e[j].id = x}
        BY <2>5
      <4>. QED  BY <2>6, <4>1 DEF PinOf
    <3>2. PinOf(e, x) = {e[i].at : i \in {j \in 1..len : e[j].id = x}}
      BY <1>1, <1>2 DEF PinOf
    <3>3. CASE x = id
      <4>1. {j \in 1..len : e[j].id = x} = {k}
        BY <2>2, <3>3
      <4>. QED  BY <2>5, <3>1, <3>3, <4>1
    <3>4. CASE x # id
      <4>1. \A i \in {j \in 1..len : e[j].id = x} : w[i].at = e[i].at
        BY <2>2, <2>5, <3>4
      <4>. QED  BY <3>1, <3>2, <3>4, <4>1
    <3>. QED  BY <3>3, <3>4
  <2>. QED  BY <1>5, <2>6, <2>7, <2>8 DEF Layouts
<1>. QED  BY <1>6, <1>7

\* What RemoveAt leaves: the elements before the place, then those after it.
LEMMA RemoveAtIs ==
  ASSUME NEW S, NEW b \in Seq(S), NEW i \in 1..Len(b)
  PROVE  /\ RemoveAt(b, i) \in Seq(S)
         /\ Len(RemoveAt(b, i)) = Len(b) - 1
         /\ \A j \in 1..(Len(b) - 1) : RemoveAt(b, i)[j] = IF j < i THEN b[j] ELSE b[j + 1]
  <1>0. Len(b) \in Nat /\ \A j \in 1..Len(b) : b[j] \in S
    BY LenProperties, ElementOfSeq
  <1>1. PICK f : f = SubSeq(b, 1, i - 1)
    OBVIOUS
  <1>2. PICK c : c = SubSeq(b, i + 1, Len(b))
    OBVIOUS
  <1>3. f \in Seq(S) /\ Len(f) = i - 1 /\ \A j \in 1..(i - 1) : f[j] = b[j]
    BY <1>0, <1>1, SubSeqProperties
  <1>4. c \in Seq(S) /\ Len(c) = Len(b) - i /\ \A j \in 1..(Len(b) - i) : c[j] = b[i + j]
    BY <1>0, <1>2, SubSeqProperties
  <1>a. PICK g : g = f \o c
    OBVIOUS
  <1>5. /\ g \in Seq(S) /\ Len(g) = Len(f) + Len(c)
        /\ \A j \in 1..(Len(f) + Len(c)) : g[j] = IF j <= Len(f) THEN f[j] ELSE c[j - Len(f)]
    BY <1>3, <1>4, <1>a, ConcatProperties
  <1>6. Len(f) + Len(c) = Len(b) - 1
    BY <1>0, <1>3, <1>4
  <1>7. ASSUME NEW j \in 1..(Len(b) - 1)
        PROVE  g[j] = IF j < i THEN b[j] ELSE b[j + 1]
    <2>1. CASE j < i
      BY <1>0, <1>3, <1>5, <1>6, <2>1
    <2>2. CASE i <= j
      <3>1. j - Len(f) \in 1..(Len(b) - i) /\ i + (j - Len(f)) = j + 1
        BY <1>0, <1>3, <2>2
      <3>2. c[j - Len(f)] = b[j + 1]
        BY <1>4, <3>1
      <3>3. j \in 1..(Len(f) + Len(c)) /\ ~(j <= Len(f))
        BY <1>0, <1>3, <1>6, <2>2
      <3>4. g[j] = c[j - Len(f)]
        BY <1>5, <3>3
      <3>5. ~(j < i)
        BY <1>0, <2>2
      <3> QED  BY <3>2, <3>4, <3>5
    <2> QED  BY <1>0, <2>1, <2>2
  <1> QED  BY <1>1, <1>2, <1>a, <1>5, <1>6, <1>7 DEF RemoveAt

\* Removing an entry leaves the others under their names.
LEMMA RemoveAtLayout ==
    ASSUME NEW e \in Layouts, NEW k \in DOMAIN e
    PROVE  RemoveAt(e, k) \in Layouts
<1>1. /\ e \in Seq(AnyPin) /\ Len(e) \in Nat /\ DOMAIN e = 1..Len(e) /\ k \in 1..Len(e)
      /\ \A i, j \in 1..Len(e) : e[i].id = e[j].id => i = j
  BY DEF Layouts, Distinct
<1>2. PICK len \in Nat : len = Len(e)
  BY <1>1
<1>3. PICK r : r = RemoveAt(e, k)
  OBVIOUS
<1>4. /\ r \in Seq(AnyPin) /\ Len(r) = Len(e) - 1
      /\ \A j \in 1..(Len(e) - 1) : r[j] = IF j < k THEN e[j] ELSE e[j + 1]
  BY <1>1, <1>3, RemoveAtIs
<1>5. DOMAIN r = 1..(len - 1)
  BY <1>2, <1>4
<1>6. Distinct(r)
  <2>. SUFFICES ASSUME NEW i \in 1..(len - 1), NEW j \in 1..(len - 1), r[i].id = r[j].id
                PROVE  i = j
    BY <1>5 DEF Distinct
  <2>1. /\ i \in 1..len /\ i + 1 \in 1..len /\ j \in 1..len /\ j + 1 \in 1..len
    BY <1>2
  <2>. QED  BY <1>1, <1>2, <1>4, <2>1
<1>. QED  BY <1>3, <1>4, <1>6 DEF Layouts

\* The layouts that a rename goes through, entry by entry, from none to all.
Written(w, e, rounds, n, m) ==
    /\ w \in [0..Len(e) -> Layouts] /\ w[0] = <<>>
    /\ \A i \in 1..Len(e) :
          w[i] = WithPin(w[i - 1], Renamed(rounds, n, m, e[i].id), e[i].at)

\* A rename is written so.
LEMMA RenameIsWritten ==
    ASSUME NEW e \in Layouts, NEW rounds, NEW n, NEW m
    PROVE  \E w : Written(w, e, rounds, n, m) /\ RenamedPins(e, rounds, n, m) = w[Len(e)]
<1>. DEFINE ren(i) == Renamed(rounds, n, m, e[i].id)
            E(f) == [i \in 0..Len(e) |->
                       IF i = 0 THEN <<>> ELSE WithPin(f[i - 1], ren(i), e[i].at)]
            F == [i \in 1..Len(e) |-> [q \in Layouts |-> WithPin(q, ren(i), e[i].at)]]
<1>1. Len(e) \in Nat /\ \A i \in 1..Len(e) : e[i] \in AnyPin
  BY DEF Layouts
<1>2. \A i \in 1..Len(e) : ren(i) \in Int /\ e[i].at \in Places
  <2>. TAKE i \in 1..Len(e)
  <2>1. e[i].id \in Int /\ e[i].at \in Places
    BY <1>1 DEF AnyPin
  <2>. QED  BY <2>1 DEF Renamed
<1>. HIDE DEF ren
<1>3. \A i \in 1..Len(e), q \in Layouts : WithPin(q, ren(i), e[i].at) \in Layouts
  BY <1>2, WithPinWrites
<1>4. F \in [1..Len(e) -> [Layouts -> Layouts]]
  BY <1>3
<1>5. \A i \in 1..Len(e), q \in Layouts : F[i][q] = WithPin(q, ren(i), e[i].at)
  OBVIOUS
<1>. HIDE DEF F, E
<1>6. PICK k, b, G : k = Len(e) /\ b = <<>> /\ G = F
  OBVIOUS
<1>7. k \in Nat /\ b \in Layouts /\ G \in [1..k -> [Layouts -> Layouts]]
  BY <1>1, <1>4, <1>6, NoPins
<1>8. PICK w : GoesOn(w, k, Layouts, b, G)
  BY <1>7, Recurrence
<1>9. w \in [0..k -> Layouts] /\ w[0] = <<>> /\ \A i \in 1..k : w[i] = G[i][w[i - 1]]
  BY <1>6, <1>8 DEF GoesOn
<1>10. \A i \in 1..k : w[i] = WithPin(w[i - 1], ren(i), e[i].at)
  <2>. TAKE i \in 1..k
  <2>1. i - 1 \in 0..k
    BY <1>7
  <2>2. w[i - 1] \in Layouts
    BY <1>9, <2>1
  <2>3. F[i][w[i - 1]] = WithPin(w[i - 1], ren(i), e[i].at)
    BY <1>5, <1>6, <2>2
  <2>. QED  BY <1>6, <1>9, <2>3
<1>11. Written(w, e, rounds, n, m)
  BY <1>6, <1>9, <1>10 DEF Written, ren
<1>12. w = E(w)
  <2>1. \A i \in 0..k : w[i] = IF i = 0 THEN <<>> ELSE WithPin(w[i - 1], ren(i), e[i].at)
    <3>. TAKE i \in 0..k
    <3>1. i = 0 \/ i \in 1..k
      BY <1>7
    <3>. QED  BY <1>9, <1>10, <3>1
  <2>2. w = [i \in 0..k |-> IF i = 0 THEN <<>> ELSE WithPin(w[i - 1], ren(i), e[i].at)]
    BY <1>9, <2>1
  <2>. QED  BY <1>6, <2>2 DEF E
<1>13. PICK v : v = CHOOSE f : f = E(f)
  OBVIOUS
<1>14. v = E(v)
  BY <1>12, <1>13
<1>15. RenamedPins(e, rounds, n, m) = v[Len(e)]
  BY <1>13 DEF RenamedPins, E, ren
<1>16. v = [i \in 0..k |-> IF i = 0 THEN <<>> ELSE WithPin(v[i - 1], ren(i), e[i].at)]
  BY <1>6, <1>14 DEF E
<1>17. \A i \in 0..k : v[i] = w[i]
  <2>. DEFINE T == {i \in 0..k : v[i] = w[i]}
  <2>1. 0 \in T
    BY <1>7, <1>9, <1>16
  <2>2. ASSUME NEW i \in 0..(k - 1), i \in T PROVE i + 1 \in T
    <3>1. i + 1 \in 1..k /\ i + 1 \in 0..k /\ (i + 1) - 1 = i /\ i + 1 # 0
      BY <1>7
    <3>2. v[i + 1] = WithPin(v[i], ren(i + 1), e[i + 1].at)
      BY <1>16, <3>1
    <3>3. w[i + 1] = WithPin(w[i], ren(i + 1), e[i + 1].at)
      BY <1>10, <3>1
    <3>. QED  BY <2>2, <3>1, <3>2, <3>3
  <2>3. \A i \in 0..(k - 1) : i \in T => i + 1 \in T
    BY <2>2
  <2>. HIDE DEF T
  <2>4. 0..k \subseteq T
    BY <1>7, <2>1, <2>3, Climb
  <2>. QED  BY <2>4 DEF T
<1>18. v[Len(e)] = w[Len(e)]
  <2>1. k \in 0..k
    BY <1>7
  <2>. QED  BY <1>6, <1>17, <2>1
<1>. QED  BY <1>11, <1>15, <1>18

\* It is a layout, in which a name has the pin of the one entry that was
\* renamed to it, or none.
LEMMA RenameMoves ==
    ASSUME NEW e \in Layouts, NEW rounds, NEW n, NEW m
    PROVE  /\ RenamedPins(e, rounds, n, m) \in Layouts
           /\ \A x : (\A i \in 1..Len(e) : Renamed(rounds, n, m, e[i].id) # x)
                        => PinOf(RenamedPins(e, rounds, n, m), x) = {}
           /\ \A x, j : /\ j \in 1..Len(e)
                        /\ \A i \in 1..Len(e) : Renamed(rounds, n, m, e[i].id) = x <=> i = j
                        => PinOf(RenamedPins(e, rounds, n, m), x) = {e[j].at}
<1>. DEFINE ren(i) == Renamed(rounds, n, m, e[i].id)
<1>1. PICK k \in Nat : k = Len(e) /\ \A i \in 1..k : e[i] \in AnyPin
  BY DEF Layouts
<1>2. \A i \in 1..k : ren(i) \in Int /\ e[i].at \in Places
  <2>. TAKE i \in 1..k
  <2>1. e[i].id \in Int /\ e[i].at \in Places
    BY <1>1 DEF AnyPin
  <2>. QED  BY <2>1 DEF Renamed
<1>3. PICK w : Written(w, e, rounds, n, m) /\ RenamedPins(e, rounds, n, m) = w[k]
  BY <1>1, RenameIsWritten
<1>4. /\ \A i \in 0..k : w[i] \in Layouts
      /\ w[0] = <<>> /\ \A i \in 1..k : w[i] = WithPin(w[i - 1], ren(i), e[i].at)
  BY <1>1, <1>3 DEF Written
<1>. HIDE DEF ren
<1>5. ASSUME NEW i \in 0..(k - 1), NEW x
      PROVE  PinOf(w[i + 1], x) = IF x = ren(i + 1) THEN {e[i + 1].at} ELSE PinOf(w[i], x)
  <2>1. i + 1 \in 1..k /\ i \in 0..k /\ (i + 1) - 1 = i
    BY <1>1
  <2>2. PICK q, id, at : q = w[i] /\ id = ren(i + 1) /\ at = e[i + 1].at
    OBVIOUS
  <2>3. q \in Layouts /\ id \in Int /\ at \in Places
    BY <1>2, <1>4, <2>1, <2>2
  <2>4. PinOf(WithPin(q, id, at), x) = IF x = id THEN {at} ELSE PinOf(q, x)
    BY <2>3, WithPinWrites
  <2>5. w[i + 1] = WithPin(q, id, at)
    BY <1>4, <2>1, <2>2
  <2>. QED  BY <2>2, <2>4, <2>5
<1>6. ASSUME NEW x, \A i \in 1..k : ren(i) # x
      PROVE  PinOf(w[k], x) = {}
  <2>. DEFINE T == {i \in 0..k : PinOf(w[i], x) = {}}
  <2>1. 0 \in T
    BY <1>1, <1>4, NoPins
  <2>2. \A i \in 0..(k - 1) : i \in T => i + 1 \in T
    <3>. TAKE i \in 0..(k - 1)
    <3>1. i + 1 \in 1..k /\ i + 1 \in 0..k
      BY <1>1
    <3>. QED  BY <1>5, <1>6, <3>1
  <2>. HIDE DEF T
  <2>3. 0..k \subseteq T
    BY <1>1, <2>1, <2>2, Climb
  <2>4. k \in 0..k
    BY <1>1
  <2>. QED  BY <2>3, <2>4 DEF T
<1>7. ASSUME NEW x, NEW j \in 1..k, \A i \in 1..k : ren(i) = x <=> i = j
      PROVE  PinOf(w[k], x) = {e[j].at}
  <2>. DEFINE T == {i \in 0..k : j <= i => PinOf(w[i], x) = {e[j].at}}
  <2>1. 0 \in T
    BY <1>1
  <2>2. \A i \in 0..(k - 1) : i \in T => i + 1 \in T
    <3>. TAKE i \in 0..(k - 1)
    <3>1. i + 1 \in 1..k /\ i + 1 \in 0..k /\ (j <= i + 1 => j <= i \/ j = i + 1)
      BY <1>1
    <3>2. PinOf(w[i + 1], x) = IF i + 1 = j THEN {e[i + 1].at} ELSE PinOf(w[i], x)
      BY <1>5, <1>7, <3>1
    <3>. QED  BY <3>1, <3>2
  <2>. HIDE DEF T
  <2>3. 0..k \subseteq T
    BY <1>1, <2>1, <2>2, Climb
  <2>4. k \in 0..k /\ j <= k
    BY <1>1
  <2>. QED  BY <2>3, <2>4 DEF T
<1>8. w[k] \in Layouts
  BY <1>1, <1>4
<1>. QED  BY <1>1, <1>3, <1>6, <1>7, <1>8 DEF ren

\* In a chained spec exactly the rounds above the source are renamed.
LEMMA RenamedAbove ==
    ASSUME NEW m \in Modes, NEW spec \in AnySpec, Chained(spec, m),
           NEW n \in Ids(spec.rounds), NEW id \in Int
    PROVE  Renamed(spec.rounds, n, m, id) =
              IF id \in Ids(spec.rounds) /\ id > n THEN id + 1 ELSE id
<1>. DEFINE len == Len(spec.rounds)
            source == Place(spec.rounds, n)
<1>1. /\ len \in Nat /\ source \in 1..len /\ Number(len, source, m) = n /\ n \in Int
  BY ChainedPlaces
<1>2. DOMAIN spec.rounds = 1..len /\ \A i \in 1..len : spec.rounds[i].id = Number(len, i, m)
  BY DEF AnySpec, Chained, Number
<1>3. \A i \in 1..len : i \in Moved(spec.rounds, n, m) <=> spec.rounds[i].id > n
  <2>. TAKE i \in 1..len
  <2>1. i \in Moved(spec.rounds, n, m) <=>
           IF m = "encrypt" THEN i > source ELSE i < source /\ spec.rounds[i].id > n
    BY <1>2 DEF Moved
  <2>. HIDE DEF len, source
  <2>. QED  BY <1>1, <1>2, <2>1 DEF Number
<1>4. Moved(spec.rounds, n, m) \subseteq 1..len
  BY <1>2 DEF Moved
<1>5. id \in Ids(spec.rounds) <=> \E i \in 1..len : spec.rounds[i].id = id
  BY <1>2 DEF Ids
<1>. HIDE DEF len, source
<1>6. (\E i \in Moved(spec.rounds, n, m) : spec.rounds[i].id = id)
         <=> id \in Ids(spec.rounds) /\ id > n
  BY <1>3, <1>4, <1>5
<1>. QED  BY <1>6 DEF Renamed

\* So a pin follows its round, and none comes to the clone.
LEMMA RenameFollows ==
    ASSUME NEW m \in Modes, NEW spec \in AnySpec, Chained(spec, m),
           NEW n \in Ids(spec.rounds), NEW e \in Layouts, NEW after,
           after = RenamedPins(e, spec.rounds, n, m)
    PROVE  /\ \A id \in Ids(spec.rounds) :
                 LET to == IF id > n THEN id + 1 ELSE id
                 IN  to \in Ids(spec.rounds) \/ PinOf(e, to) = {}
                     => PinOf(after, to) = PinOf(e, id)
           /\ n + 1 \in Ids(spec.rounds) => PinOf(after, n + 1) = {}
<1>. DEFINE ids == Ids(spec.rounds)
            ren(i) == Renamed(spec.rounds, n, m, e[i].id)
<1>1. n \in Int /\ ids \subseteq Int
  BY ChainedPlaces
<1>2. PICK k \in Nat : /\ k = Len(e) /\ DOMAIN e = 1..k
                       /\ \A i \in 1..k : e[i].id \in Int
                       /\ \A i, j \in 1..k : e[i].id = e[j].id => i = j
  <2>1. e \in Seq(AnyPin) /\ Distinct(e)
    BY DEF Layouts
  <2>2. Len(e) \in Nat /\ DOMAIN e = 1..Len(e) /\ \A i \in 1..Len(e) : e[i] \in AnyPin
    BY <2>1
  <2>3. \A i \in 1..Len(e) : e[i].id \in Int
    BY <2>2 DEF AnyPin
  <2>. QED  BY <2>1, <2>2, <2>3 DEF Distinct
<1>3. \A i \in 1..k : ren(i) = IF e[i].id \in ids /\ e[i].id > n THEN e[i].id + 1 ELSE e[i].id
  BY <1>2, RenamedAbove
<1>4. /\ \A x : (\A i \in 1..k : ren(i) # x) => PinOf(after, x) = {}
      /\ \A x, j : /\ j \in 1..k
                   /\ \A i \in 1..k : ren(i) = x <=> i = j
                   => PinOf(after, x) = {e[j].at}
  <2>1. PICK rounds : rounds = spec.rounds
    OBVIOUS
  <2>2. /\ \A x : (\A i \in 1..Len(e) : Renamed(rounds, n, m, e[i].id) # x)
                     => PinOf(RenamedPins(e, rounds, n, m), x) = {}
        /\ \A x, j : /\ j \in 1..Len(e)
                     /\ \A i \in 1..Len(e) : Renamed(rounds, n, m, e[i].id) = x <=> i = j
                     => PinOf(RenamedPins(e, rounds, n, m), x) = {e[j].at}
    BY RenameMoves
  <2>. QED  BY <1>2, <2>1, <2>2
<1>5. \A i \in 1..k : e[i].at \in PinOf(e, e[i].id)
  BY <1>2 DEF PinOf
<1>. HIDE DEF ids, ren
<1>6. ASSUME NEW id \in ids, NEW to, to = IF id > n THEN id + 1 ELSE id,
             to \in ids \/ PinOf(e, to) = {}
      PROVE  PinOf(after, to) = PinOf(e, id)
  <2>1. ASSUME NEW i \in 1..k PROVE ren(i) = to <=> e[i].id = id
    <3>1. PICK x : x = e[i].id
      OBVIOUS
    <3>2. x \in Int /\ id \in Int /\ n \in Int
      BY <1>1, <1>2, <3>1
    <3>3. ren(i) = IF x \in ids /\ x > n THEN x + 1 ELSE x
      BY <1>3, <3>1
    <3>4. x = to => to \in ids
      BY <1>5, <1>6, <3>1
    <3>5. CASE id > n
      <4>1. to = id + 1
        BY <1>6, <3>5
      <4>2. CASE x \in ids /\ x > n
        BY <3>1, <3>2, <3>3, <3>5, <4>1, <4>2
      <4>3. CASE ~ (x \in ids /\ x > n)
        <5>1. ren(i) = x
          BY <3>3, <4>3
        <5>2. x # to
          BY <3>2, <3>4, <3>5, <4>1, <4>3
        <5>3. x # id
          BY <1>6, <3>5, <4>3
        <5>. QED  BY <3>1, <5>1, <5>2, <5>3
      <4>. QED  BY <4>2, <4>3
    <3>6. CASE ~ (id > n)
      <4>1. to = id
        BY <1>6, <3>6
      <4>. QED  BY <3>1, <3>2, <3>3, <3>6, <4>1
    <3>. QED  BY <3>5, <3>6
  <2>2. CASE \E j \in 1..k : e[j].id = id
    <3>1. PICK j \in 1..k : e[j].id = id
      BY <2>2
    <3>2. \A i \in 1..k : e[i].id = id <=> i = j
      BY <1>2, <3>1
    <3>3. PinOf(after, to) = {e[j].at}
      BY <1>4, <2>1, <3>2
    <3>4. {i \in 1..k : e[i].id = id} = {j}
      BY <3>2
    <3>5. PinOf(e, id) = {e[j].at}
      BY <1>2, <3>4 DEF PinOf
    <3>. QED  BY <3>3, <3>5
  <2>3. CASE ~ \E j \in 1..k : e[j].id = id
    <3>1. PinOf(after, to) = {}
      BY <1>4, <2>1, <2>3
    <3>2. {i \in 1..k : e[i].id = id} = {}
      BY <2>3
    <3>3. PinOf(e, id) = {}
      BY <1>2, <3>2 DEF PinOf
    <3>. QED  BY <3>1, <3>3
  <2>. QED  BY <2>2, <2>3
<1>7. ASSUME n + 1 \in ids PROVE PinOf(after, n + 1) = {}
  <2>1. ASSUME NEW i \in 1..k PROVE ren(i) # n + 1
    <3>1. PICK x : x = e[i].id
      OBVIOUS
    <3>2. x \in Int /\ n \in Int
      BY <1>1, <1>2, <3>1
    <3>3. ren(i) = IF x \in ids /\ x > n THEN x + 1 ELSE x
      BY <1>3, <3>1
    <3>. QED  BY <1>7, <3>2, <3>3
  <2>. QED  BY <1>4, <2>1
<1>. QED  BY <1>6, <1>7 DEF ids

\* Every step keeps the layouts.
LEMMA PinNext ==
    ASSUME PinInv, mode \in Modes, [Next]_vars
    PROVE  PinInv'
<1>1. \A m \in Modes : pins[m] \in Layouts
  BY DEF PinInv
<1>2. ASSUME NEW n \in RoundIds, Duplicate(n) PROVE PinInv'
  <2>1. PICK source, hit :
           pins' = [m \in Modes |-> IF m \in hit
                                    THEN RenamedPins(pins[m], specs[m].rounds, source[m], m)
                                    ELSE pins[m]]
    BY <1>2 DEF Duplicate
  <2>2. \A m \in Modes : RenamedPins(pins[m], specs[m].rounds, source[m], m) \in Layouts
    BY <1>1, RenameMoves
  <2>. QED  BY <1>1, <2>1, <2>2 DEF PinInv
<1>3. ASSUME NEW id \in RoundIds, NEW at \in Places, SetNodePosition(id, at) PROVE PinInv'
  <2>1. id \in Int
    BY DEF RoundIds
  <2>2. WithPin(pins[mode], id, at) \in Layouts
    BY <1>1, <2>1, WithPinWrites
  <2>3. pins' = [pins EXCEPT ![mode] = WithPin(pins[mode], id, at)]
    BY <1>3 DEF SetNodePosition
  <2>. QED  BY <2>2, <2>3 DEF PinInv
<1>4. ASSUME NEW id \in RoundIds, ClearNodePosition(id) PROVE PinInv'
  <2>1. PICK i \in DOMAIN pins[mode] : pins' = [pins EXCEPT ![mode] = RemoveAt(pins[mode], i)]
    BY <1>4 DEF ClearNodePosition
  <2>2. RemoveAt(pins[mode], i) \in Layouts
    BY <1>1, RemoveAtLayout
  <2>. QED  BY <2>1, <2>2 DEF PinInv
<1>5. CASE ResetLayout
  <2>1. pins' = [pins EXCEPT ![mode] = <<>>]
    BY <1>5 DEF ResetLayout
  <2>. QED  BY <2>1, NoPins DEF PinInv
<1>6. CASE \/ \E i \in 1..MaxRound, matrix \in Matrices : UpdateMatrix(i, matrix)
           \/ SetMode \/ ResetSpec \/ UNCHANGED vars
  <2>1. UNCHANGED pins
    BY <1>6 DEF UpdateMatrix, SetMode, ResetSpec, vars
  <2>. QED  BY <2>1 DEF PinInv
<1>. QED  BY <1>2, <1>3, <1>4, <1>5, <1>6 DEF Next

-----------------------------------------------------------------------------
(***************************************************************************)
(* The invariant of the specification.                                     *)
(***************************************************************************)

IInv == ChainInv /\ MixInv /\ PinInv

\* The invariant holds at first, and every step keeps it.
LEMMA InvariantHolds ==
    ASSUME Exit = "outputFrom", "encrypt" \notin Resets
    PROVE  /\ Init => IInv
           /\ IInv /\ [Next]_vars => IInv'
<1>1. ASSUME Init PROVE IInv
  <2>1. \A m \in Modes : /\ specs[m] = Canonical(m) /\ Canonical(m) \in AnySpec
                         /\ Chained(Canonical(m), m) /\ Len(Canonical(m).rounds) = Rounds
    BY <1>1, CanonicalChained DEF Init
  <2>2. specs \in [Modes -> AnySpec]
    BY <1>1, <2>1 DEF Init
  <2>3. "decrypt" \in Modes /\ "encrypt" \in Modes
    BY DEF Modes
  <2>4. ChainInv
    BY <1>1, <2>1, <2>2, <2>3, RoundsAssumption DEF Init, ChainInv, RoundsChained
  <2>5. MixInv
    BY <2>1, CanonicalMixed DEF MixInv
  <2>6. PinInv
    BY <1>1, NoPins DEF Init, PinInv
  <2>. QED  BY <2>4, <2>5, <2>6 DEF IInv
<1>2. ASSUME IInv, [Next]_vars PROVE IInv'
  <2>1. mode \in Modes
    BY <1>2 DEF IInv, ChainInv
  <2>2. ChainInv'
    BY <1>2, ChainNext DEF IInv
  <2>3. MixInv'
    BY <1>2, MixNext DEF IInv
  <2>4. PinInv'
    BY <1>2, <2>1, PinNext DEF IInv
  <2>. QED  BY <2>2, <2>3, <2>4 DEF IInv
<1>. QED  BY <1>1, <1>2

\* Each duplication moves the pins with the rounds.
LEMMA DuplicationMovesPins ==
    ASSUME IInv, NEW n \in RoundIds, Duplicate(n), NEW m \in Modes, n \in Ids(specs[m].rounds)
    PROVE  /\ \A id \in Ids(specs[m].rounds) :
                 LET to == IF id > n THEN id + 1 ELSE id
                 IN  to \in Ids(specs[m].rounds) \/ PinOf(pins[m], to) = {}
                     => PinOf(pins'[m], to) = PinOf(pins[m], id)
           /\ n + 1 \in Ids(specs[m].rounds) => PinOf(pins'[m], n + 1) = {}
<1>1. pins'[m] = RenamedPins(pins[m], specs[m].rounds, n, m)
  BY DEF Duplicate, MirrorId
<1>2. PICK spec, e, after : spec = specs[m] /\ e = pins[m] /\ after = pins'[m]
  OBVIOUS
<1>3. /\ spec \in AnySpec /\ Chained(spec, m) /\ n \in Ids(spec.rounds) /\ e \in Layouts
      /\ after = RenamedPins(e, spec.rounds, n, m)
  BY <1>1, <1>2 DEF IInv, ChainInv, RoundsChained, PinInv
<1>4. /\ \A id \in Ids(spec.rounds) :
            LET to == IF id > n THEN id + 1 ELSE id
            IN  to \in Ids(spec.rounds) \/ PinOf(e, to) = {}
                => PinOf(after, to) = PinOf(e, id)
      /\ n + 1 \in Ids(spec.rounds) => PinOf(after, n + 1) = {}
  BY <1>3, RenameFollows
<1>. QED  BY <1>2, <1>4

-----------------------------------------------------------------------------
(***************************************************************************)
(* The theorems.                                                           *)
(***************************************************************************)

\* Whatever is duplicated in a spec whose exit is its own outputFrom, and
\* however often, the rounds of both specs stay numbered, keyed, fed and read
\* as a chain, provided that the encryption spec is never reset alone
\* (duplicateRoundInSpec, resetSpec).
THEOREM ChainsKept ==
    ASSUME Exit = "outputFrom", "encrypt" \notin Resets
    PROVE  Spec => []RoundsChained
<1>1. Init => IInv
  BY InvariantHolds
<1>2. IInv /\ [Next]_vars => IInv'
  BY InvariantHolds
<1>3. IInv => RoundsChained
  BY DEF IInv, ChainInv
<1>. QED  BY <1>1, <1>2, <1>3, PTL DEF Spec

\* What the rounds of a chained spec compute reads every round key that the
\* schedule provides, once and in order, whatever was duplicated
\* (duplicateRoundInSpec).
THEOREM KeysReadInOrder ==
    ASSUME Exit = "outputFrom", "encrypt" \notin Resets
    PROVE  Spec => []KeysInOrder
<1>1. Init => IInv
  BY InvariantHolds
<1>2. IInv /\ [Next]_vars => IInv'
  BY InvariantHolds
<1>3. IInv => KeysInOrder
  BY KeysFollow DEF IInv
<1>. QED  BY <1>1, <1>2, <1>3, PTL DEF Spec

\* Duplicating a round, of the cipher or of its inverse, keeps decryption the
\* inverse of encryption wherever it was (duplicateRoundInSpec's mirror).
THEOREM MirrorKeepsInverse ==
    ASSUME Exit = "outputFrom", "encrypt" \notin Resets
    PROVE  Spec => DuplicationKeepsInverse
<1>1. Init => IInv
  BY InvariantHolds
<1>2. IInv /\ [Next]_vars => IInv'
  BY InvariantHolds
<1>3. IInv /\ IInv' /\ [Next]_vars
         => [(\E n \in RoundIds : Duplicate(n)) => (Undone => Undone')]_vars
  BY DuplicationMirrors DEF IInv
<1>. QED  BY <1>1, <1>2, <1>3, PTL DEF Spec, DuplicationKeepsInverse

\* A pinned node keeps its pin when its round is renumbered, and the clone
\* gets none (renameLayoutIds).
THEOREM PinsFollow ==
    ASSUME Exit = "outputFrom", "encrypt" \notin Resets
    PROVE  Spec => PinsFollowRounds
<1>1. Init => IInv
  BY InvariantHolds
<1>2. IInv /\ [Next]_vars => IInv'
  BY InvariantHolds
<1>3. IInv /\ [Next]_vars
         => [\A n \in RoundIds : Duplicate(n) =>
                \A m \in Modes : n \in Ids(specs[m].rounds) =>
                    /\ \A id \in Ids(specs[m].rounds) :
                          LET to == IF id > n THEN id + 1 ELSE id
                          IN  to \in Ids(specs[m].rounds) \/ PinOf(pins[m], to) = {}
                              => PinOf(pins'[m], to) = PinOf(pins[m], id)
                    /\ n + 1 \in Ids(specs[m].rounds) => PinOf(pins'[m], n + 1) = {}]_vars
  BY DuplicationMovesPins
<1>. QED  BY <1>1, <1>2, <1>3, PTL DEF Spec, PinsFollowRounds

=============================================================================
