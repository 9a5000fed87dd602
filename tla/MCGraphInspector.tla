-------------------------- MODULE MCGraphInspector --------------------------
(***************************************************************************)
(* Small specs with the shapes of the shipped ones, damaged forms of them, *)
(* and what each is meant to compute.  Bytes are numbers below 4.          *)
(***************************************************************************)
EXTENDS GraphInspector

Id(name) == << <<name, 0>> >>
Out(name) == Port(Id(name), "out")
Sum(seq) == FoldLeft(LAMBDA a, b : (a + b) % 4, 0, seq)

Leaf(type, binds, more) ==
  more @@ [kind |-> "step", type |-> type, binds |-> binds, outs |-> <<"out">>, harvest |-> {},
   needs |-> {}, must |-> {}, reads |-> <<>>, writes |-> <<>>, lens |-> <<>>,
   stateIn |-> "none", stateOut |-> "none", stateless |-> FALSE]
Native(type, binds) == Leaf(type, binds, [needs |-> DOMAIN binds])
Load(key) == Leaf("aux-load-bytes", <<>>,
  [reads |-> [v |-> key], must |-> {"v"}, stateless |-> TRUE])
Box(kind, binds, more) ==
  more @@ [kind |-> kind, binds |-> binds, outs |-> <<"out">>, harvest |-> {}, needs |-> {}]
Iterate(binds, len, more) == Box("iterate", binds, more @@ [len |-> len, partial |-> FALSE])
History(binds, offsets, count, out) ==
  Box("history", binds, [offsets |-> offsets, entry |-> 1, count |-> count, outputAux |-> out])

\* The executors.
MCExec(n, ins) ==
  CASE n.type = "aux-load-bytes" -> [out |-> ins.v]
    [] n.type = "pad" -> [out |-> ins.a \o (IF Len(ins.a) % 2 = 0 THEN <<2, 0>> ELSE <<2>>)]
    [] n.type = "add" -> [out |-> [i \in DOMAIN ins.a |->
                            (ins.a[i] + (IF i <= Len(ins.b) THEN ins.b[i] ELSE 0)) % 4]]
    [] n.type = "inc" -> [out |-> [i \in DOMAIN ins.a |-> (ins.a[i] + 1) % 4]]
    [] n.type = "split" -> [low |-> SubSeq(ins.a, 1, 1), high |-> SubSeq(ins.a, 2, Len(ins.a))]
    [] n.type = "attempt" -> [out |-> <<(ins.a[1] + ins.b[1]) % 4>>,
                              flag |-> IF (ins.a[1] + ins.b[1]) % 4 = 0 THEN <<1>> ELSE <<0>>]
    [] n.type = "cut" -> [out |-> SubSeq(ins.a, 1, Len(ins.b))]
    [] n.type = "sum" -> [out |-> <<Sum(ins.a), Sum(ins.b)>>]
    [] n.type = "publish" -> [k |-> ins.a]
    [] n.type = "tally" -> [k |-> <<(ins.a[1] + ins.b[1]) % 4>>]
    [] n.type = "swap" -> [state |-> Reverse(ins.state)]

\* A hash: padding, a chaining loop over blocks of two with a message schedule that
\* looks back, a seeded group that fetches it, the digest harvested from the chain.
Hash ==
  [name |-> "hash", inputs |-> {<<1>>, <<1, 3>>},
   constants |-> (<<"H", 0>> :> <<1, 2>>),
   body |-> (Top :> <<Id("iv"), Id("pad"), Id("blocks"), Id("fin")>>)
         @@ (Id("blocks") :> <<Id("sched"), Id("round"), Id("mix")>>)
         @@ (Id("sched") :> <<Id("p1"), Id("p2"), Id("w")>>)
         @@ (Id("round") :> <<Id("fetch"), Id("split"), Id("radd")>>),
   node |-> (Id("iv") :> Load(<<"H", 0>>))
         @@ (Id("pad") :> Native("pad", [a |-> InputSource]))
         @@ (Id("blocks") :> Iterate([seedInput |-> Out("pad"), chainInput |-> Out("iv"),
              chainFeedback |-> Out("mix"), bodyOutput |-> Out("mix")], 2, [harvest |-> {"digest"}]))
         @@ (Id("sched") :> History([seedInput |-> Port(Id("blocks"), "in"), bodyOutput |-> Out("w")],
              {1, 2}, 2, <<"W", 0>>))
         @@ (Id("p1") :> Load(Prior(1))) @@ (Id("p2") :> Load(Prior(2)))
         @@ (Id("w") :> Native("add", [a |-> Out("p1"), b |-> Out("p2")]))
         @@ (Id("round") :> Box("group", [seedInput |-> Port(Id("blocks"), "chain"),
              bodyOutput |-> Out("radd")], <<>>))
         @@ (Id("fetch") :> Load(<<"W", 0>>))
         @@ (Id("split") :> Leaf("split", [a |-> Out("fetch")], [outs |-> <<"low", "high">>]))
         @@ (Id("radd") :> Leaf("add", [a |-> Port(Id("round"), "in"), b |-> Port(Id("split"), "high")],
              [lens |-> [b |-> 2]]))
         @@ (Id("mix") :> Native("add", [a |-> Port(Id("blocks"), "chain"), b |-> Out("round")]))
         @@ (Id("fin") :> Native("inc", [a |-> Port(Id("blocks"), "digest")])),
   path |-> [x \in {Id("iv"), Id("pad"), Id("blocks"), Id("fin")} |-> <<>>]
         @@ [x \in {Id("sched"), Id("round"), Id("mix")} |-> <<Id("blocks")>>]
         @@ [x \in {Id("p1"), Id("p2"), Id("w")} |-> <<Id("blocks"), Id("sched")>>]
         @@ [x \in {Id("fetch"), Id("split"), Id("radd")} |-> <<Id("blocks"), Id("round")>>],
   exit |-> Out("fin")]

\* Per block [x, y] on a chain [h, g]: the schedule is x, y, x+y, x+2y; its tail
\* from the second entry, cut to two, is added to twice the chain.
HashBlock(s, h, x, y) ==
  <<(2 * h[1] + y) % 4, (2 * h[2] + (IF s.node[Id("sched")].count = 0 THEN 0 ELSE x + y)) % 4>>
HashValue(s, m) ==
  LET padded == m \o (IF Len(m) % 2 = 0 THEN <<2, 0>> ELSE <<2>>)
      one == HashBlock(s, <<1, 2>>, padded[1], padded[2])
      last == IF Len(padded) = 2 THEN one ELSE HashBlock(s, one, padded[3], padded[4])
  IN <<(last[1] + 1) % 4, (last[2] + 1) % 4>>

\* A signing loop: up to four attempts on a counter that is carried, until the flag;
\* the key goes through aux, a later step of the body leaves a value for the next.
Signing ==
  [name |-> "signing", inputs |-> {<<1>>, <<2>>, <<0>>},
   constants |-> (<<"last", 0>> :> <<0>>) @@ (<<"tries", 0>> :> <<0, 0, 0, 0>>),
   body |-> (Top :> <<Id("key"), Id("tries"), Id("loop"), Id("both")>>)
         @@ (Id("loop") :> <<Id("prev"), Id("sk"), Id("try"), Id("next"), Id("keep")>>),
   node |-> (Id("key") :> Leaf("publish", [a |-> InputSource],
               [outs |-> <<>>, writes |-> [k |-> <<"K", 0>>]]))
         @@ (Id("tries") :> Load(<<"tries", 0>>))
         @@ (Id("loop") :> Iterate([seedInput |-> Out("tries"), chainInput |-> InputSource,
              chainFeedback |-> Out("next"), bodyOutput |-> Out("prev"), stopWhen |-> Port(Id("try"), "flag")],
              1, [harvest |-> {"counter"}]))
         @@ (Id("prev") :> Load(<<"last", 0>>)) @@ (Id("sk") :> Load(<<"K", 0>>))
         @@ (Id("try") :> Leaf("attempt", [a |-> Port(Id("loop"), "chain"), b |-> Out("sk")],
              [outs |-> <<"out", "flag">>, needs |-> {"a", "b"}]))
         @@ (Id("next") :> Native("inc", [a |-> Port(Id("loop"), "chain")]))
         @@ (Id("keep") :> Leaf("tally", [a |-> Out("prev"), b |-> Out("try")],
               [outs |-> <<>>, writes |-> [k |-> <<"last", 0>>]]))
         @@ (Id("both") :> Native("sum", [a |-> Out("loop"), b |-> Port(Id("loop"), "counter")])),
   path |-> [x \in {Id("key"), Id("tries"), Id("loop"), Id("both")} |-> <<>>]
         @@ [x \in {Id("prev"), Id("sk"), Id("try"), Id("next"), Id("keep")} |-> <<Id("loop")>>],
   exit |-> Out("both")]

\* With key k: attempts give 2k, 2k+1, ... until one is 0; their running totals are
\* collected, each an attempt late; the counter is k plus the number of attempts.
SigningValue(k) ==
  LET n == CHOOSE i \in 1..4 : (2 * k + i - 1) % 4 = 0
      before(i) == Sum([j \in 1..(i - 1) |-> (2 * k + j - 1) % 4])
  IN <<Sum([i \in 1..n |-> before(i)]), (k + n) % 4>>

\* A stream mode on a short last block, and steps that thread the state through a
\* group and a numbered loop, with a recurrence inside a recurrence.
Stream ==
  [name |-> "stream", inputs |-> {<<>>, <<3>>, <<1, 2, 3>>},
   constants |-> (<<"iv", 0>> :> <<2, 1>>),
   body |-> (Top :> <<Id("iv"), Id("blocks"), Id("turn"), Id("outer"), Id("end")>>)
         @@ (Id("blocks") :> <<Id("pad2"), Id("ct"), Id("cut")>>)
         @@ (Id("turn") :> <<Id("twice")>>) @@ (Id("twice") :> <<Id("swap")>>)
         @@ (Id("outer") :> <<Id("before"), Id("inner"), Id("after"), Id("e")>>)
         @@ (Id("inner") :> <<Id("deep")>>),
   node |-> (Id("iv") :> Load(<<"iv", 0>>))
         @@ (Id("blocks") :> Iterate([seedInput |-> InputSource, chainInput |-> Out("iv"),
              chainFeedback |-> Out("ct"), bodyOutput |-> Out("cut")], 2, [partial |-> TRUE]))
         @@ (Id("pad2") :> Leaf("inc", [a |-> Port(Id("blocks"), "in")], [lens |-> [a |-> 2]]))
         @@ (Id("ct") :> Native("add", [a |-> Port(Id("blocks"), "chain"), b |-> Out("pad2")]))
         @@ (Id("cut") :> Native("cut", [a |-> Out("ct"), b |-> Port(Id("blocks"), "in")]))
         @@ (Id("turn") :> Box("group", <<>>, <<>>))
         @@ (Id("twice") :> Box("for-each", <<>>, [count |-> 3]))
         @@ (Id("swap") :> Leaf("swap", <<>>,
              [stateIn |-> "state", stateOut |-> "state", outs |-> <<"state">>]))
         @@ (Id("outer") :> History(<<>>, {1}, 1, NoKey))
         @@ (Id("before") :> Load(Prior(1)))
         @@ (Id("inner") :> History([seedInput |-> Out("before"), bodyOutput |-> Out("deep")],
              {1}, 1, <<"I", 0>>))
         @@ (Id("deep") :> Leaf("inc", <<>>, [reads |-> [a |-> Prior(1)], must |-> {"a"}]))
         @@ (Id("after") :> Load(Prior(1)))
         @@ (Id("e") :> Leaf("add", [a |-> Out("after")],
              [reads |-> [a |-> <<"iv", 0>>, b |-> <<"I", 0>>], must |-> {"b"},
               outs |-> <<"out">>, stateOut |-> "out"]))
         @@ (Id("end") :> Native("sum", [a |-> Out("blocks"), b |-> Out("outer")])),
   path |-> [x \in {Id("iv"), Id("blocks"), Id("turn"), Id("outer"), Id("end")} |-> <<>>]
         @@ [x \in {Id("pad2"), Id("ct"), Id("cut")} |-> <<Id("blocks")>>]
         @@ (Id("twice") :> <<Id("turn")>>) @@ (Id("swap") :> <<Id("turn"), Id("twice")>>)
         @@ [x \in {Id("before"), Id("inner"), Id("after"), Id("e")} |-> <<Id("outer")>>]
         @@ (Id("deep") :> <<Id("outer"), Id("inner")>>),
   exit |-> Out("end")]

\* Each block is added to the one before and to 1; the state is the input reversed,
\* and the outer recurrence appends twice its last entry.
StreamValue(s, m) ==
  LET c1 == <<(m[1] + 3) % 4, (IF Len(m) > 1 THEN m[2] + 2 ELSE 2) % 4>>
      ct == IF Len(m) = 1 THEN <<c1[1]>> ELSE <<c1[1], c1[2], (m[3] + 1 + c1[1]) % 4>>
      turned == IF s.node[Id("twice")].count = 0 THEN m ELSE Reverse(m)
  IN <<Sum(ct), Sum(Append(turned, (2 * Last(turned)) % 4))>>

MCMeant(s, m) ==
  CASE s.name = "hash" -> HashValue(s, m)
    [] s.name = "signing" -> SigningValue(m[1])
    [] s.name = "stream" -> StreamValue(s, m)

\* Each binding in turn is left dangling; lengths that do not fit.
Gone == Port(Id("gone"), "out")
Damaged(s) ==
  UNION {{[s EXCEPT !.node[x].binds[f] = Gone] : f \in DOMAIN s.node[x].binds} : x \in Ids(s)}
    \cup {[s EXCEPT !.exit = Gone]}
Misfitting ==
  {[Hash EXCEPT !.node[Id("blocks")].len = 3], [Hash EXCEPT !.node[Id("blocks")].len = 0],
   [Hash EXCEPT !.node[Id("sched")].offsets = {3}],
   [Hash EXCEPT !.node[Id("sched")].count = 0, !.node[Id("radd")].lens = <<>>],
   [Hash EXCEPT !.node[Id("w")] = Native("sum", [a |-> Out("p1"), b |-> Out("p2")])],
   [Signing EXCEPT !.node[Id("next")] = Native("sum", [a |-> Out("prev"), b |-> Out("sk")]),
                   !.node[Id("loop")].binds.stopWhen = Out("next")],
   [Signing EXCEPT !.constants = <<"tries", 0>> :> <<0>>],
   [Stream EXCEPT !.node[Id("twice")].count = 0]}
Whole == {Hash, Signing, Stream}
MCPrograms == Whole \cup UNION {Damaged(s) : s \in Whole} \cup Misfitting

=============================================================================
