--------------------------- MODULE MCSpecEditing ---------------------------
(***************************************************************************)
(* A spec with what the shipped ones have: a step that takes its key from  *)
(* aux, a chaining loop with a harvest (ML-DSA signing), in it a group with *)
(* a seed (an AES round) and a body without one (SHA-256's message         *)
(* schedule), and a consumer after the loop.                               *)
(***************************************************************************)
EXTENDS SpecEditing

Id(name) == << <<name, 0>> >>
Sub(outer, name) == << <<outer, 0>>, <<name, 0>> >>

Lifted(ins, needs, outs, binds) ==
  [kind |-> "step", ins |-> ins, needs |-> needs, outs |-> outs, binds |-> binds, harvest |-> {}]
Step(ins, outs, binds) == Lifted(ins, ins, outs, binds)
Container(kind, binds, harvest) ==
  [kind |-> kind, ins |-> {}, needs |-> {}, outs |-> <<"out">>, binds |-> binds, harvest |-> harvest]

SigningLoop ==
  [body |-> (Top :> <<Id("start"), Id("loop"), Id("tail")>>)
         @@ (Id("loop") :> <<Id("sched"), Id("mix"), Id("round")>>)
         @@ (Id("sched") :> <<Id("word")>>)
         @@ (Id("round") :> <<Sub("round", "sub")>>),
   node |-> (Id("start") :> Lifted({"input", "key"}, {}, <<"output">>, "input" :> InputSource))
         @@ (Id("loop") :> Container("iterate",
               [seedInput |-> InputSource, chainInput |-> Port(Id("start"), "output"),
                chainFeedback |-> Port(Id("round"), "out"),
                bodyOutput |-> Port(Id("round"), "out"),
                stopWhen |-> Port(Id("mix"), "flag")], {"result"}))
         @@ (Id("sched") :> Container("for-each-subgraph-with-history",
               [seedInput |-> Port(Id("loop"), "in"),
                bodyOutput |-> Port(Id("word"), "output")], {}))
         @@ (Id("word") :> Step({}, <<"output">>, <<>>))
         @@ (Id("mix") :> Step({"a", "b"}, <<"output", "flag">>,
               [a |-> Port(Id("loop"), "in"), b |-> Port(Id("loop"), "chain")]))
         @@ (Id("round") :> Container("group",
               [seedInput |-> Port(Id("mix"), "output"),
                bodyOutput |-> Port(Sub("round", "sub"), "output")], {}))
         @@ (Sub("round", "sub") :> Step({"input"}, <<"output">>,
               "input" :> Port(Id("round"), "in")))
         @@ (Id("tail") :> Step({"input"}, <<"output">>,
               "input" :> Port(Id("loop"), "result"))),
   inside |-> (Id("start") :> {}) @@ (Id("loop") :> {}) @@ (Id("tail") :> {})
         @@ (Id("sched") :> {Id("loop")}) @@ (Id("mix") :> {Id("loop")})
         @@ (Id("round") :> {Id("loop")}) @@ (Id("word") :> {Id("loop"), Id("sched")})
         @@ (Sub("round", "sub") :> {Id("loop"), Id("round")}),
   exit |-> Port(Id("tail"), "output")]

Xor == [base |-> "xor", ins |-> {"a", "b"}, needs |-> {"a", "b"}, outs |-> <<"output">>]
XorOnly == {Xor}
RoundOnly == {"round"}

=============================================================================
