---------------------------- MODULE MCTraceFocus ----------------------------
(***************************************************************************)
(* Traces of small specs: steps that run once, a loop of one to three      *)
(* passes and a last step, with steps dropped in, removed or replaced, and *)
(* the trace of a spec without steps.                                      *)
(***************************************************************************)
EXTENDS TraceFocus

CONSTANTS key, sub, mix, out, pad, setup, rounds, final

AllSteps == {key, sub, mix, out, pad}
AllGroups == {setup, rounds, final}

Emit(steps, pass, group) ==
    [i \in DOMAIN steps |-> [step |-> steps[i], pass |-> pass, group |-> group]]

TraceOf(prologue, body, passes) ==
    Emit(prologue, 0, setup)
    \o FlattenSeq([p \in 1..passes |-> Emit(body, p - 1, rounds)])
    \o Emit(<<out>>, 0, final)

SomeTraces ==
    {<<>>} \cup
    {TraceOf(prologue, body, passes) :
        prologue \in {<<>>, <<key>>, <<key, pad>>},
        body \in {<<sub, mix>>, <<sub>>, <<mix, pad>>},
        passes \in 1..3}

=============================================================================
