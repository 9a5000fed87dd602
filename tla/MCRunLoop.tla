------------------------------ MODULE MCRunLoop ------------------------------
(***************************************************************************)
(* Runs that differ from the first in one part each: a parameter, the IV,  *)
(* and an input that is longer by a zero byte.                             *)
(***************************************************************************)
EXTENDS RunLoop

First ==
    [mode |-> "encrypt", input |-> <<1>>, key |-> <<7>>,
     params |-> "shipped", unseen |-> "iv"]

SomeRuns ==
    {First, [First EXCEPT !.params = "edited"], [First EXCEPT !.unseen = "another iv"],
     [First EXCEPT !.input = <<1, 0>>]}

=============================================================================
