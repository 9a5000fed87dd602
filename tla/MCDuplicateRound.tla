-------------------------- MODULE MCDuplicateRound --------------------------
(***************************************************************************)
(* Instances of DuplicateRound for TLC: two matrices and two positions.    *)
(***************************************************************************)
EXTENDS DuplicateRound

CONSTANTS standard, other, left, right
TwoMatrices == {standard, other}
OneMatrix == {standard}
TwoPlaces == {left, right}
NoPlaces == {}
\* Positions are only compared.
PlacesAlike == Permutations(TwoPlaces)
OnlyDecrypt == {"decrypt"}
NoResets == {}

=============================================================================
