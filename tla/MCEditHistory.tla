--------------------------- MODULE MCEditHistory ---------------------------
(***************************************************************************)
(* Instances of EditHistory for TLC: two ciphers and two KMAC key lengths  *)
(* as the selector settings, a history two entries deep so that eviction   *)
(* happens, and a handful of references.                                   *)
(***************************************************************************)
EXTENDS EditHistory

CONSTANTS aes, des, kmac32, kmac64

Ciphers == {aes, des}
KmacLengths == {kmac32, kmac64}
AllSelectors == Ciphers \cup KmacLengths
NoKmac == {}

\* What acts during a drag.  With ShortcutsToo the code breaks OnlyMovesCommit, with
\* ArrivalsToo BoundaryRule.
Nothing == {}
ShortcutsToo == {"shortcut"}
ArrivalsToo == {"load"}
AnyInput == {"edit", "shortcut", "switch", "load", "pointer"}

=============================================================================
