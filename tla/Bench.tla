-------------------------------- MODULE Bench --------------------------------
(***************************************************************************)
(* The state of a computation made of steps: the modules that model a      *)
(* family of them extend this one, and Primitives lets TLC take one job of *)
(* one family.  job.kind names the family.                                 *)
(***************************************************************************)
VARIABLE job

=============================================================================
