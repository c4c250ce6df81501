----------------------------- MODULE MCArchive -----------------------------
(***************************************************************************)
(* Archive for TLC: one operator who saves, exports, resets and imports.    *)
(***************************************************************************)
EXTENDS Archive

MCEnvs == {[reqs |-> {"p1"}, calls |-> 4, seconds |-> 0, faults |-> 0, defaults |-> TRUE]}
=============================================================================
