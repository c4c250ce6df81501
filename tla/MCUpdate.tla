------------------------------ MODULE MCUpdate ------------------------------
(* Instances of Update for TLC. *)
EXTENDS Update

\* v1.9.0, v1.10-rc1 and v1.10.1
MCTag == <<<<1, 9, 0>>, <<1, 10>>, <<1, 10, 1>>>>
=============================================================================
