--------------------------- MODULE MCLeaseWatcher ---------------------------
(* LeaseWatcher for TLC; the bounds are given in the configurations. *)
EXTENDS LeaseWatcher
=============================================================================
