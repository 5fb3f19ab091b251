-------------------------- MODULE MCDurableHistory --------------------------
(* Small instances of DurableHistory. *)
EXTENDS DurableHistory, TLC
=============================================================================
