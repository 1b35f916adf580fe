---------------------------- MODULE MCRunControl ----------------------------
(* RunControl with two cancellers racing three claimers. *)
EXTENDS RunControl
=============================================================================
