--------------------------- MODULE MCLoomSupervisor ---------------------------
(* Small instances of LoomGenerationSupervisor. *)
EXTENDS LoomGenerationSupervisor
=============================================================================
