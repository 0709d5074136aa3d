------------------------ MODULE MCCommandSupervisor ------------------------
(* Small instances of CommandSupervisor for TLC. *)
EXTENDS CommandSupervisor
=============================================================================
