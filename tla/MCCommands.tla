----------------------------- MODULE MCCommands -----------------------------
(* The commands on devices and with tools, on a small instance. *)
EXTENDS Commands
=============================================================================
