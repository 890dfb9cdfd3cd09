----------------------------- MODULE MCSession -----------------------------
(* Small instances of Session for TLC: the constants are in the cfgs. *)
EXTENDS Session
=============================================================================
