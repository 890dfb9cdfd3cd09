---------------------------- MODULE MCGuestFile ----------------------------
(* Small instances of GuestFile for TLC: the constants are in the cfgs. *)
EXTENDS GuestFile
=============================================================================
