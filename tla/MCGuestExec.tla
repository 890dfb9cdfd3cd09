---------------------------- MODULE MCGuestExec ----------------------------
(* Small instances of GuestExec for TLC. *)
EXTENDS GuestExec

CONSTANTS p1, p2

OnePid == {p1}
TwoPids == {p1, p2}
=============================================================================
