-------------------------- MODULE MCBroadcastFlags --------------------------
(***************************************************************************)
(* Two clients that patch the flags of one device.                         *)
(***************************************************************************)
EXTENDS BroadcastFlags

CONSTANTS r1, r2

TwoRequests == {r1, r2}

(* An unset spec means 1, a value of 0 means 4. *)
Values == {0, 2, 3}

=============================================================================
