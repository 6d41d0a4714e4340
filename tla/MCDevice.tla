------------------------------ MODULE MCDevice ------------------------------
(***************************************************************************)
(* One device and its gateway.                                             *)
(***************************************************************************)
EXTENDS DeviceLifecycle

CONSTANTS d1, basement

OneDevice == {d1}
OneName   == {basement}
Named1    == [d \in {d1} |-> basement]

=============================================================================
