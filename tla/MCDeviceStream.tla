--------------------------- MODULE MCDeviceStream ---------------------------
(***************************************************************************)
(* Two devices, of which one client watches each; or one and one.          *)
(***************************************************************************)
EXTENDS DeviceStream

CONSTANTS d1, d2, c1, c2

OneDevice  == {d1}
TwoDevices == {d1, d2}
OneClient  == {c1}
TwoClients == {c1, c2}
KeenOne    == {c1}
WatchD1    == [c \in {c1} |-> d1]
WatchEach  == (c1 :> d1) @@ (c2 :> d2)

=============================================================================
