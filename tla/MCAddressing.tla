---------------------------- MODULE MCAddressing ----------------------------
(***************************************************************************)
(* Two modules of one station, both configured with address 1, which is    *)
(* reserved in the pool 1..3: whichever is adopted first takes it, the     *)
(* other one, or one reconciled before it was observed, gets 2 or 3.       *)
(***************************************************************************)
EXTENDS CANAddressing

CONSTANTS d1, d2, v1, p1

MCDetector == {d1, d2}
MCDevice == {v1}
MCDeviceOf == [d \in MCDetector |-> v1]
MCPoolName == {p1}

Unused(cfg) == [p \in MCPoolName |-> [cfg |-> cfg, status |-> NoStats]]

MCPools == Unused([start |-> 1, end |-> 3, reserved |-> <<1>>])
MCDevices == [v \in MCDevice |-> p1]
MCModules == {[d \in MCDetector |-> 1]}

(* config/canpool/canaddresspool.yaml and DefaultCANAddressPoolSpec *)
BundledPools == Unused([start |-> 10, end |-> 200, reserved |-> <<1, 2, 3>>])

Symmetry == Permutations(MCDetector)

=============================================================================
