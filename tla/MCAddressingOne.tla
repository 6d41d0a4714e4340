--------------------------- MODULE MCAddressingOne ---------------------------
(***************************************************************************)
(* One module, which may have any address in and out of the pool.  Its     *)
(* device does not exist yet and its pool is refused; users create the     *)
(* device and repair the pool in any order.                                *)
(***************************************************************************)
EXTENDS CANAddressing

CONSTANTS d1, v1, p1

MCDetector == {d1}
MCDevice == {v1}
MCDeviceOf == [d \in MCDetector |-> v1]
MCPoolName == {p1}
MCPools == [p \in MCPoolName |-> [cfg |-> [start |-> 2, end |-> 3, reserved |-> <<1>>], status |-> NoStats]]
MCDevices == [v \in MCDevice |-> Absent]
MCModules == {[d \in MCDetector |-> a] : a \in {1, 2, 3, 4}}
RepairedPool == {[start |-> 1, end |-> 2, reserved |-> <<>>]}
CreatedDevice == {p1}

=============================================================================
