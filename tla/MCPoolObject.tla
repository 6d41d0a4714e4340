---------------------------- MODULE MCPoolObject ----------------------------
(* Three owners over ranges of three and four addresses that start above 1, *)
(* with and without reserved addresses; two configurations New refuses.     *)
EXTENDS PoolObject

CONSTANTS o1, o2, o3

MCOwners == {o1, o2, o3}
MCAddresses == {0, 1, 2, 3, 4, 5, 6}
MCConfigs ==
  { [start |-> 2, end |-> 4, reserved |-> <<>>],
    [start |-> 2, end |-> 5, reserved |-> <<2, 4>>],
    [start |-> 3, end |-> 5, reserved |-> <<4>>],
    [start |-> 2, end |-> 4, reserved |-> <<1>>],
    [start |-> 4, end |-> 4, reserved |-> <<4, 4>>] }

=============================================================================
