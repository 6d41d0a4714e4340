------------------------- MODULE AddressAllocation -------------------------
(***************************************************************************)
(* What allocation promises the owner of a layout, without controllers,    *)
(* caches or objects: a detector gets one address, within the range, that  *)
(* no other detector holds; a reserved address only if it is the one its   *)
(* module is wanted to keep; and it holds it until it is forgotten.        *)
(***************************************************************************)
EXTENDS Integers

CONSTANTS Detector, None

VARIABLES
  held,       \* the address each detector holds, or None
  wants,      \* the address each detector would keep, or None
  range,      \* addresses that may be given
  reserved    \* addresses given only to a detector that wants them

allocVars == <<held, wants, range, reserved>>

Taken == {held[d] : d \in Detector} \ {None}

Init ==
  /\ held = [d \in Detector |-> None]
  /\ wants = [d \in Detector |-> None]

Give(d) ==
  /\ held[d] = None
  /\ \E a \in range \ Taken :
       /\ a \in reserved => wants[d] = a
       /\ held' = [held EXCEPT ![d] = a]
  /\ UNCHANGED wants

Forget(d) ==
  /\ held' = [held EXCEPT ![d] = None]
  /\ wants' = [wants EXCEPT ![d] = None]

Wish(d) ==
  /\ wants' = [wants EXCEPT ![d] = wants'[d]]
  /\ UNCHANGED held

Next ==
  /\ \E d \in Detector : Give(d) \/ Forget(d) \/ Wish(d)
  /\ UNCHANGED <<range, reserved>>

Spec == Init /\ [][Next]_allocVars

(* No two detectors hold the same address: two modules on one CAN bus with *)
(* one address cannot be told apart.                                       *)
Unique == \A d, e \in Detector : held[d] = held[e] /\ held[d] # None => d = e

=============================================================================
