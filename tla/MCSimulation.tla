---------------------------- MODULE MCSimulation ----------------------------
(***************************************************************************)
(* One simulator, its device beside a real Z21, and five scenarios: power  *)
(* changed from the LAN and from gRPC at once; two requests at a running   *)
(* simulator; one, with a client that subscribes, polls and programs;      *)
(* simulations made before or without their device, with a simulator that  *)
(* stops and a booster that is switched; and a request while users create  *)
(* and delete the simulation it is for.                                    *)
(***************************************************************************)
EXTENDS SimulationLifecycle

CONSTANTS v1, v2, s1, c1, c2, k1, k2, r1, r2

Set(flags)     == [op |-> "flags", flags |-> flags]
LogOff         == [op |-> "logoff"]
Status         == [op |-> "status"]
Poll           == [op |-> "poll"]
SetPower(on)   == [op |-> "power", on |-> on]
Describe(n)    == [op |-> "describe", net |-> n]
Address(n, a)  == [op |-> "address", net |-> n, addr |-> a]
Switch(n, on)  == [op |-> "booster", net |-> n, on |-> on]

A == defaultDetectorNetID

PowerMix == (c1 :> {<<Set({XpressNet, SystemState})>>, <<SetPower(FALSE)>>, <<Status, SetPower(TRUE)>>})
            @@ (c2 :> {<<Set({SystemState})>>, <<LogOff, Set({XpressNet})>>, <<SetPower(FALSE)>>})
CANMix == {<<Set({CANDetector}), Poll>>, <<Address(A, 3), Poll>>, <<Describe(2)>>}
BoosterMix == {<<Set({CANBooster}), Switch(2, FALSE)>>}

MCBodies == {SimulateCommand({}, 0), SimulateCommand({2}, 2), <<>>, 0 :> 1}

One(mix)  == [c \in {c1, c2} |-> IF c = c1 THEN mix ELSE {}]

Quiet == [device |-> Simulator, up |-> TRUE, mix |-> One({}), bodies |-> {},
          requests |-> 0, calls |-> 0, packets |-> 0, edits |-> 0, faults |-> 1]

PowerScenario   == [Quiet EXCEPT !.mix = PowerMix, !.calls = 1, !.packets = 3]
RequestScenario == [Quiet EXCEPT !.bodies = MCBodies, !.requests = 2]
HeardScenario   == [Quiet EXCEPT !.mix = One(CANMix), !.packets = 2,
                                 !.bodies = {SimulateCommand({2, A}, Absent)}, !.requests = 1]
EditScenario    == [Quiet EXCEPT !.device = Absent, !.up = FALSE,
                                 !.mix = One(BoosterMix), !.packets = 1, !.edits = 3]
RaceScenario    == [Quiet EXCEPT !.bodies = {SimulateCommand({}, 0)}, !.requests = 1, !.edits = 2, !.faults = 0]

MCScenarios == {PowerScenario, RequestScenario, HeardScenario, EditScenario, RaceScenario}

MCManifests == {[ref |-> v1, detectors |-> A :> 1, boosters |-> 2 :> 1],
                [ref |-> Absent, detectors |-> <<>>, boosters |-> <<>>]}
MCNetID == {2, A}
MCSimName == {s1}
MCDevice == {v1, v2}
MCClient == {c1, c2}
MCCaller == {k1, k2}
MCRequest == {r1, r2}

=============================================================================
