---------------------------- MODULE DeviceStream ----------------------------
(***************************************************************************)
(* The API server's stream of device changes, and the `elpctl get device   *)
(* -w` clients that follow it.  An informer hands each change to a hub,    *)
(* which puts it into the channel of every subscribed client; a handler    *)
(* per client writes a snapshot and then what its channel holds.           *)
(*                                                                         *)
(* The devices of one namespace, each state of a device a number of its    *)
(* own.  An event written to a connection is read by its client in the     *)
(* same step: what is under way there waits in the channel as well.        *)
(***************************************************************************)
EXTENDS Integers, FiniteSets, Sequences, TLC, SequencesExt

CONSTANTS
  Device,      \* names of Z21Device objects of the namespace
  Client,      \* connections to the stream
  Watched,     \* the device each client asks for
  Keen,        \* clients that keep reading
  Absent,      \* a device that does not exist
  Slots,       \* capacity of a client's channel
  MaxLag,      \* bound: undelivered watch events
  MaxChanges,  \* bound: changes of devices
  MaxLosses    \* bound: times the informer's watch is lost

ASSUME StreamAssumption ==
  /\ Watched \in [Client -> Device]
  /\ Keen \subseteq Client
  /\ IsFiniteSet(Device) /\ Absent \notin Nat
  /\ Slots \in Nat \ {0} /\ MaxLag \in Nat \ {0}
  /\ MaxChanges \in Nat /\ MaxLosses \in Nat

VARIABLES
  device,      \* the cluster's devices
  store,       \* the informer's copies
  watch,       \* its undelivered events, oldest first
  handler,     \* by client: where its streamDevices stands
  snapshot,    \* by client: the list it read and has not written yet
  registered,  \* the hub's subscribers
  channel,     \* by client: what the hub has for it
  closed,      \* clients whose channel is closed
  view,        \* by client: the state of the watched device it shows
  missed,      \* clients the latest event about their device did not reach
  changes, losses

clusterVars == <<device, store, watch, changes, losses>>
clientVars  == <<handler, snapshot, registered, channel, closed, view, missed>>
vars        == <<clusterVars, clientVars>>

Version == 1..MaxChanges

(* A watch event; unseen when the watch was lost while the device was      *)
(* deleted and the informer, listing again, only finds it gone.            *)
WatchEvent(d, obj, unseen) == [name |-> d, obj |-> obj, unseen |-> unseen]

Updated(d, obj) == [type |-> "updated", name |-> d, obj |-> obj]
DeletedOf(d)    == [type |-> "deleted", name |-> d]

Init ==
  /\ device = [d \in Device |-> Absent]
  /\ store = device
  /\ watch = <<>>
  /\ handler = [c \in Client |-> "off"]
  /\ snapshot = [c \in Client |-> device]
  /\ registered = {}
  /\ channel = [c \in Client |-> <<>>]
  /\ closed = {}
  /\ view = [c \in Client |-> Absent]
  /\ missed = {}
  /\ changes = 0
  /\ losses = 0

-----------------------------------------------------------------------------
(***************************************************************************)
(* The cluster, and the informer's watch of it.                            *)
(***************************************************************************)
Change(d) ==
  /\ changes < MaxChanges
  /\ Len(watch) < MaxLag
  /\ changes' = changes + 1
  /\ \E obj \in {changes + 1} \cup (IF device[d] = Absent THEN {} ELSE {Absent}) :
       /\ device' = [device EXCEPT ![d] = obj]
       /\ watch' = Append(watch, WatchEvent(d, obj, FALSE))
  /\ UNCHANGED <<store, losses, clientVars>>

(* The informer lists again and tells what differs from its copies; what   *)
(* does not differ it may tell too.  A device that came and went unseen is *)
(* not told of at all.                                                     *)
LoseWatch ==
  /\ losses < MaxLosses
  /\ losses' = losses + 1
  /\ LET changed == {d \in Device : device[d] # store[d]}
         gone == {d \in Device \ changed : device[d] = Absent}
     IN  /\ \E same \in SUBSET (Device \ (changed \cup gone)) :
              watch' \in SetToSeqs({WatchEvent(d, device[d], device[d] = Absent) :
                                      d \in changed \cup same})
         /\ missed' = missed \cup {c \in Client : /\ handler[c] # "off"
                                                /\ Watched[c] \in gone
                                                /\ \E i \in DOMAIN watch : watch[i].name = Watched[c]}
  /\ UNCHANGED <<device, store, changes, handler, snapshot, registered, channel, closed, view>>

-----------------------------------------------------------------------------
(***************************************************************************)
(* StreamHub.                                                              *)
(***************************************************************************)
Room(c) == Len(channel[c]) < Slots

(* missed is kept for the properties: the event did not reach a connected  *)
(* client that will show its device, or it did.                            *)
Reaches(d, takers) ==
  LET about == {c \in Client : Watched[c] = d /\ handler[c] # "off"} IN
  missed' = (missed \ (about \cap takers)) \cup (about \ takers)

PublishWaiting(event) ==     \* mutant: a send that waits for room in every channel
  /\ \A c \in registered : Room(c)
  /\ channel' = [c \in Client |-> IF c \in registered THEN Append(channel[c], event)
                                                      ELSE channel[c]]
  /\ Reaches(event.name, registered)

Publish(event) ==
  LET takers == {c \in registered : Room(c)} IN
  /\ channel' = [c \in Client |-> IF c \in takers THEN Append(channel[c], event)
                                                  ELSE channel[c]]
  /\ Reaches(event.name, takers)

(* The handlers of StartDeviceWatch, as one function of what was delivered. *)
OnlyUpdates(e) ==     \* mutant: no AddFunc
  IF e.obj # Absent /\ store[e.name] # Absent THEN <<Updated(e.name, e.obj)>>
  ELSE IF e.obj = Absent /\ ~e.unseen THEN <<DeletedOf(e.name)>> ELSE <<>>

DeletedUnnamed(e) ==     \* mutant: DeleteFunc fills in the device instead of the name
  IF e.obj # Absent THEN <<Updated(e.name, e.obj)>>
  ELSE IF ~e.unseen THEN <<[DeletedOf(e.name) EXCEPT !.name = Absent]>> ELSE <<>>

Published(e) ==
  IF e.obj # Absent THEN <<Updated(e.name, e.obj)>>
  ELSE IF ~e.unseen THEN <<DeletedOf(e.name)>> ELSE <<>>

Deliver ==
  /\ watch # <<>>
  /\ watch' = Tail(watch)
  /\ LET e == Head(watch) IN
     /\ store' = [store EXCEPT ![e.name] = e.obj]
     /\ IF Published(e) # <<>> THEN Publish(Published(e)[1])
        ELSE /\ UNCHANGED channel
             /\ IF e.unseen THEN Reaches(e.name, {}) ELSE UNCHANGED missed
  /\ UNCHANGED <<device, changes, losses, handler, snapshot, registered, closed, view>>

-----------------------------------------------------------------------------
(***************************************************************************)
(* streamDevices, one handler per client.                                  *)
(***************************************************************************)
Moves(c, from, to) ==
  /\ handler[c] = from
  /\ handler' = [handler EXCEPT ![c] = to]
  /\ UNCHANGED clusterVars

(* The list is read from the API server, not from the informer. *)
List(c) ==
  /\ Moves(c, "off", "listed")
  /\ snapshot' = [snapshot EXCEPT ![c] = device]
  /\ missed' = missed \ {c}
  /\ UNCHANGED <<registered, channel, closed, view>>

WriteSnapshot(c) ==
  /\ Moves(c, "listed", "written")
  /\ view' = [view EXCEPT ![c] = snapshot[c][Watched[c]]]
  /\ snapshot' = [snapshot EXCEPT ![c] = [d \in Device |-> Absent]]
  /\ UNCHANGED <<registered, channel, closed, missed>>

Subscribe(c) ==
  /\ Moves(c, "written", "streaming")
  /\ registered' = registered \cup {c}
  /\ channel' = [channel EXCEPT ![c] = <<>>]
  /\ closed' = closed \ {c}
  /\ UNCHANGED <<snapshot, view, missed>>

(* handleDeviceWatchEvent in the client: other devices are passed over. *)
Shown(c, event) ==
  IF event.name # Watched[c] THEN view[c]
  ELSE IF event.type = "updated" THEN event.obj ELSE Absent

WriteEvent(c) ==
  /\ Moves(c, "streaming", "streaming")
  /\ channel[c] # <<>>
  /\ view' = [view EXCEPT ![c] = Shown(c, Head(channel[c]))]
  /\ channel' = [channel EXCEPT ![c] = Tail(@)]
  /\ UNCHANGED <<snapshot, registered, closed, missed>>

(* The client goes, or a write to it fails.  unsubscribe takes the channel *)
(* out of the hub and closes it after that.                                *)
Ended(c) ==
  /\ view' = [view EXCEPT ![c] = Absent]
  /\ snapshot' = [snapshot EXCEPT ![c] = [d \in Device |-> Absent]]
  /\ missed' = missed \ {c}

Leave(c) ==
  /\ Moves(c, "listed", "off") \/ Moves(c, "written", "off")
  /\ Ended(c)
  /\ UNCHANGED <<registered, channel, closed>>

CloseFirst(c) ==     \* mutant: the channel is closed while the hub still has it
  \/ /\ Moves(c, "streaming", "leaving")
     /\ closed' = closed \cup {c}
     /\ Ended(c)
     /\ UNCHANGED <<registered, channel>>
  \/ /\ Moves(c, "leaving", "off")
     /\ registered' = registered \ {c}
     /\ UNCHANGED <<channel, closed, snapshot, view, missed>>

Unsubscribe(c) ==
  \/ /\ Moves(c, "streaming", "leaving")
     /\ registered' = registered \ {c}
     /\ Ended(c)
     /\ UNCHANGED <<channel, closed>>
  \/ /\ Moves(c, "leaving", "off")
     /\ closed' = closed \cup {c}
     /\ channel' = [channel EXCEPT ![c] = <<>>]
     /\ UNCHANGED <<registered, snapshot, view, missed>>

streamDevices(c) == List(c) \/ WriteSnapshot(c) \/ Subscribe(c) \/ WriteEvent(c)

Next ==
  \/ \E d \in Device : Change(d)
  \/ LoseWatch
  \/ Deliver
  \/ \E c \in Client : streamDevices(c) \/ Leave(c) \/ Unsubscribe(c)

Spec == Init /\ [][Next]_vars

-----------------------------------------------------------------------------
(* The stream's variables hold only what the code can put into them.       *)
MaybeVersion == Version \cup {Absent}

Event == [type : {"updated"}, name : Device, obj : Version] \cup
         [type : {"deleted"}, name : Device]

TypeOK ==
  /\ device \in [Device -> MaybeVersion]
  /\ store \in [Device -> MaybeVersion]
  /\ \A i \in DOMAIN watch :
       watch[i] \in [name : Device, obj : MaybeVersion, unseen : BOOLEAN]
  /\ handler \in [Client -> {"off", "listed", "written", "streaming", "leaving"}]
  /\ snapshot \in [Client -> [Device -> MaybeVersion]]
  /\ \A c \in Client :
       Len(channel[c]) <= Slots /\ \A i \in DOMAIN channel[c] : channel[c][i] \in Event
  /\ view \in [Client -> MaybeVersion]
  /\ registered \subseteq Client /\ closed \subseteq Client /\ missed \subseteq Client

(* Every channel the hub would send to is open and belongs to a handler    *)
(* that still reads it: no send on a closed channel, which would panic.    *)
HubSound == \A c \in registered : c \notin closed /\ handler[c] = "streaming"

Settled(c) == watch = <<>> /\ handler[c] = "streaming" /\ channel[c] = <<>>

(* A connected client shows the cluster once everything published has been *)
(* written, unless the latest event about its device did not reach it: one *)
(* event that does reach it mends whatever was lost before.                *)
LatestEventMends ==
  \A c \in Client : Settled(c) /\ c \notin missed => view[c] = device[Watched[c]]

-----------------------------------------------------------------------------
(* Fairness: the informer delivers, and the handlers of the clients that   *)
(* keep reading keep writing; the others may stop reading for good.        *)
FairSpec == Spec /\ WF_vars(Deliver) /\ \A c \in Keen : WF_vars(WriteEvent(c))

(* A client that does not read holds up nobody else: a keen client that    *)
(* stays connected, and that the latest event did reach, shows the cluster *)
(* in the end.                                                             *)
KeenClientsFollow ==
  \A c \in Keen :
    <>[](handler[c] = "streaming" /\ c \notin missed) => <>[](view[c] = device[Watched[c]])

=============================================================================
