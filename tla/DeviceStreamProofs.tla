------------------------- MODULE DeviceStreamProofs -------------------------
(***************************************************************************)
(* The device stream, for any number of clients, devices, changes and lost *)
(* watches, and any capacity of the channels: the hub and its handlers,    *)
(* and then what clients show.                                             *)
(***************************************************************************)
EXTENDS DeviceStream, FiniteSetTheorems, TLAPS

HubTyped ==
  /\ handler \in [Client -> {"off", "listed", "written", "streaming", "leaving"}]
  /\ registered \subseteq Client

HubInv == HubTyped /\ HubSound

(* Events change neither the subscribers nor where a handler stands.       *)
LEMMA EventsKeepHub ==
  ASSUME HubInv, UNCHANGED <<handler, registered, closed>>
  PROVE  HubInv'
BY DEF HubInv, HubTyped, HubSound

(* A handler enters the hub as its last step before streaming, with a new  *)
(* channel, and leaves it before its channel is closed.                    *)
LEMMA HandlerKeepsHub ==
  ASSUME HubInv, NEW c \in Client, streamDevices(c) \/ Leave(c) \/ Unsubscribe(c)
  PROVE  HubInv'
<1>1. CASE List(c) \/ WriteSnapshot(c) \/ WriteEvent(c) \/ Leave(c)
  BY <1>1 DEF HubInv, HubTyped, HubSound, List, WriteSnapshot, WriteEvent, Leave, Moves
<1>2. CASE Subscribe(c)
  BY <1>2 DEF HubInv, HubTyped, HubSound, Subscribe, Moves
<1>3. CASE Unsubscribe(c)
  BY <1>3 DEF HubInv, HubTyped, HubSound, Unsubscribe, Moves
<1> QED
  BY <1>1, <1>2, <1>3 DEF streamDevices

(* The hub never holds a closed channel, or one whose handler has gone: no *)
(* Publish sends on a closed channel, however clients come and go.         *)
THEOREM HubAlwaysSound == Spec => []HubSound
<1>1. Init => HubInv
  BY DEF Init, HubInv, HubTyped, HubSound
<1>2. HubInv /\ [Next]_vars => HubInv'
  <2> SUFFICES ASSUME HubInv, [Next]_vars PROVE HubInv'
    OBVIOUS
  <2>1. CASE (\E d \in Device : Change(d)) \/ LoseWatch \/ Deliver
    BY <2>1, EventsKeepHub DEF Change, LoseWatch, Deliver, clientVars
  <2>2. CASE \E c \in Client : streamDevices(c) \/ Leave(c) \/ Unsubscribe(c)
    BY <2>2, HandlerKeepsHub
  <2>3. CASE UNCHANGED vars
    BY <2>3, EventsKeepHub DEF vars, clientVars
  <2> QED
    BY <2>1, <2>2, <2>3 DEF Next
<1>3. HubInv => HubSound
  BY DEF HubInv
<1> QED
  BY <1>1, <1>2, <1>3, PTL DEF Spec

-----------------------------------------------------------------------------
(***************************************************************************)
(* What clients show.                                                      *)
(***************************************************************************)
Notice == [name : Device, obj : MaybeVersion, unseen : BOOLEAN]

Past == (1 .. changes) \cup {Absent}

StreamTyped ==
  /\ changes \in 0 .. MaxChanges
  /\ device \in [Device -> Past] /\ store \in [Device -> Past]
  /\ watch \in Seq(Notice) /\ \A i \in DOMAIN watch : watch[i].obj \in Past
  /\ handler \in [Client -> {"off", "listed", "written", "streaming", "leaving"}]
  /\ snapshot \in [Client -> [Device -> MaybeVersion]]
  /\ channel \in [Client -> Seq(Event)] /\ \A c \in Client : Len(channel[c]) <= Slots
  /\ view \in [Client -> MaybeVersion]
  /\ registered \subseteq Client /\ closed \subseteq Client /\ missed \subseteq Client

(* The latest undelivered event of a device is its state, and without one  *)
(* the informer's copy is.  States do not come back: once the informer has *)
(* the state, or an event of it, every later event is of that state too.   *)
Undelivered(d) == {i \in DOMAIN watch : watch[i].name = d}

Informed ==
  \A d \in Device :
    /\ Undelivered(d) = {} => store[d] = device[d]
    /\ \A i \in Undelivered(d) :
         (\A j \in Undelivered(d) : j <= i) => watch[i].obj = device[d]
    /\ device[d] # Absent =>
         /\ store[d] = device[d] => \A i \in Undelivered(d) : watch[i].obj = device[d]
         /\ \A i, j \in Undelivered(d) :
              i <= j /\ watch[i].obj = device[d] => watch[j].obj = device[d]

(* The informer has published the state of the device.                     *)
Known(d) == Undelivered(d) = {} \/ (device[d] # Absent /\ store[d] = device[d])

(* What a client will show once it has got all that is meant for it.       *)
Queued(c) == {i \in DOMAIN channel[c] : channel[c][i].name = Watched[c]}

Says(event) == IF event.type = "updated" THEN event.obj ELSE Absent

WillShow(c, v) ==
  /\ handler[c] = "listed" => snapshot[c][Watched[c]] = v
  /\ handler[c] = "written" => view[c] = v
  /\ handler[c] = "streaming" =>
       /\ Queued(c) = {} => view[c] = v
       /\ \A i \in Queued(c) : (\A j \in Queued(c) : j <= i) => Says(channel[c][i]) = v

Told == \A c \in Client \ missed : Known(Watched[c]) => WillShow(c, device[Watched[c]])

StreamInv == StreamTyped /\ HubSound /\ Informed /\ Told

LEMMA VersionsGrow ==
  ASSUME StreamTyped
  PROVE  Past \subseteq MaybeVersion
BY StreamAssumption DEF StreamTyped, Past, MaybeVersion, Version

LEMMA Appended ==
  ASSUME NEW X, NEW s \in Seq(X), NEW e \in X, NEW t, t = Append(s, e)
  PROVE  /\ t \in Seq(X) /\ Len(t) = Len(s) + 1 /\ Len(s) \in Nat
         /\ DOMAIN s = 1 .. Len(s) /\ DOMAIN t = 1 .. (Len(s) + 1)
         /\ \A i \in DOMAIN s : t[i] = s[i]
         /\ t[Len(s) + 1] = e
OBVIOUS

(* A device in a new state: it has an event, which is the last.            *)
LEMMA ChangeKeeps ==
  ASSUME StreamInv, NEW d \in Device, Change(d)
  PROVE  StreamInv'
<1> USE DEF StreamInv
<1>1. PICK obj \in {changes + 1, Absent} :
        /\ changes < MaxChanges /\ changes' = changes + 1
        /\ device' = [device EXCEPT ![d] = obj]
        /\ watch' = Append(watch, WatchEvent(d, obj, FALSE))
        /\ UNCHANGED <<store, losses, clientVars>>
  <2>1. PICK obj \in {changes + 1} \cup (IF device[d] = Absent THEN {} ELSE {Absent}) :
          /\ device' = [device EXCEPT ![d] = obj]
          /\ watch' = Append(watch, WatchEvent(d, obj, FALSE))
    BY DEF Change
  <2> QED
    BY <2>1 DEF Change
<1> DEFINE e == WatchEvent(d, obj, FALSE)
<1>2. /\ changes \in Nat /\ MaxChanges \in Nat /\ changes' \in 0 .. MaxChanges
      /\ obj \in Past' /\ Past \subseteq Past' /\ obj \in MaybeVersion
      /\ obj # Absent => obj \notin Past
  BY <1>1, StreamAssumption DEF StreamTyped, Past, MaybeVersion, Version
<1>3. e \in Notice /\ e.name = d /\ e.obj = obj /\ watch' = Append(watch, e)
  BY <1>1, <1>2 DEF Notice, WatchEvent
<1> HIDE DEF e
<1>4. /\ watch' \in Seq(Notice) /\ Len(watch') = Len(watch) + 1 /\ Len(watch) \in Nat
      /\ DOMAIN watch = 1 .. Len(watch) /\ DOMAIN watch' = 1 .. (Len(watch) + 1)
      /\ \A i \in DOMAIN watch : watch'[i] = watch[i]
      /\ watch'[Len(watch) + 1] = e
  <2>1. watch \in Seq(Notice)
    BY DEF StreamTyped
  <2> QED
    BY <1>3, <2>1, Appended
<1>5. StreamTyped'
  <2>1. ASSUME NEW i \in DOMAIN watch'
        PROVE  watch'[i].obj \in Past'
    <3>1. CASE i = Len(watch) + 1
      BY <1>2, <1>3, <1>4, <3>1
    <3>2. CASE i \in DOMAIN watch
      BY <1>2, <1>4, <3>2 DEF StreamTyped
    <3> QED
      BY <1>4, <3>1, <3>2
  <2>2. device' \in [Device -> Past'] /\ store' \in [Device -> Past']
    BY <1>1, <1>2 DEF StreamTyped
  <2> QED
    BY <1>1, <1>2, <1>4, <2>1, <2>2 DEF StreamTyped, clientVars
<1>6. HubSound'
  BY <1>1 DEF HubSound, clientVars
<1>7. \A x \in Device \ {d} :
        /\ Undelivered(x)' = Undelivered(x) /\ device'[x] = device[x]
        /\ \A i \in Undelivered(x) : watch'[i] = watch[i]
  <2> TAKE x \in Device \ {d}
  <2>1. device'[x] = device[x] /\ \A i \in Undelivered(x) : watch'[i] = watch[i]
    BY <1>1, <1>4 DEF StreamTyped, Undelivered
  <2>2. \A i : i \in Undelivered(x)' <=> i \in Undelivered(x)
    BY <1>3, <1>4 DEF Undelivered
  <2> QED
    BY <2>1, <2>2
<1>8. /\ Undelivered(d)' = Undelivered(d) \cup {Len(watch) + 1}
      /\ device'[d] = obj
  <2>1. \A i : i \in Undelivered(d)' <=> i \in Undelivered(d) \cup {Len(watch) + 1}
    BY <1>3, <1>4 DEF Undelivered
  <2> QED
    BY <1>1, <2>1 DEF StreamTyped
<1>9. Informed'
  <2> SUFFICES ASSUME NEW x \in Device
               PROVE  /\ Undelivered(x)' = {} => store'[x] = device'[x]
                      /\ \A i \in Undelivered(x)' :
                           (\A j \in Undelivered(x)' : j <= i) => watch'[i].obj = device'[x]
                      /\ device'[x] # Absent =>
                           /\ store'[x] = device'[x] =>
                                \A i \in Undelivered(x)' : watch'[i].obj = device'[x]
                           /\ \A i, j \in Undelivered(x)' :
                                i <= j /\ watch'[i].obj = device'[x] => watch'[j].obj = device'[x]
    BY DEF Informed
  <2>1. CASE x # d
    <3>1. /\ Undelivered(x)' = Undelivered(x) /\ device'[x] = device[x] /\ store'[x] = store[x]
          /\ \A i \in Undelivered(x) : watch'[i] = watch[i]
      BY <1>1, <1>7, <2>1
    <3>2. /\ Undelivered(x) = {} => store[x] = device[x]
          /\ \A i \in Undelivered(x) :
               (\A j \in Undelivered(x) : j <= i) => watch[i].obj = device[x]
          /\ device[x] # Absent =>
               /\ store[x] = device[x] => \A i \in Undelivered(x) : watch[i].obj = device[x]
               /\ \A i, j \in Undelivered(x) :
                    i <= j /\ watch[i].obj = device[x] => watch[j].obj = device[x]
      BY DEF Informed
    <3> QED
      BY <3>1, <3>2
  <2>2. CASE x = d
    <3>1. \A i \in Undelivered(d) : i \in DOMAIN watch /\ watch'[i].obj \in Past /\ i < Len(watch) + 1
      BY <1>4 DEF Undelivered, StreamTyped
    <3>2. store'[d] \in Past
      BY <1>1 DEF StreamTyped
    <3>3. watch'[Len(watch) + 1].obj = obj
      BY <1>3, <1>4
    <3>4. \A i \in Undelivered(d)' : watch'[i].obj = obj \/ i < Len(watch) + 1
      BY <1>8, <3>1, <3>3
    <3>5. obj # Absent => store'[d] # obj /\ \A i \in Undelivered(d) : watch'[i].obj # obj
      BY <1>2, <3>1, <3>2
    <3>6. \A i, j \in Undelivered(d)' : i <= j /\ i = Len(watch) + 1 => j = Len(watch) + 1
      BY <1>4, <1>8, <3>1 DEF Undelivered
    <3> QED
      BY <1>2, <1>4, <1>8, <2>2, <3>1, <3>3, <3>4, <3>5, <3>6
  <2> QED
    BY <2>1, <2>2
<1>10. Told'
  <2> SUFFICES ASSUME NEW c \in Client \ missed, Known(Watched[c])'
               PROVE  WillShow(c, device[Watched[c]])'
    BY <1>1 DEF Told, clientVars
  <2>1. Watched[c] \in Device
    BY StreamAssumption
  <2>2. Watched[c] # d
    <3>1. obj # Absent => store'[d] # obj
      BY <1>1, <1>2 DEF StreamTyped
    <3> QED
      BY <1>8, <2>1, <3>1 DEF Known
  <2>3. Known(Watched[c]) /\ device'[Watched[c]] = device[Watched[c]]
    BY <1>1, <1>7, <2>1, <2>2 DEF Known
  <2> QED
    BY <1>1, <2>3 DEF Told, WillShow, Queued, clientVars
<1> QED
  BY <1>5, <1>6, <1>9, <1>10

(* The informer lists again: an event for each device whose copy it finds  *)
(* changed, and none of any other state.                                   *)
LEMMA Relisted ==
  ASSUME StreamTyped, LoseWatch
  PROVE  /\ watch' \in Seq(Notice)
         /\ \A i \in DOMAIN watch' : watch'[i].name \in Device /\ watch'[i].obj = device[watch'[i].name]
         /\ \A d \in Device : device[d] # store[d] => Undelivered(d)' # {}
         /\ \A d \in Device :
              device[d] = store[d] /\ device[d] = Absent =>
                /\ Undelivered(d)' = {}
                /\ \A c \in Client : Watched[c] = d /\ handler[c] # "off" /\ Undelivered(d) # {} => c \in missed'
<1> DEFINE changed == {d \in Device : device[d] # store[d]}
           gone == {d \in Device \ changed : device[d] = Absent}
           E(d) == WatchEvent(d, device[d], device[d] = Absent)
<1>1. PICK same \in SUBSET (Device \ (changed \cup gone)) :
        watch' \in SetToSeqs({E(d) : d \in changed \cup same})
  BY DEF LoseWatch
<1> DEFINE S == {E(d) : d \in changed \cup same}
           N == Cardinality(S)
<1>2. IsFiniteSet(S) /\ N \in Nat
  <2>1. IsFiniteSet(changed \cup same)
    <3>1. IsFiniteSet(Device) /\ (changed \cup same) \in SUBSET Device
      BY StreamAssumption
    <3> HIDE DEF changed
    <3> QED
      BY <3>1, FS_Subset
  <2>2. IsFiniteSet(S)
    <3> DEFINE f == [d \in changed \cup same |-> E(d)]
    <3>1. f \in Surjection(changed \cup same, S)
      BY DEF Surjection
    <3> HIDE DEF f, S, changed
    <3> QED
      BY <2>1, <3>1, FS_Surjection
  <2> HIDE DEF S
  <2> QED
    BY <2>2, FS_CardinalityType
<1>3. watch' \in [1 .. N -> S] /\ \A i, j \in 1 .. N : i # j => watch'[i] # watch'[j]
  BY <1>1 DEF SetToSeqs
<1>4. \A x \in S : \E i \in 1 .. N : watch'[i] = x
  <2> HIDE DEF S
  <2>1. watch' \in Injection(1 .. N, S)
    BY <1>3 DEF Injection, IsInjective
  <2>2. Cardinality(1 .. N) = N
    <3>1. 0 \in Int /\ 1 \in Int /\ N \in Int
      BY <1>2
    <3> QED
      BY <1>2, <3>1, FS_Interval
  <2>3. watch' \in Surjection(1 .. N, S)
    BY <1>2, <2>1, <2>2, FS_Injection
  <2> QED
    BY <2>3 DEF Surjection
<1>5. \A d \in changed \cup same : E(d) \in S /\ E(d).name = d
  BY DEF WatchEvent
<1>6. \A x \in S : x \in Notice /\ x.name \in changed \cup same /\ x.obj = device[x.name]
  <2> SUFFICES ASSUME NEW d \in changed \cup same
               PROVE  /\ E(d) \in Notice /\ E(d).name \in changed \cup same
                      /\ E(d).obj = device[E(d).name]
    OBVIOUS
  <2>1. d \in Device /\ device[d] \in MaybeVersion
    BY VersionsGrow DEF StreamTyped
  <2> QED
    BY <2>1 DEF Notice, WatchEvent
<1>7. DOMAIN watch' = 1 .. N /\ \A i \in 1 .. N : watch'[i] \in S
  <2> HIDE DEF S
  <2> QED
    BY <1>3
<1>8. watch' \in Seq(Notice)
  <2>1. \A i \in 1 .. N : watch'[i] \in Notice
    BY <1>6, <1>7
  <2>2. watch' \in [1 .. N -> Notice]
    <3> HIDE DEF S
    <3> QED
      BY <1>3, <2>1
  <2>3. N \in Nat
    BY <1>2
  <2> HIDE DEF N
  <2> QED
    BY <2>2, <2>3
<1>9. ASSUME NEW d \in changed
      PROVE  Undelivered(d)' # {}
  <2>1. PICK i \in 1 .. N : watch'[i] = E(d)
    BY <1>4, <1>5
  <2> QED
    BY <1>5, <1>7, <2>1 DEF Undelivered
<1>10. ASSUME NEW d \in gone
       PROVE  /\ Undelivered(d)' = {}
              /\ \A c \in Client : Watched[c] = d /\ handler[c] # "off" /\ Undelivered(d) # {} => c \in missed'
  <2>1. \A i \in 1 .. N : watch'[i].name # d
    BY <1>6, <1>7
  <2>2. missed' = missed \cup {c \in Client : /\ handler[c] # "off"
                                             /\ Watched[c] \in gone
                                             /\ \E i \in DOMAIN watch : watch[i].name = Watched[c]}
    BY DEF LoseWatch
  <2> QED
    BY <1>7, <2>1, <2>2 DEF Undelivered
<1> QED
  BY <1>6, <1>7, <1>8, <1>9, <1>10

LEMMA LossKeeps ==
  ASSUME StreamInv, LoseWatch
  PROVE  StreamInv'
<1> USE DEF StreamInv
<1>1. /\ UNCHANGED <<device, store, changes, handler, snapshot, registered, channel, closed, view>>
      /\ missed \subseteq missed' /\ missed' \subseteq Client
  BY DEF LoseWatch, StreamTyped
<1>2. /\ watch' \in Seq(Notice)
      /\ \A i \in DOMAIN watch' : watch'[i].name \in Device /\ watch'[i].obj = device[watch'[i].name]
      /\ \A d \in Device : device[d] # store[d] => Undelivered(d)' # {}
      /\ \A d \in Device :
           device[d] = store[d] /\ device[d] = Absent =>
             /\ Undelivered(d)' = {}
             /\ \A c \in Client : Watched[c] = d /\ handler[c] # "off" /\ Undelivered(d) # {} => c \in missed'
  BY Relisted
<1>3. StreamTyped'
  <2>1. \A i \in DOMAIN watch' : watch'[i].obj \in Past'
    BY <1>1, <1>2 DEF StreamTyped, Past
  <2> QED
    BY <1>1, <1>2, <2>1 DEF StreamTyped, Past
<1>4. HubSound'
  BY <1>1 DEF HubSound
<1>5. Informed'
  <2>1. \A d \in Device : \A i \in Undelivered(d)' : watch'[i].obj = device'[d]
    BY <1>1, <1>2 DEF Undelivered
  <2> QED
    BY <1>1, <1>2, <2>1 DEF Informed
<1>6. Told'
  <2> SUFFICES ASSUME NEW c \in Client \ missed', Known(Watched[c])'
               PROVE  WillShow(c, device[Watched[c]])'
    BY <1>1 DEF Told
  <2>1. Watched[c] \in Device
    BY StreamAssumption
  <2>2. Known(Watched[c]) \/ handler[c] = "off"
    BY <1>1, <1>2, <2>1 DEF Known
  <2> QED
    BY <1>1, <2>2 DEF Told, WillShow, Queued
<1> QED
  BY <1>3, <1>4, <1>5, <1>6

-----------------------------------------------------------------------------
LEMMA EventTyped ==
  ASSUME NEW n \in Notice, Published(n) # <<>>
  PROVE  /\ Published(n)[1] \in Event /\ Published(n)[1].name = n.name
         /\ Says(Published(n)[1]) = n.obj
<1>1. n.name \in Device /\ n.obj \in MaybeVersion /\ n.unseen \in BOOLEAN
  BY DEF Notice
<1>2. CASE n.obj # Absent
  <2>1. Published(n)[1] = Updated(n.name, n.obj)
    BY <1>2 DEF Published
  <2> QED
    BY <1>1, <1>2, <2>1 DEF Updated, Event, Says, MaybeVersion
<1>3. CASE n.obj = Absent
  <2>1. Published(n)[1] = DeletedOf(n.name)
    BY <1>3 DEF Published
  <2> QED
    BY <1>1, <1>3, <2>1 DEF DeletedOf, Event, Says
<1> QED
  BY <1>2, <1>3

(* An event that reaches a client is the last in its channel.              *)
LEMMA QueuedNext ==
  ASSUME StreamTyped, NEW c \in Client, NEW event \in Event,
         channel'[c] = Append(channel[c], event)
  PROVE  /\ event.name # Watched[c] =>
              /\ Queued(c)' = Queued(c)
              /\ \A i \in Queued(c) : channel'[c][i] = channel[c][i]
         /\ event.name = Watched[c] =>
              /\ Queued(c)' # {}
              /\ \A i \in Queued(c)' :
                   (\A j \in Queued(c)' : j <= i) => channel'[c][i] = event
<1>1. channel[c] \in Seq(Event)
  BY DEF StreamTyped
<1> DEFINE l == Len(channel[c])
<1>2. /\ DOMAIN channel[c] = 1 .. l /\ DOMAIN channel'[c] = 1 .. (l + 1) /\ l \in Nat
      /\ \A i \in 1 .. l : channel'[c][i] = channel[c][i]
      /\ channel'[c][l + 1] = event
  BY <1>1, Appended
<1> HIDE DEF l
<1>3. ASSUME event.name # Watched[c]
      PROVE  /\ Queued(c)' = Queued(c)
             /\ \A i \in Queued(c) : channel'[c][i] = channel[c][i]
  <2>1. \A i : i \in Queued(c)' <=> i \in Queued(c)
    BY <1>2, <1>3 DEF Queued
  <2> QED
    BY <1>2, <2>1 DEF Queued
<1>4. ASSUME event.name = Watched[c]
      PROVE  /\ Queued(c)' # {}
             /\ \A i \in Queued(c)' :
                  (\A j \in Queued(c)' : j <= i) => channel'[c][i] = event
  <2>1. l + 1 \in Queued(c)'
    BY <1>2, <1>4 DEF Queued
  <2>2. \A i \in Queued(c)' : i \in 1 .. (l + 1)
    BY <1>2 DEF Queued
  <2>3. \A i \in 1 .. (l + 1) : l + 1 <= i => i = l + 1
    BY <1>2
  <2> QED
    BY <1>2, <2>1, <2>2, <2>3
<1> QED
  BY <1>3, <1>4

LEMMA HeadAndTail ==
  ASSUME NEW X, NEW s \in Seq(X), s # <<>>, NEW t, t = Tail(s)
  PROVE  /\ t \in Seq(X) /\ Head(s) \in X /\ Head(s) = s[1]
         /\ Len(s) \in Nat \ {0} /\ DOMAIN s = 1 .. Len(s) /\ DOMAIN t = 1 .. (Len(s) - 1)
         /\ \A i \in DOMAIN t : t[i] = s[i + 1]
OBVIOUS

(* The informer takes an event in.                                         *)
LEMMA TakenIn ==
  ASSUME StreamInv, Deliver
  PROVE  \E e \in Notice :
           /\ e = Head(watch) /\ e.obj \in Past
           /\ store' = [store EXCEPT ![e.name] = e.obj] /\ UNCHANGED <<device, changes>>
           /\ watch' \in Seq(Notice) /\ \A i \in DOMAIN watch' : watch'[i].obj \in Past
           /\ Informed'
           /\ \A d \in Device : Known(d)' => IF d = e.name THEN e.obj = device[d] ELSE Known(d)
<1> USE DEF StreamInv
<1> DEFINE e == Head(watch)
           l == Len(watch)
<1>1. /\ watch # <<>> /\ watch' = Tail(watch) /\ UNCHANGED <<device, changes>>
      /\ store' = [store EXCEPT ![e.name] = e.obj]
  BY DEF Deliver
<1>2. /\ watch' \in Seq(Notice) /\ e \in Notice /\ e = watch[1] /\ l \in Nat \ {0}
      /\ DOMAIN watch = 1 .. l /\ DOMAIN watch' = 1 .. (l - 1)
      /\ \A i \in DOMAIN watch' : watch'[i] = watch[i + 1]
  <2>1. watch \in Seq(Notice)
    BY DEF StreamTyped
  <2> QED
    BY <1>1, <2>1, HeadAndTail
<1> HIDE DEF e, l
<1>3. e.obj \in Past /\ \A i \in DOMAIN watch' : watch'[i].obj \in Past
  <2>1. \A i \in 1 .. l : watch[i].obj \in Past
    BY <1>2 DEF StreamTyped
  <2>2. 1 \in 1 .. l /\ \A i \in 1 .. (l - 1) : i + 1 \in 1 .. l
    BY <1>2
  <2> QED
    BY <1>2, <2>1, <2>2
<1>4. ASSUME NEW d \in Device
      PROVE  /\ \A i \in Undelivered(d)' : i + 1 \in Undelivered(d) /\ watch'[i] = watch[i + 1] /\ i \in Nat
             /\ \A i \in Undelivered(d) : i # 1 => i - 1 \in Undelivered(d)'
             /\ \A i \in Undelivered(d) : i \in Nat /\ 1 <= i
             /\ 1 \in Undelivered(d) <=> e.name = d
  BY <1>2 DEF Undelivered
<1>5. ASSUME NEW d \in Device
      PROVE  /\ Undelivered(d)' = {} => store'[d] = device'[d]
             /\ \A i \in Undelivered(d)' :
                  (\A j \in Undelivered(d)' : j <= i) => watch'[i].obj = device'[d]
             /\ device'[d] # Absent =>
                  /\ store'[d] = device'[d] => \A i \in Undelivered(d)' : watch'[i].obj = device'[d]
                  /\ \A i, j \in Undelivered(d)' :
                       i <= j /\ watch'[i].obj = device'[d] => watch'[j].obj = device'[d]
             /\ Known(d)' => IF d = e.name THEN e.obj = device[d] ELSE Known(d)
  <2>1. device'[d] = device[d] /\ store'[d] = IF d = e.name THEN e.obj ELSE store[d]
    BY <1>1, <1>2 DEF StreamTyped, Notice
  <2>2. /\ Undelivered(d) = {} => store[d] = device[d]
        /\ \A i \in Undelivered(d) :
             (\A j \in Undelivered(d) : j <= i) => watch[i].obj = device[d]
        /\ device[d] # Absent =>
             /\ store[d] = device[d] => \A i \in Undelivered(d) : watch[i].obj = device[d]
             /\ \A i, j \in Undelivered(d) :
                  i <= j /\ watch[i].obj = device[d] => watch[j].obj = device[d]
    BY DEF Informed
  <2>3. /\ \A i \in Undelivered(d)' : i + 1 \in Undelivered(d) /\ watch'[i] = watch[i + 1] /\ i \in Nat
        /\ \A i \in Undelivered(d) : i # 1 => i - 1 \in Undelivered(d)'
        /\ \A i \in Undelivered(d) : i \in Nat /\ 1 <= i
        /\ 1 \in Undelivered(d) <=> e.name = d
    BY <1>4
  <2>4. Undelivered(d)' = {} => IF d = e.name THEN e.obj = device[d] ELSE Undelivered(d) = {}
    <3>1. Undelivered(d)' = {} => \A i \in Undelivered(d) : i = 1
      BY <2>3
    <3> QED
      BY <1>2, <2>2, <2>3, <3>1
  <2>5. ASSUME NEW i \in Undelivered(d)', \A j \in Undelivered(d)' : j <= i
        PROVE  watch'[i].obj = device'[d]
    <3>1. ASSUME NEW j \in Undelivered(d)
          PROVE  j <= i + 1
      <4>1. j # 1 => j - 1 <= i
        BY <2>3, <2>5
      <4> QED
        BY <2>3, <4>1
    <3>2. watch[i + 1].obj = device[d]
      BY <2>2, <2>3, <3>1
    <3> QED
      BY <2>1, <2>3, <3>2
  <2>6. ASSUME device[d] # Absent
        PROVE  \A i, j \in Undelivered(d)' :
                 i <= j /\ watch'[i].obj = device'[d] => watch'[j].obj = device'[d]
    <3> TAKE i, j \in Undelivered(d)'
    <3>1. i <= j => i + 1 <= j + 1
      BY <2>3
    <3> QED
      BY <2>1, <2>2, <2>3, <2>6, <3>1
  <2>7. ASSUME device[d] # Absent, store'[d] = device[d], NEW i \in Undelivered(d)'
        PROVE  watch'[i].obj = device'[d]
    <3>1. CASE d = e.name
      <4>1. 1 \in Undelivered(d) /\ watch[1].obj = device[d] /\ 1 <= i + 1
        BY <1>2, <2>1, <2>3, <2>7, <3>1
      <4> QED
        BY <2>1, <2>2, <2>3, <2>7, <4>1
    <3>2. CASE d # e.name
      BY <2>1, <2>2, <2>3, <2>7, <3>2
    <3> QED
      BY <3>1, <3>2
  <2>8. Known(d)' => IF d = e.name THEN e.obj = device[d] ELSE Known(d)
    BY <2>1, <2>4 DEF Known
  <2> QED
    BY <2>1, <2>2, <2>4, <2>5, <2>6, <2>7, <2>8
<1>6. Informed'
  BY <1>5 DEF Informed
<1> QED
  BY <1>1, <1>2, <1>3, <1>5, <1>6 DEF e

LEMMA DeliverKeeps ==
  ASSUME StreamInv, Deliver
  PROVE  StreamInv'
<1> USE DEF StreamInv
<1>1. PICK e \in Notice :
           /\ e = Head(watch) /\ e.obj \in Past
           /\ store' = [store EXCEPT ![e.name] = e.obj] /\ UNCHANGED <<device, changes>>
           /\ watch' \in Seq(Notice) /\ \A i \in DOMAIN watch' : watch'[i].obj \in Past
           /\ Informed'
           /\ \A d \in Device : Known(d)' => IF d = e.name THEN e.obj = device[d] ELSE Known(d)
  BY TakenIn
<1>2. UNCHANGED <<handler, snapshot, registered, closed, view>> /\ HubSound'
  BY DEF Deliver, HubSound
<1>3. store' \in [Device -> Past] /\ Past' = Past
  BY <1>1 DEF StreamTyped, Notice, Past
<1>4. CASE Published(e) # <<>>
  <2> DEFINE event == Published(e)[1]
             takers == {c \in registered : Room(c)}
             about == {c \in Client : Watched[c] = e.name /\ handler[c] # "off"}
  <2>1. event \in Event /\ event.name = e.name /\ Says(event) = e.obj
    BY <1>4, EventTyped
  <2>2. /\ channel' = [c \in Client |-> IF c \in takers THEN Append(channel[c], event)
                                                        ELSE channel[c]]
        /\ missed' = (missed \ (about \cap takers)) \cup (about \ takers)
    <3>1. Publish(event)
      BY <1>1, <1>4 DEF Deliver
    <3> QED
      BY <2>1, <3>1 DEF Publish, Reaches
  <2> HIDE DEF event
  <2>3. ASSUME NEW c \in Client
        PROVE  channel'[c] \in Seq(Event) /\ Len(channel'[c]) <= Slots
    <3>1. channel[c] \in Seq(Event) /\ Len(channel[c]) <= Slots /\ Slots \in Nat
      BY StreamAssumption DEF StreamTyped
    <3>2. CASE c \in takers
      <4>1. channel'[c] = Append(channel[c], event) /\ Len(channel[c]) < Slots
        BY <2>2, <3>2 DEF Room
      <4> QED
        BY <2>1, <3>1, <4>1, Appended
    <3>3. CASE c \notin takers
      BY <2>2, <3>1, <3>3
    <3> QED
      BY <3>2, <3>3
  <2>4. StreamTyped'
    <3>1. channel' \in [Client -> Seq(Event)]
      BY <2>2, <2>3
    <3>2. missed' \subseteq Client
      BY <2>2 DEF StreamTyped
    <3> QED
      BY <1>1, <1>2, <1>3, <2>3, <3>1, <3>2 DEF StreamTyped
  <2>5. ASSUME NEW c \in Client \ missed', Known(Watched[c])'
        PROVE  WillShow(c, device[Watched[c]])'
    <3>1. Watched[c] \in Device /\ c \in Client
      BY StreamAssumption
    <3>2. CASE c \in takers
      <4>1. channel'[c] = Append(channel[c], event) /\ handler'[c] = "streaming"
        BY <1>2, <2>2, <3>2 DEF HubSound
      <4>2. /\ event.name # Watched[c] =>
                 /\ Queued(c)' = Queued(c)
                 /\ \A i \in Queued(c) : channel'[c][i] = channel[c][i]
            /\ event.name = Watched[c] =>
                 /\ Queued(c)' # {}
                 /\ \A i \in Queued(c)' :
                      (\A j \in Queued(c)' : j <= i) => channel'[c][i] = event
        BY <2>1, <4>1, QueuedNext
      <4>3. CASE Watched[c] = e.name
        BY <1>1, <2>1, <2>5, <3>1, <4>1, <4>2, <4>3 DEF WillShow
      <4>4. CASE Watched[c] # e.name
        <5>1. WillShow(c, device[Watched[c]])
          BY <1>1, <2>2, <2>5, <3>1, <4>4 DEF Told
        <5> QED
          BY <1>1, <1>2, <2>1, <4>1, <4>2, <4>4, <5>1 DEF WillShow
      <4> QED
        BY <4>3, <4>4
    <3>3. CASE c \notin takers
      <4>1. channel'[c] = channel[c] /\ (Watched[c] # e.name \/ handler[c] = "off")
        BY <2>2, <2>5, <3>1, <3>3
      <4>2. handler[c] # "off" => WillShow(c, device[Watched[c]])
        BY <1>1, <2>2, <2>5, <3>1, <4>1 DEF Told
      <4> QED
        BY <1>1, <1>2, <4>1, <4>2 DEF WillShow, Queued
    <3> QED
      BY <3>2, <3>3
  <2> QED
    BY <1>1, <1>2, <2>4, <2>5 DEF Told
<1>5. CASE Published(e) = <<>>
  <2>1. /\ UNCHANGED channel
        /\ missed' = missed \cup {c \in Client : Watched[c] = e.name /\ handler[c] # "off"}
    <3>1. e.unseen
      BY <1>1, <1>5 DEF Published, Notice
    <3> QED
      BY <1>1, <1>5, <3>1 DEF Deliver, Reaches
  <2>2. StreamTyped'
    BY <1>1, <1>2, <1>3, <2>1 DEF StreamTyped
  <2>3. ASSUME NEW c \in Client \ missed', Known(Watched[c])'
        PROVE  WillShow(c, device[Watched[c]])'
    <3>1. Watched[c] \in Device /\ (Watched[c] # e.name \/ handler[c] = "off") /\ c \notin missed
      BY <2>1, <2>3, StreamAssumption
    <3>2. handler[c] # "off" => WillShow(c, device[Watched[c]])
      BY <1>1, <2>3, <3>1 DEF Told
    <3> QED
      BY <1>1, <1>2, <2>1, <3>1, <3>2 DEF WillShow, Queued
  <2> QED
    BY <1>1, <1>2, <2>2, <2>3 DEF Told
<1> QED
  BY <1>4, <1>5

-----------------------------------------------------------------------------
LEMMA HandlerKeeps ==
  ASSUME StreamInv, NEW c \in Client, streamDevices(c) \/ Leave(c) \/ Unsubscribe(c)
  PROVE  StreamInv'
<1> USE DEF StreamInv
<1>1. UNCHANGED clusterVars /\ Past' = Past
  BY DEF streamDevices, List, WriteSnapshot, Subscribe, WriteEvent, Leave, Unsubscribe, Moves, Past,
     clusterVars
<1>2. Watched[c] \in Device
  BY StreamAssumption
<1>3. HubSound'
  <2>1. HubInv
    BY DEF StreamTyped, HubInv, HubTyped
  <2> QED
    BY <2>1, HandlerKeepsHub DEF HubInv
<1>4. Informed' /\ \A d : Known(d)' <=> Known(d)
  BY <1>1 DEF Informed, Known, Undelivered, clusterVars
<1>5. \A d \in Device : device[d] \in MaybeVersion
  BY VersionsGrow DEF StreamTyped
<1>6. [d \in Device |-> Absent] \in [Device -> MaybeVersion]
  BY DEF MaybeVersion
<1>7. CASE WriteEvent(c)
  <2>1. /\ handler[c] = "streaming" /\ handler' = handler /\ channel[c] # <<>>
        /\ view' = [view EXCEPT ![c] = Shown(c, Head(channel[c]))]
        /\ channel' = [channel EXCEPT ![c] = Tail(@)]
        /\ UNCHANGED <<snapshot, registered, closed, missed>>
    BY <1>7 DEF WriteEvent, Moves, StreamTyped
  <2> DEFINE s == channel[c]
             l == Len(s)
  <2>2. /\ channel'[c] \in Seq(Event) /\ Head(s) \in Event /\ Head(s) = s[1]
        /\ l \in Nat \ {0} /\ DOMAIN s = 1 .. l /\ DOMAIN channel'[c] = 1 .. (l - 1)
        /\ \A i \in DOMAIN channel'[c] : channel'[c][i] = s[i + 1]
    <3>1. s \in Seq(Event) /\ channel'[c] = Tail(s) /\ s # <<>>
      BY <2>1 DEF StreamTyped
    <3> HIDE DEF s
    <3> QED
      BY <3>1, HeadAndTail
  <2>3. Len(channel'[c]) <= Slots
    <3>1. Len(channel'[c]) \in Nat /\ DOMAIN channel'[c] = 1 .. Len(channel'[c])
      BY <2>2
    <3>2. Len(channel'[c]) = l - 1
      BY <2>2, <3>1
    <3>3. l <= Slots /\ Slots \in Nat
      BY StreamAssumption DEF StreamTyped
    <3> QED
      BY <2>2, <3>2, <3>3
  <2> HIDE DEF s, l
  <2>4. Shown(c, Head(s)) = IF Head(s).name = Watched[c] THEN Says(Head(s)) ELSE view[c]
    BY DEF Shown, Says
  <2>5. Says(Head(s)) \in MaybeVersion
    BY <2>2 DEF Says, Event, MaybeVersion
  <2>6. view' \in [Client -> MaybeVersion] /\ view'[c] = Shown(c, Head(s))
    BY <2>1, <2>4, <2>5 DEF StreamTyped, s
  <2>7. StreamTyped'
    <3>1. channel' \in [Client -> Seq(Event)] /\ \A k \in Client \ {c} : channel'[k] = channel[k]
      BY <2>1, <2>2 DEF StreamTyped
    <3> QED
      BY <1>1, <2>1, <2>3, <2>6, <3>1 DEF StreamTyped, clusterVars
  <2>8. ASSUME WillShow(c, device[Watched[c]])
        PROVE  WillShow(c, device[Watched[c]])'
    <3> DEFINE v == device[Watched[c]]
    <3>1. /\ \A i \in Queued(c)' : i + 1 \in Queued(c) /\ channel'[c][i] = s[i + 1] /\ i \in Nat
          /\ \A i \in Queued(c) : i # 1 => i - 1 \in Queued(c)'
          /\ \A i \in Queued(c) : i \in Nat /\ 1 <= i
          /\ 1 \in Queued(c) <=> Head(s).name = Watched[c]
      BY <2>2 DEF Queued, s
    <3>2. /\ Queued(c) = {} => view[c] = v
          /\ \A i \in Queued(c) : (\A j \in Queued(c) : j <= i) => Says(s[i]) = v
      BY <2>1, <2>8 DEF WillShow, s
    <3>3. Queued(c)' = {} => view'[c] = v
      <4>1. Queued(c)' = {} => \A i \in Queued(c) : i = 1
        BY <3>1
      <4>2. ASSUME Queued(c)' = {}, 1 \in Queued(c)
            PROVE  Says(s[1]) = v
        BY <3>1, <3>2, <4>1, <4>2
      <4>3. ASSUME Queued(c)' = {}, 1 \notin Queued(c)
            PROVE  view[c] = v
        BY <3>2, <4>1, <4>3
      <4> QED
        BY <2>2, <2>4, <2>6, <3>1, <4>2, <4>3
    <3>4. ASSUME NEW i \in Queued(c)', \A j \in Queued(c)' : j <= i
          PROVE  Says(channel'[c][i]) = v
      <4>1. ASSUME NEW j \in Queued(c)
            PROVE  j <= i + 1
        <5>1. j # 1 => j - 1 <= i
          BY <3>1, <3>4
        <5> QED
          BY <3>1, <5>1
      <4>2. i + 1 \in Queued(c) /\ channel'[c][i] = s[i + 1]
        BY <3>1
      <4> QED
        BY <3>2, <4>1, <4>2
    <3>5. v = v'
      BY <1>1 DEF clusterVars
    <3> QED
      BY <2>1, <3>3, <3>4, <3>5 DEF WillShow
  <2>9. Told'
    <3> SUFFICES ASSUME NEW k \in Client \ missed', Known(Watched[k])'
                 PROVE  WillShow(k, device[Watched[k]])'
      BY DEF Told
    <3>1. WillShow(k, device[Watched[k]])
      BY <1>4, <2>1 DEF Told
    <3>2. CASE k # c
      <4>1. channel'[k] = channel[k] /\ view'[k] = view[k]
        BY <2>1, <3>2 DEF StreamTyped
      <4> QED
        BY <1>1, <2>1, <3>1, <4>1 DEF WillShow, Queued, clusterVars
    <3> QED
      BY <2>8, <3>1, <3>2
  <2> QED
    BY <1>3, <1>4, <2>7, <2>9
<1>8. CASE List(c) \/ WriteSnapshot(c) \/ Subscribe(c) \/ Leave(c) \/ Unsubscribe(c)
  <2>1. StreamTyped'
    <3>1. /\ handler' \in [Client -> {"off", "listed", "written", "streaming", "leaving"}]
          /\ registered' \subseteq Client /\ closed' \subseteq Client /\ missed' \subseteq Client
      BY <1>8 DEF List, WriteSnapshot, Subscribe, Leave, Unsubscribe, Moves, Ended, StreamTyped
    <3>2. snapshot' \in [Client -> [Device -> MaybeVersion]]
      <4>1. device \in [Device -> MaybeVersion]
        BY <1>5 DEF StreamTyped
      <4> QED
        BY <1>6, <1>8, <4>1 DEF List, WriteSnapshot, Subscribe, Leave, Unsubscribe, Ended, StreamTyped
    <3>3. view' \in [Client -> MaybeVersion]
      <4>1. snapshot[c][Watched[c]] \in MaybeVersion /\ Absent \in MaybeVersion
        BY <1>2 DEF StreamTyped, MaybeVersion
      <4> QED
        BY <1>8, <4>1 DEF List, WriteSnapshot, Subscribe, Leave, Unsubscribe, Ended, StreamTyped
    <3>4. channel' \in [Client -> Seq(Event)] /\ \A k \in Client : Len(channel'[k]) <= Slots
      <4>1. channel' = channel \/ channel' = [channel EXCEPT ![c] = <<>>]
        BY <1>8 DEF List, WriteSnapshot, Subscribe, Leave, Unsubscribe
      <4>2. <<>> \in Seq(Event) /\ Len(<<>>) <= Slots
        BY StreamAssumption
      <4> QED
        BY <4>1, <4>2 DEF StreamTyped
    <3> QED
      BY <1>1, <3>1, <3>2, <3>3, <3>4 DEF StreamTyped, clusterVars
  <2>2. Told'
    <3> SUFFICES ASSUME NEW k \in Client \ missed', Known(Watched[k])'
                 PROVE  WillShow(k, device[Watched[k]])'
      BY DEF Told
    <3>1. Known(Watched[k]) /\ device' = device
      BY <1>1, <1>4 DEF clusterVars
    <3>2. CASE k # c
      <4>1. /\ handler'[k] = handler[k] /\ snapshot'[k] = snapshot[k] /\ view'[k] = view[k]
            /\ channel'[k] = channel[k] /\ k \notin missed
        BY <1>8, <3>2 DEF List, WriteSnapshot, Subscribe, Leave, Unsubscribe, Moves, Ended, StreamTyped
      <4> QED
        BY <3>1, <4>1 DEF Told, WillShow, Queued
    <3>3. CASE k = c
      <4>1. CASE List(c)
        BY <3>1, <3>3, <4>1 DEF List, Moves, WillShow, StreamTyped
      <4>2. CASE WriteSnapshot(c)
        <5>1. snapshot[c][Watched[c]] = device[Watched[c]]
          BY <3>1, <3>3, <4>2 DEF WriteSnapshot, Moves, Told, WillShow
        <5> QED
          BY <3>1, <3>3, <4>2, <5>1 DEF WriteSnapshot, Moves, WillShow, StreamTyped
      <4>3. CASE Subscribe(c)
        <5>1. view[c] = device[Watched[c]]
          BY <3>1, <3>3, <4>3 DEF Subscribe, Moves, Told, WillShow
        <5>2. channel'[c] = <<>> /\ view' = view /\ handler'[c] = "streaming"
          BY <4>3 DEF Subscribe, Moves, StreamTyped
        <5>3. Queued(c)' = {}
          BY <5>2 DEF Queued
        <5> QED
          BY <3>1, <3>3, <5>1, <5>2, <5>3 DEF WillShow
      <4>4. CASE Leave(c) \/ Unsubscribe(c)
        <5>1. handler'[c] \in {"off", "leaving"}
          BY <4>4 DEF Leave, Unsubscribe, Moves, StreamTyped
        <5> QED
          BY <3>3, <5>1 DEF WillShow
      <4> QED
        BY <1>8, <4>1, <4>2, <4>3, <4>4
    <3> QED
      BY <3>2, <3>3
  <2> QED
    BY <1>3, <1>4, <2>1, <2>2
<1> QED
  BY <1>7, <1>8 DEF streamDevices

LEMMA StreamInitially ==
  ASSUME Init
  PROVE  StreamInv
<1>1. /\ device = [d \in Device |-> Absent] /\ store = device /\ watch = <<>> /\ changes = 0
      /\ handler = [c \in Client |-> "off"] /\ snapshot = [c \in Client |-> device]
      /\ channel = [c \in Client |-> <<>>] /\ view = [c \in Client |-> Absent]
      /\ registered = {} /\ closed = {} /\ missed = {}
  BY DEF Init
<1>2. watch \in Seq(Notice) /\ DOMAIN watch = {} /\ <<>> \in Seq(Event) /\ Len(<<>>) = 0
  BY <1>1
<1>3. StreamTyped
  BY <1>1, <1>2, StreamAssumption DEF StreamTyped, Past, MaybeVersion
<1>4. HubSound /\ Informed /\ Told
  BY <1>1, <1>2 DEF HubSound, Informed, Undelivered, Told, WillShow
<1> QED
  BY <1>3, <1>4 DEF StreamInv

LEMMA StreamHolds == Spec => []StreamInv
<1>1. Init => StreamInv
  BY StreamInitially
<1>2. StreamInv /\ [Next]_vars => StreamInv'
  <2> SUFFICES ASSUME StreamInv, [Next]_vars
               PROVE  StreamInv'
    OBVIOUS
  <2>1. CASE Next
    BY <2>1, ChangeKeeps, LossKeeps, DeliverKeeps, HandlerKeeps DEF Next
  <2>2. CASE UNCHANGED vars
    BY <2>2 DEF vars, clusterVars, clientVars, StreamInv, StreamTyped, Past, HubSound, Informed,
       Undelivered, Told, Known, WillShow, Queued
  <2> QED
    BY <2>1, <2>2
<1> QED
  BY <1>1, <1>2, PTL DEF Spec

(* The copies, events, channels and views hold devices' states only, and   *)
(* no channel more than its capacity, however the watch is lost.           *)
THEOREM StreamTypes == Spec => []TypeOK
<1>1. StreamInv => TypeOK
  <2> SUFFICES ASSUME StreamTyped
               PROVE  TypeOK
    BY DEF StreamInv
  <2>1. device \in [Device -> MaybeVersion] /\ store \in [Device -> MaybeVersion]
    BY VersionsGrow DEF StreamTyped
  <2>2. \A i \in DOMAIN watch : watch[i] \in [name : Device, obj : MaybeVersion, unseen : BOOLEAN]
    <3>1. \A i \in DOMAIN watch : watch[i] \in Notice
      BY DEF StreamTyped
    <3> QED
      BY <3>1 DEF Notice
  <2>3. \A c \in Client : \A i \in DOMAIN channel[c] : channel[c][i] \in Event
    BY DEF StreamTyped
  <2> QED
    BY <2>1, <2>2, <2>3 DEF StreamTyped, TypeOK
<1> QED
  BY <1>1, StreamHolds, PTL

(* When everything is delivered and written, a connected client shows the  *)
(* state of its device unless the latest event about it was dropped: what  *)
(* Publish or a lost watch loses is made up for by the next event.         *)
THEOREM LatestEventAlwaysMends == Spec => []LatestEventMends
<1>1. StreamInv => LatestEventMends
  <2> SUFFICES ASSUME StreamInv, NEW c \in Client, Settled(c), c \notin missed
               PROVE  view[c] = device[Watched[c]]
    BY DEF LatestEventMends
  <2>1. Undelivered(Watched[c]) = {} /\ Queued(c) = {} /\ handler[c] = "streaming"
    BY DEF Settled, Undelivered, Queued
  <2> QED
    BY <2>1 DEF StreamInv, Told, Known, WillShow
<1> QED
  BY <1>1, StreamHolds, PTL

=============================================================================
