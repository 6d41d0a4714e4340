-------------------------- MODULE SimulatorServer --------------------------
(***************************************************************************)
(* The simulator of a Z21: one thread that reads LAN packets and handles   *)
(* the messages of each in turn, and the threads of the gRPC control       *)
(* plane, which change the same track power and CAN registry.  Only single *)
(* reads and writes are under the lock: a change and its announcement are  *)
(* separate steps, and so are the messages of an announcement, the list of *)
(* its recipients, and each datagram sent.                                 *)
(*                                                                         *)
(* A thread that announces has a job; the LAN thread also has the packet   *)
(* it is handling, whose replies are written together at its end.          *)
(***************************************************************************)
EXTENDS SimulatorCAN, FiniteSets, SequencesExt

CONSTANTS
  Client,    \* LAN addresses clients speak from
  Caller,    \* threads for gRPC calls
  Lan,       \* the thread that serves UDP
  Power      \* the track power, as a topic of announcements

ASSUME ServerAssumption ==
  /\ Lan \notin Caller
  /\ Power \notin NetID /\ Absent \notin Client \cup Caller \cup BOOLEAN \cup CANDevice

VARIABLES
  up,          \* the simulator's process is running
  session,     \* broadcast flags by client, Absent without a session
  trackPower,
  canDevices,
  job,         \* what each thread is announcing
  packet,      \* the packet the LAN thread is handling
  heard,       \* history: what each client was last told of each topic
  due,         \* history: clients not yet told of the last change of power
  blurred,     \* history: topics whose last change overlapped an announcement
  polled       \* history: clients that have polled since they subscribed

serverVars  == <<up, session, trackPower, canDevices, job, packet>>
historyVars == <<heard, due, blurred, polled>>
simVars     == <<serverVars, historyVars>>

Thread == Caller \cup {Lan}
Topic  == NetID \cup {Power}

XpressNet   == "XpressNet"
SystemState == "SystemState"
CANDetector == "CANDetector"
CANBooster  == "CANBooster"
Flag        == {XpressNet, SystemState, CANDetector, CANBooster}

ASSUME SessionAssumption == \A flags \in SUBSET Flag : flags # Absent

(* The messages of a packet that do more than ask for a constant.          *)
LanMessage ==
  [op : {"flags"}, flags : SUBSET Flag] \cup [op : {"logoff", "status", "poll"}]
  \cup [op : {"power"}, on : BOOLEAN] \cup [op : {"describe"}, net : NetID]
  \cup [op : {"address"}, net : NetID, addr : Nat]
  \cup [op : {"booster"}, net : NetID, on : BOOLEAN]

(* What a message tells of a topic.  A datagram of the XpressNet broadcast *)
(* holds LAN_X_BC_TRACK_POWER and then the status, whose word is the last. *)
Fact(x, value) == [about |-> x, says |-> value]
NoFact == Fact(Power, Absent)

Idle == [stage |-> "idle", fact |-> NoFact, flag |-> XpressNet, except |-> Absent, to |-> {}]

NoPacket == [from |-> Absent, todo |-> <<>>, replies |-> <<>>, orphan |-> FALSE, polls |-> FALSE]

AllSilent == [x \in Topic |-> Absent]

ServerInit ==
  /\ session = [c \in Client |-> Absent]
  /\ trackPower = TRUE
  /\ canDevices = [n \in NetID |-> Absent]
  /\ job = [t \in Thread |-> Idle]
  /\ packet = NoPacket
  /\ heard = [c \in Client |-> AllSilent]
  /\ due = {} /\ blurred = {} /\ polled = {}

-----------------------------------------------------------------------------
(***************************************************************************)
(* The history of what clients know.                                       *)
(***************************************************************************)
Has(c, flag) == session[c] # Absent /\ flag \in session[c]

Listens(c, x) ==
  IF x = Power THEN Has(c, XpressNet) \/ Has(c, SystemState)
  ELSE \/ Has(c, CANDetector) /\ IsKind(canDevices[x], Detector)
       \/ Has(c, CANBooster) /\ IsKind(canDevices[x], Booster)

Holds(t, x) == job[t].stage \in {"list", "send"} /\ job[t].fact.about = x

(* Another thread still has something to say of x that it read before.     *)
Overlaps(t, x) ==
  \/ \E u \in Thread \ {t} : Holds(u, x)
  \/ t # Lan /\ \E i \in DOMAIN packet.replies : packet.replies[i].about = x

Changes(t, x) == blurred' = IF Overlaps(t, x) THEN blurred \cup {x} ELSE blurred \ {x}

About(facts, x) == {i \in DOMAIN facts : facts[i].about = x}

LastOf(facts, x) == facts[CHOOSE i \in About(facts, x) : \A j \in About(facts, x) : j <= i].says

Hears(c, facts) ==
  /\ heard' = [heard EXCEPT ![c] =
                 [x \in Topic |-> IF About(facts, x) # {} THEN LastOf(facts, x) ELSE @[x]]]
  /\ due' = IF \E i \in About(facts, Power) : facts[i].says = trackPower THEN due \ {c} ELSE due

(* A client that loses a datagram no longer knows what it told.            *)
Misses(c, facts) ==
  /\ heard' = [heard EXCEPT ![c] = [x \in Topic |-> IF About(facts, x) # {} THEN Absent ELSE @[x]]]
  /\ due' = IF About(facts, Power) # {} THEN due \ {c} ELSE due

-----------------------------------------------------------------------------
(***************************************************************************)
(* Announcements.                                                          *)
(***************************************************************************)
Announces(t, stage, fact, flag, except) ==
  job' = [job EXCEPT ![t] = [Idle EXCEPT !.stage = stage, !.fact = fact,
                                         !.flag = flag, !.except = except]]

(* setTrackPower and the start of notifyTrackPowerChange: the new power is *)
(* set first, and what is announced is read afterwards.                    *)
setTrackPower(t, on, except) ==
  /\ trackPower # on
  /\ trackPower' = on
  /\ Announces(t, "status", NoFact, XpressNet, except)
  /\ due' = {c \in Client : Listens(c, Power)}
  /\ Changes(t, Power)

(* notifyTrackPowerChange: the message for XpressNet subscribers.          *)
xStatusReply(t) ==
  /\ job[t].stage = "status"
  /\ Announces(t, "list", Fact(Power, trackPower), XpressNet, job[t].except)

(* The message for system-state subscribers, of a change or on its own.    *)
systemStateReply(t) ==
  /\ job[t].stage = "system"
  /\ Announces(t, "list", Fact(Power, trackPower), SystemState, Absent)

(* After its last datagram the XpressNet half of a change is followed by   *)
(* the system-state half.                                                  *)
Continues(t, to) ==
  job' = [job EXCEPT ![t] =
            IF to # {} THEN [@ EXCEPT !.stage = "send", !.to = to]
            ELSE IF job[t].flag = XpressNet THEN [Idle EXCEPT !.stage = "system"]
            ELSE Idle]

SubscriberAddrsExact(t) ==    \* mutant: compares the flags instead of masking them
  /\ job[t].stage = "list"
  /\ Continues(t, {c \in Client : session[c] = {job[t].flag} /\ c # job[t].except})

subscriberAddrs(t) ==
  /\ job[t].stage = "list"
  /\ Continues(t, {c \in Client : Has(c, job[t].flag) /\ c # job[t].except})

AnnouncementStep(t) ==
  /\ xStatusReply(t) \/ systemStateReply(t) \/ subscriberAddrs(t)
  /\ UNCHANGED <<up, session, trackPower, canDevices, packet, historyVars>>

(* sendUDP to one recipient; the datagram arrives at once or is lost.      *)
sendUDP(t, c) ==
  /\ job[t].stage = "send" /\ c \in job[t].to
  /\ Continues(t, job[t].to \ {c})
  /\ Hears(c, <<job[t].fact>>)
  /\ UNCHANGED <<up, session, trackPower, canDevices, packet, blurred, polled>>

DatagramLost(t, c) ==
  /\ job[t].stage = "send" /\ c \in job[t].to
  /\ Continues(t, job[t].to \ {c})
  /\ Misses(c, <<job[t].fact>>)
  /\ polled' = polled \ {c}
  /\ packet' = [packet EXCEPT !.polls = @ /\ packet.from # c]
  /\ UNCHANGED <<up, session, trackPower, canDevices, blurred>>

ThreadStep(t) == AnnouncementStep(t) \/ \E c \in Client : sendUDP(t, c)

-----------------------------------------------------------------------------
(***************************************************************************)
(* The LAN thread: Serve and handlePacket.                                 *)
(***************************************************************************)
Receive(c, msgs) ==
  /\ up
  /\ packet = NoPacket
  /\ packet' = [NoPacket EXCEPT !.from = c, !.todo = msgs]
  /\ session' = [session EXCEPT ![c] = IF @ = Absent THEN {} ELSE @]
  /\ UNCHANGED <<up, trackPower, canDevices, job, historyVars>>

Message == Head(packet.todo)

Asked(op) == packet.todo # <<>> /\ job[Lan] = Idle /\ Message.op = op

Answers(facts) == packet' = [packet EXCEPT !.todo = Tail(@), !.replies = @ \o facts]

(* A client starts to know of a topic when it starts to listen to it; one  *)
(* that drops a flag of the track power may miss the message under way     *)
(* that it would have had, even if it listens for the other message now.   *)
FlagsChange(c, flags) ==
  LET drops == \E flag \in {XpressNet, SystemState} : Has(c, flag) /\ flag \notin flags
      Renewed(x) == ~Listens(c, x) \/ (x = Power /\ drops)
  IN  /\ due' = IF drops THEN due \ {c} ELSE due
      /\ heard' = [heard EXCEPT ![c] = [x \in Topic |-> IF Renewed(x) THEN Absent ELSE @[x]]]
      /\ polled' = IF CANDetector \in flags THEN polled ELSE polled \ {c}

(* The session was looked up when the packet came: after a log off in the  *)
(* same packet the flags go to an object nobody else sees.                 *)
SetBroadcastFlags ==
  /\ Asked("flags")
  /\ packet' = [packet EXCEPT !.todo = Tail(@), !.polls = @ /\ CANDetector \in Message.flags]
  /\ IF packet.orphan THEN UNCHANGED <<session, historyVars>>
     ELSE /\ session' = [session EXCEPT ![packet.from] = Message.flags]
          /\ FlagsChange(packet.from, Message.flags)
          /\ UNCHANGED blurred
  /\ UNCHANGED <<up, trackPower, canDevices, job>>

removeClient ==
  /\ Asked("logoff")
  /\ packet' = [packet EXCEPT !.todo = Tail(@), !.orphan = TRUE, !.polls = FALSE]
  /\ session' = [session EXCEPT ![packet.from] = Absent]
  /\ FlagsChange(packet.from, {})
  /\ UNCHANGED <<up, trackPower, canDevices, job, blurred>>

(* X_GET_STATUS and SYSTEMSTATE_GETDATA                                    *)
GetStatus ==
  /\ Asked("status")
  /\ Answers(<<Fact(Power, trackPower)>>)
  /\ UNCHANGED <<up, session, trackPower, canDevices, job, historyVars>>

(* A change is announced to all but the one who asked, before the next     *)
(* message is looked at; a command that changes nothing is only answered.  *)
handleLANX ==
  /\ Asked("power")
  /\ Answers(<<Fact(Power, Message.on)>>)
  /\ \/ setTrackPower(Lan, Message.on, packet.from)
     \/ trackPower = Message.on /\ UNCHANGED <<trackPower, job, due, blurred>>
  /\ UNCHANGED <<up, session, canDevices, heard, polled>>

Reports(devices) == SetToSeq({Fact(n, canDevices[n]) : n \in devices})

handleCANDetectorPoll ==
  /\ Asked("poll")
  /\ packet' = [packet EXCEPT !.todo = Tail(@),
                              !.replies = @ \o Reports(detectorDevices(canDevices)),
                              !.polls = ~packet.orphan /\ Has(packet.from, CANDetector)]
  /\ UNCHANGED <<up, session, trackPower, canDevices, job, historyVars>>

(* A change of the registry that nobody is told of.                        *)
RegistryChange(devices) ==
  /\ Answers(<<>>)
  /\ canDevices' = devices
  /\ blurred' = blurred \cup {n \in NetID : devices[n] # canDevices[n]}

handleCANDeviceSetDescription ==
  Asked("describe") /\ RegistryChange(SetDescription(canDevices, Message.net))

handleCANMaintenance ==
  Asked("address") /\ RegistryChange(SetModuleAddress(canDevices, Message.net, Message.addr))

(* A booster's new state goes back to the one who asked, and to no other.  *)
handleCANBoosterSetTrackPower ==
  /\ Asked("booster")
  /\ LET n == Message.net
         devices == BoosterSetTrackPower(canDevices, n, Message.on)
     IN  /\ canDevices' = devices
         /\ Answers(IF IsKind(devices[n], Booster) THEN <<Fact(n, devices[n])>> ELSE <<>>)
         /\ blurred' = IF devices[n] # canDevices[n] THEN blurred \cup {n} ELSE blurred

handleCAN ==
  /\ handleCANDeviceSetDescription \/ handleCANMaintenance \/ handleCANBoosterSetTrackPower
  /\ UNCHANGED <<up, session, trackPower, job, heard, due, polled>>

PacketDone == packet # NoPacket /\ packet.todo = <<>> /\ job[Lan] = Idle

writeMessages ==
  /\ PacketDone
  /\ packet' = NoPacket
  /\ Hears(packet.from, packet.replies)
  /\ polled' = IF packet.polls /\ Has(packet.from, CANDetector) THEN polled \cup {packet.from} ELSE polled
  /\ UNCHANGED <<up, session, trackPower, canDevices, job, blurred>>

RepliesLost ==
  /\ PacketDone /\ packet.replies # <<>>
  /\ packet' = NoPacket
  /\ Misses(packet.from, packet.replies)
  /\ polled' = polled \ {packet.from}
  /\ UNCHANGED <<up, session, trackPower, canDevices, job, blurred>>

handlePacket ==
  \/ SetBroadcastFlags \/ removeClient \/ GetStatus \/ handleLANX
  \/ handleCANDetectorPoll \/ handleCAN \/ writeMessages

-----------------------------------------------------------------------------
(***************************************************************************)
(* The control plane.  A call takes an idle thread; they are all alike, so *)
(* it does not matter which.                                               *)
(***************************************************************************)
Free(t) == up /\ job[t] = Idle /\ t = CHOOSE u \in Caller : job[u] = Idle

SetTrackPowerAndNotify(t, on) ==
  /\ Free(t)
  /\ setTrackPower(t, on, Absent)
  /\ UNCHANGED <<up, session, canDevices, packet, heard, polled>>

BroadcastSystemState(t) ==
  /\ Free(t)
  /\ Announces(t, "system", NoFact, SystemState, Absent)
  /\ UNCHANGED <<up, session, trackPower, canDevices, packet, historyVars>>

KindFlag(device) == IF device.kind = Detector THEN CANDetector ELSE CANBooster

AnnounceNew(t, n, device) ==  \* mutant: what replaces a known device is not announced
  /\ Free(t)
  /\ canDevices' = RegisterCANDevice(canDevices, n, device)
  /\ IF canDevices[n] = Absent THEN Announces(t, "list", Fact(n, device), KindFlag(device), Absent)
     ELSE UNCHANGED job
  /\ Changes(t, n)
  /\ UNCHANGED <<up, session, trackPower, packet, heard, due, polled>>

(* The device is registered first; what is announced is the call's copy.   *)
NotifyCANDeviceDetected(t, n, device) ==
  /\ Free(t)
  /\ canDevices' = RegisterCANDevice(canDevices, n, device)
  /\ Announces(t, "list", Fact(n, device), KindFlag(device), Absent)
  /\ Changes(t, n)
  /\ UNCHANGED <<up, session, trackPower, packet, heard, due, polled>>

-----------------------------------------------------------------------------
(* The process ends, whatever it is doing, and starts again with nothing.  *)
Stop ==
  /\ up
  /\ up' = FALSE
  /\ session' = [c \in Client |-> Absent]
  /\ trackPower' = TRUE
  /\ canDevices' = [n \in NetID |-> Absent]
  /\ job' = [t \in Thread |-> Idle]
  /\ packet' = NoPacket
  /\ due' = {} /\ blurred' = {} /\ polled' = {}
  /\ UNCHANGED heard

Start == ~up /\ up' = TRUE /\ UNCHANGED <<session, trackPower, canDevices, job, packet, historyVars>>

-----------------------------------------------------------------------------
(* Nobody is announcing anything, and no packet is being handled.          *)
Settled == packet = NoPacket /\ \A t \in Thread : job[t] = Idle

(* Whoever subscribed to the power before it changed has been told the new *)
(* power once all is announced, however changes from the LAN and from gRPC *)
(* interleave: the one who asked by the answer, the others by the message. *)
EveryChangeAnnounced == Settled => due = {}

World(x) == IF x = Power THEN trackPower ELSE canDevices[x]

(* The last thing a subscriber was told of the power or of a CAN device is *)
(* what holds, unless its last change overlapped the announcement of an    *)
(* earlier one, or was one that the simulator announces to nobody; and the *)
(* next change that overlaps none makes it true again.                     *)
LastWordIsCurrent ==
  Settled => \A c \in Client : \A x \in Topic \ blurred :
    Listens(c, x) => heard[c][x] \in {Absent, World(x)}

(* A client that subscribed and then polled has heard of every detector,   *)
(* except one that is being announced: none falls between the poll's       *)
(* answer and the announcement.  What it heard is that this is a detector, *)
(* unless an older announcement of the net ID was under way.               *)
NoDetectorMissed ==
  \A c \in polled : \A n \in detectorDevices(canDevices) :
    (\A t \in Thread : ~Holds(t, n)) =>
      heard[c][n] # Absent /\ (n \notin blurred => IsKind(heard[c][n], Detector))

=============================================================================
