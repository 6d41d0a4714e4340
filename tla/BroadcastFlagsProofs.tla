------------------------ MODULE BroadcastFlagsProofs ------------------------
(***************************************************************************)
(* What the session and the Z21 are told, for any number of requests,      *)
(* restarts, lost connections and datagrams.  First the way from the       *)
(* session to the Z21: a property of a bridged Z21 alone is                *)
(* not inductive: what the handshake read, and what a handler is about to  *)
(* send, must be the session's flags too.                                  *)
(***************************************************************************)
EXTENDS BroadcastFlags, TLAPS

Steps == {"off", "read", "dialing", "attached", "asking", "told", "bridged"}

Records ==
  /\ gateway = [step |-> gateway.step, asked |-> gateway.asked]
  /\ \/ command = [step |-> "idle"]
     \/ command = [step |-> "set"]
     \/ /\ command = [step |-> "send", flags |-> command.flags, attached |-> command.attached]
        /\ command.attached \in BOOLEAN
  /\ doubtful \in BOOLEAN

(* What a handler will still do to the current connection.                 *)
UnderWay ==
  command.step = "set" \/ (command.step = "send" /\ command.attached = TRUE)

Mending ==
  /\ Records
  /\ At("off") => command.step = "idle" /\ control = <<>>
  /\ command.step = "send" /\ command.attached = TRUE => command.flags = session
  /\ At("asking") /\ doubtful = FALSE => gateway.asked = session
  /\ At("told") \/ At("bridged") => doubtful = TRUE \/ station = session \/ UnderWay

(***************************************************************************)
(* One lemma per process: the API server touches none of it, Run and the   *)
(* handler are the two that meet in the handshake.                         *)
(***************************************************************************)
(* Whatever leaves the gateway's variables alone keeps Mending.            *)
LEMMA ApiKeepsMending ==
  ASSUME Mending, UNCHANGED gatewayVars, UNCHANGED control \/ Subscribed
  PROVE  Mending'
BY DEF Mending, Records, UnderWay, At, gatewayVars, Subscribed

(* Every step of Run keeps Mending: a connection starts out not doubtful,  *)
(* and the handshake sends what it read.                                   *)
LEMMA RunKeepsMending ==
  ASSUME Mending, Run, UNCHANGED control
  PROVE  Mending'
<1>1. CASE ReadFlags
  BY <1>1 DEF Mending, Records, UnderWay, At, Goto, ReadFlags
<1>2. CASE SubscribeControl
  BY <1>2 DEF Mending, Records, UnderWay, At, Goto, SubscribeControl
<1>3. CASE Attach
  BY <1>3 DEF Mending, Records, UnderWay, At, Goto, Attach
<1>4. CASE Handshake
  BY <1>4 DEF Mending, Records, UnderWay, At, Handshake
<1>5. CASE SetBroadcastFlags
  BY <1>5 DEF Mending, Records, UnderWay, At, Goto, SetBroadcastFlags
<1>6. CASE SystemState
  BY <1>6 DEF Mending, Records, UnderWay, At, SystemState
<1> QED
  BY <1>1, <1>2, <1>3, <1>4, <1>5, <1>6 DEF Run

(* Every step of the handler keeps Mending: it sends the session's flags,  *)
(* and a command that changes them during the handshake is noted.          *)
LEMMA HandlerKeepsMending ==
  ASSUME Mending, handleControlMessage
  PROVE  Mending'
<1>1. CASE SetFlags
  BY <1>1 DEF Mending, Records, UnderWay, At, SetFlags, Waiting
<1>2. CASE ReadClient
  BY <1>2 DEF Mending, Records, UnderWay, At, ReadClient, Connected, Waiting
<1>3. CASE Send
  BY <1>3 DEF Mending, Records, UnderWay, At, Send, Waiting
<1> QED
  BY <1>1, <1>2, <1>3 DEF handleControlMessage

(* Lost datagrams, lost connections and restarts keep Mending.             *)
LEMMA FaultKeepsMending ==
  ASSUME Mending,
         \/ (SetLost \/ Detach) /\ UNCHANGED control
         \/ SendLost \/ RestartGateway
  PROVE  Mending'
<1>1. CASE SetLost
  BY <1>1 DEF Mending, Records, UnderWay, At, Goto, SetLost
<1>2. CASE SendLost
  <2>1. CASE command.attached = TRUE
    BY <1>2, <2>1 DEF Mending, Records, UnderWay, At, SendLost, Waiting
  <2>2. CASE command.attached = FALSE
    BY <1>2, <2>2 DEF Mending, Records, UnderWay, At, SendLost, Waiting
  <2>3. command.attached \in BOOLEAN
    BY <1>2 DEF Mending, Records, SendLost
  <2>4. command.attached = TRUE \/ command.attached = FALSE
    BY <2>3, Zenon
  <2> QED
    BY <2>1, <2>2, <2>4, Zenon
<1>3. CASE Detach
  BY <1>3 DEF Mending, Records, UnderWay, At, Detach
<1>4. CASE RestartGateway
  BY <1>4 DEF Mending, Records, UnderWay, At, RestartGateway, Waiting
<1> QED
  BY <1>1, <1>2, <1>3, <1>4

LEMMA MendingInitially ==
  ASSUME Init
  PROVE  Mending
<1>1. gateway.step = "off" /\ gateway = [step |-> gateway.step, asked |-> Unset]
  BY DEF Init
<1> QED
  BY <1>1 DEF Init, Mending, Records, UnderWay, At, Waiting

LEMMA MendingNext ==
  ASSUME Mending, [Next]_vars
  PROVE  Mending'
<1>1. CASE \E r \in Request :
             FetchDevice(r) \/ Patch(r) \/ PublishSetBroadcastFlags(r) \/ PublishFails(r)
  BY <1>1, ApiKeepsMending DEF FetchDevice, Patch, PublishSetBroadcastFlags, PublishFails, Answered
<1>2. CASE Run /\ UNCHANGED <<apiVars, control, bounds>>
  BY <1>2, RunKeepsMending
<1>3. CASE handleControlMessage /\ UNCHANGED <<apiVars, bounds>>
  BY <1>3, HandlerKeepsMending
<1>4. CASE SetLost /\ UNCHANGED <<apiVars, control, restarts, outages>>
  BY <1>4, FaultKeepsMending
<1>5. CASE SendLost /\ UNCHANGED <<apiVars, restarts, outages>>
  BY <1>5, FaultKeepsMending
<1>6. CASE Outage
  BY <1>6, FaultKeepsMending DEF Outage
<1>7. CASE RestartGateway
  BY <1>7, FaultKeepsMending
<1>8. CASE UNCHANGED vars
  BY <1>8, ApiKeepsMending DEF vars
<1> QED
  BY <1>1, <1>2, <1>3, <1>4, <1>5, <1>6, <1>7, <1>8 DEF Next

(* Once every command is handled, a bridged Z21 has the session's flags,   *)
(* unless a command fell into the handshake or a datagram was lost since.  *)
THEOREM NextSendAlwaysMends == Spec => []NextSendMends
<1>1. Init => Mending
  BY MendingInitially
<1>2. Mending /\ [Next]_vars => Mending'
  BY MendingNext
<1>3. Mending => NextSendMends
  BY DEF Mending, Records, UnderWay, At, NextSendMends, AllHandled, Waiting
<1> QED
  BY <1>1, <1>2, <1>3, PTL DEF Spec

-----------------------------------------------------------------------------
(***************************************************************************)
(* The session's flags and the spec's.  What counts is the last command    *)
(* under way, or without one the session; and it is only when no request   *)
(* is under way that it must be the spec's.  A request that was not        *)
(* overlapped publishes the spec itself: it is what the patch's answer     *)
(* shows, and nobody has patched it since.                                 *)
(***************************************************************************)
Requests ==
  {Waiting} \cup [step : {"got", "patched"}, flags : Flags, device : Flags \cup {Unset}]

Value == Nat \ {0}

FlagsTyped ==
  /\ spec \in Flags \cup {Unset} /\ request \in [Request -> Requests]
  /\ control \in Seq(Flags \cup {Default})
  /\ gateway.step \in Steps /\ gateway.asked \in Value \cup {Unset}
  /\ session \in Value /\ station \in Value \cup {Unset}
  /\ missed \in BOOLEAN

Coming == IF control = <<>> THEN session ELSE flagsFrom(control[Len(control)])

UnderWayAlone ==
  /\ \A r, other \in Request : request[r] # Waiting /\ request[other] # Waiting => r = other
  /\ \A r \in Request : request[r].step = "patched" => request[r].device = spec

Following ==
  /\ ~Subscribed => control = <<>>
  /\ missed = FALSE => UnderWayAlone /\ (AllAnswered /\ ~At("off") => Coming = Effective(spec))

FlagsInv == Mending /\ FlagsTyped /\ Following

LEMMA FlagsFromSpec ==
  ASSUME NEW s \in Flags \cup {Unset}
  PROVE  /\ BroadcastFlagsValue(s) \in Flags \cup {Default}
         /\ Effective(s) \in Value /\ Effective(s) = flagsFrom(BroadcastFlagsValue(s))
BY FlagsAssumption DEF BroadcastFlagsValue, Effective, flagsFrom, Value

LEMMA FlagsFromCommand ==
  ASSUME NEW f \in Flags \cup {Default}
  PROVE  flagsFrom(f) \in Value
BY FlagsAssumption DEF flagsFrom, Value

(* Requests: only the publication of one changes what is coming.           *)
LEMMA RequestsFollow ==
  ASSUME FlagsInv, NEW r \in Request,
         FetchDevice(r) \/ Patch(r) \/ PublishSetBroadcastFlags(r) \/ PublishFails(r)
  PROVE  FlagsTyped' /\ Following'
<1> USE DEF FlagsInv
<1>1. UNCHANGED gatewayVars
  BY DEF FetchDevice, Patch, PublishSetBroadcastFlags, PublishFails
<1>2. CASE FetchDevice(r)
  <2>1. PICK flags \in Flags :
          request' = [request EXCEPT ![r] = [step |-> "got", flags |-> flags, device |-> spec]]
    BY <1>2 DEF FetchDevice
  <2>2. /\ UNCHANGED <<spec, control>> /\ missed' \in BOOLEAN
        /\ missed' = FALSE => \A other \in Request : request[other] = Waiting
    BY <1>2 DEF FetchDevice
  <2>3. [step |-> "got", flags |-> flags, device |-> spec] \in Requests
    BY DEF FlagsTyped, Requests
  <2>4. FlagsTyped'
    BY <1>1, <2>1, <2>2, <2>3 DEF FlagsTyped, gatewayVars
  <2>5. request'[r].step = "got" /\ request'[r] # Waiting /\ ~AllAnswered'
    BY <2>1 DEF FlagsTyped, Waiting, AllAnswered
  <2>6. missed' = FALSE => \A other \in Request \ {r} : request'[other] = Waiting
    BY <2>1, <2>2 DEF FlagsTyped
  <2> QED
    BY <1>1, <2>2, <2>4, <2>5, <2>6 DEF Following, UnderWayAlone, Subscribed, gatewayVars, Waiting
<1>3. CASE Patch(r)
  <2>1. /\ request[r].step = "patched" \/ request[r].step = "got"
        /\ spec' = IF request[r].flags = request[r].device THEN spec ELSE request[r].flags
        /\ request' = [request EXCEPT ![r].step = "patched", ![r].device = spec']
        /\ UNCHANGED <<missed, control>>
    BY <1>3 DEF Patch
  <2>2. request[r] \in [step : {"got", "patched"}, flags : Flags, device : Flags \cup {Unset}]
    BY <2>1 DEF FlagsTyped, Requests, Waiting
  <2>3. spec' \in Flags \cup {Unset}
    BY <2>1, <2>2 DEF FlagsTyped
  <2>4. /\ request'[r] \in [step : {"got", "patched"}, flags : Flags, device : Flags \cup {Unset}]
        /\ request'[r].step = "patched" /\ request'[r].device = spec'
        /\ \A other \in Request \ {r} : request'[other] = request[other]
        /\ request' = [x \in Request |-> request'[x]]
    BY <2>1, <2>2, <2>3 DEF FlagsTyped
  <2>5. FlagsTyped'
    BY <1>1, <2>1, <2>3, <2>4 DEF FlagsTyped, gatewayVars, Requests
  <2>6. request[r] # Waiting /\ request'[r] # Waiting
    BY <2>2, <2>4 DEF Waiting
  <2>7. missed' = FALSE => UnderWayAlone'
    <3> SUFFICES ASSUME missed = FALSE
                 PROVE  UnderWayAlone'
      BY <2>1
    <3>1. \A other \in Request \ {r} : request'[other] = Waiting
      BY <2>4, <2>6 DEF Following, UnderWayAlone
    <3> QED
      BY <2>4, <3>1 DEF UnderWayAlone, Waiting
  <2>8. ~AllAnswered' /\ (~Subscribed' => control' = <<>>)
    BY <1>1, <2>1, <2>6 DEF AllAnswered, Following, Subscribed, gatewayVars
  <2> QED
    BY <2>5, <2>7, <2>8 DEF Following
<1>4. CASE PublishFails(r)
  <2>1. missed' = TRUE /\ UNCHANGED <<spec, control>> /\ request' = [request EXCEPT ![r] = Waiting]
    BY <1>4 DEF PublishFails, Answered
  <2> QED
    BY <1>1, <2>1 DEF FlagsTyped, Requests, Following, Subscribed, gatewayVars
<1>5. CASE PublishSetBroadcastFlags(r)
  <2> DEFINE value == BroadcastFlagsValue(request[r].device)
  <2>1. /\ request[r].step = "patched" /\ request' = [request EXCEPT ![r] = Waiting]
        /\ control' = IF Subscribed THEN Append(control, value) ELSE control
        /\ missed' \in BOOLEAN /\ (missed' = FALSE => missed = FALSE /\ ~At("read")) /\ UNCHANGED spec
    BY <1>5 DEF PublishSetBroadcastFlags, Answered, FlagsTyped
  <2>2. request[r].device \in Flags \cup {Unset}
    BY <2>1 DEF FlagsTyped, Requests, Waiting
  <2>3. value \in Flags \cup {Default}
    BY <2>2, FlagsFromSpec
  <2> HIDE DEF value
  <2>4. control' \in Seq(Flags \cup {Default})
    BY <2>1, <2>3 DEF FlagsTyped
  <2>5. FlagsTyped'
    BY <1>1, <2>1, <2>4 DEF FlagsTyped, gatewayVars, Requests
  <2>6. UnderWayAlone' \/ missed' = TRUE
    BY <2>1 DEF Following, UnderWayAlone, FlagsTyped, Waiting
  <2>7. Subscribed => control' # <<>> /\ control'[Len(control')] = value
    BY <2>1, <2>3 DEF FlagsTyped
  <2>8. missed' = FALSE => request[r].device = spec
    BY <2>1 DEF Following, UnderWayAlone
  <2>9. missed' = FALSE /\ ~At("off")' => Coming' = Effective(spec)'
    <3>1. missed' = FALSE /\ ~At("off")' => Subscribed
      BY <1>1, <2>1 DEF At, Subscribed, FlagsTyped, Steps, gatewayVars
    <3> QED
      BY <2>1, <2>7, <2>8, <3>1 DEF Coming, Effective, value
  <2>10. ~Subscribed' => control' = <<>>
    BY <1>1, <2>1 DEF Following, Subscribed, gatewayVars
  <2> QED
    BY <2>5, <2>6, <2>9, <2>10 DEF Following
<1> QED
  BY <1>2, <1>3, <1>4, <1>5

LEMMA FirstTaken ==
  ASSUME NEW X, NEW s \in Seq(X), s # <<>>, NEW t, t = Tail(s)
  PROVE  /\ t \in Seq(X) /\ Head(s) \in X /\ Head(s) = s[1]
         /\ Len(s) \in Nat \ {0} /\ Len(t) = Len(s) - 1 /\ (t = <<>> <=> Len(s) = 1)
         /\ \A i \in 1 .. (Len(s) - 1) : t[i] = s[i + 1]
<1>1. /\ t \in Seq(X) /\ Head(s) \in X /\ Head(s) = s[1]
      /\ Len(s) \in Nat \ {0} /\ Len(t) = Len(s) - 1
      /\ \A i \in 1 .. (Len(s) - 1) : t[i] = s[i + 1]
  OBVIOUS
<1>2. t = <<>> <=> Len(t) = 0
  BY <1>1
<1> QED
  BY <1>1, <1>2

(* The gateway reads the spec itself when it starts, and applies its       *)
(* commands in their order.                                                *)
LEMMA GatewayFollows ==
  ASSUME FlagsInv,
         \/ Run /\ UNCHANGED <<apiVars, control, bounds>>
         \/ SetLost /\ UNCHANGED <<apiVars, control, restarts, outages>>
         \/ handleControlMessage /\ UNCHANGED <<apiVars, bounds>>
         \/ SendLost /\ UNCHANGED <<apiVars, restarts, outages>>
         \/ Outage
         \/ RestartGateway
  PROVE  FlagsTyped' /\ Following'
<1> USE DEF FlagsInv
<1>1. UNCHANGED <<spec, request, missed>>
  BY DEF Outage, RestartGateway, apiVars
<1>2. gateway = [step |-> gateway.step, asked |-> gateway.asked]
  BY DEF Mending, Records
<1>3. ASSUME UNCHANGED <<control, session>>, ~At("off"), ~At("off")' , ~Subscribed' => ~Subscribed,
             gateway'.step \in Steps, gateway'.asked \in Value \cup {Unset},
             station' \in Value \cup {Unset}
      PROVE  FlagsTyped' /\ Following'
  BY <1>1, <1>3 DEF FlagsTyped, Following, UnderWayAlone, AllAnswered, Coming, Effective
<1>4. CASE ReadFlags /\ UNCHANGED control
  <2>1. /\ gateway.step = "off" /\ gateway'.step = "read" /\ gateway'.asked = gateway.asked
        /\ session' = Effective(spec) /\ station' = station
    BY <1>2, <1>4 DEF ReadFlags, At, Goto, Effective
  <2>2. control' = <<>>
    BY <1>4, <2>1 DEF Following, Subscribed
  <2>3. session' \in Value
    BY <2>1, FlagsFromSpec DEF FlagsTyped
  <2>4. FlagsTyped'
    BY <1>1, <1>4, <2>1, <2>3 DEF FlagsTyped, Steps
  <2> QED
    BY <1>1, <2>1, <2>2, <2>4 DEF Following, UnderWayAlone, AllAnswered, Coming, Effective
<1>5. CASE (SubscribeControl \/ Attach \/ Handshake \/ SetBroadcastFlags \/ SystemState \/ SetLost)
           /\ UNCHANGED control
  <2>1. /\ UNCHANGED session /\ ~At("off") /\ ~At("off")' /\ Subscribed'
        /\ gateway'.step \in Steps /\ gateway'.asked \in {gateway.asked, session, Unset}
        /\ station' \in {station, gateway.asked, Unset}
    BY <1>2, <1>5 DEF SubscribeControl, Attach, Handshake, SetBroadcastFlags, SystemState, SetLost, At,
       Goto, Subscribed, Steps
  <2> QED
    BY <1>3, <1>5, <2>1 DEF FlagsTyped
<1>6. CASE SetFlags
  <2> DEFINE n == Len(control)
  <2>1. /\ control # <<>> /\ control' = Tail(control) /\ session' = flagsFrom(Head(control))
        /\ UNCHANGED <<gateway, station>>
    BY <1>6 DEF SetFlags
  <2>2. /\ control \in Seq(Flags \cup {Default}) /\ n \in Nat \ {0} /\ Head(control) = control[1]
        /\ Head(control) \in Flags \cup {Default} /\ control' \in Seq(Flags \cup {Default})
        /\ Len(control') = n - 1 /\ \A i \in 1 .. (n - 1) : control'[i] = control[i + 1]
        /\ control' = <<>> <=> n = 1
    <3>1. control \in Seq(Flags \cup {Default})
      BY DEF FlagsTyped
    <3> QED
      BY <2>1, <3>1, FirstTaken
  <2>3. session' \in Value
    BY <2>1, <2>2, FlagsFromCommand
  <2>4. Coming' = Coming
    <3>1. CASE n = 1
      BY <2>1, <2>2, <3>1 DEF Coming
    <3>2. CASE n # 1
      <4>1. control'[n - 1] = control[n]
        BY <2>2, <3>2
      <4> QED
        BY <2>1, <2>2, <3>2, <4>1 DEF Coming
    <3> QED
      BY <3>1, <3>2
  <2>5. Subscribed /\ Subscribed'
    BY <2>1 DEF Following, Subscribed
  <2> HIDE DEF n
  <2> QED
    BY <1>1, <2>1, <2>2, <2>3, <2>4, <2>5 DEF FlagsTyped, Following, UnderWayAlone, AllAnswered,
       Effective, At
<1>7. CASE ReadClient \/ Send \/ SendLost
  <2>1. UNCHANGED <<control, gateway, session>>
    BY <1>7 DEF ReadClient, Send, SendLost
  <2>2. station' \in Value \cup {Unset}
    <3>1. CASE station' = station
      BY <3>1 DEF FlagsTyped
    <3>2. CASE Send /\ command.attached /\ station' = command.flags
      <4>1. command.step = "send" /\ command.attached = TRUE
        BY <3>2 DEF Send, Mending, Records
      <4> QED
        BY <3>2, <4>1 DEF Mending, FlagsTyped
    <3> QED
      BY <1>7, <3>1, <3>2 DEF ReadClient, Send, SendLost
  <2> QED
    BY <1>1, <2>1, <2>2 DEF FlagsTyped, Following, UnderWayAlone, AllAnswered, Coming, Effective,
       Subscribed, At
<1>8. CASE Outage
  <2>1. /\ UNCHANGED <<control, session>> /\ Connected
        /\ gateway'.step = "dialing" /\ gateway'.asked = Unset /\ station' = Unset
    BY <1>8 DEF Outage, Detach
  <2> QED
    BY <1>3, <2>1 DEF Connected, At, Subscribed, Steps
<1>9. CASE RestartGateway
  <2>1. /\ control' = <<>> /\ session' = ProtocolDefault /\ station' = Unset
        /\ gateway'.step = "off" /\ gateway'.asked = Unset
    BY <1>9 DEF RestartGateway
  <2>2. ProtocolDefault \in Value /\ control' \in Seq(Flags \cup {Default})
    BY <2>1, FlagsAssumption DEF Value
  <2> QED
    BY <1>1, <2>1, <2>2 DEF FlagsTyped, Following, UnderWayAlone, At, Steps
<1> QED
  BY <1>4, <1>5, <1>6, <1>7, <1>8, <1>9 DEF Run, handleControlMessage

LEMMA FlagsHold == Spec => []FlagsInv
<1>1. Init => FlagsInv
  <2> SUFFICES ASSUME Init
               PROVE  FlagsInv
    OBVIOUS
  <2>1. Mending
    BY MendingInitially
  <2>2. FlagsTyped
    <3>1. <<>> \in Seq(Flags \cup {Default}) /\ Waiting \in Requests /\ ProtocolDefault \in Value
      BY FlagsAssumption DEF Requests, Value
    <3> QED
      BY <3>1 DEF Init, FlagsTyped, Steps
  <2>3. Following
    BY DEF Init, Following, UnderWayAlone, Waiting, Subscribed, At
  <2> QED
    BY <2>1, <2>2, <2>3 DEF FlagsInv
<1>2. FlagsInv /\ [Next]_vars => FlagsInv'
  <2> SUFFICES ASSUME FlagsInv, [Next]_vars
               PROVE  FlagsInv'
    OBVIOUS
  <2>1. Mending'
    BY MendingNext DEF FlagsInv
  <2>2. CASE \E r \in Request :
               FetchDevice(r) \/ Patch(r) \/ PublishSetBroadcastFlags(r) \/ PublishFails(r)
    BY <2>1, <2>2, RequestsFollow DEF FlagsInv
  <2>3. CASE \/ Run /\ UNCHANGED <<apiVars, control, bounds>>
             \/ SetLost /\ UNCHANGED <<apiVars, control, restarts, outages>>
             \/ handleControlMessage /\ UNCHANGED <<apiVars, bounds>>
             \/ SendLost /\ UNCHANGED <<apiVars, restarts, outages>>
             \/ Outage
             \/ RestartGateway
    BY <2>1, <2>3, GatewayFollows DEF FlagsInv
  <2>4. CASE UNCHANGED vars
    BY <2>1, <2>4 DEF vars, apiVars, gatewayVars, FlagsInv, FlagsTyped, Following, UnderWayAlone,
       AllAnswered, Coming, Effective, Subscribed, At
  <2> QED
    BY <2>2, <2>3, <2>4 DEF Next
<1> QED
  BY <1>1, <1>2, PTL DEF Spec

(* Requests, commands, session and Z21 hold valid flags; the session and   *)
(* the Z21 never 0, which flagsFrom replaces.                              *)
THEOREM FlagsTypes == Spec => []TypeOK
<1>1. FlagsInv => TypeOK
  <2> SUFFICES ASSUME FlagsInv
               PROVE  TypeOK
    OBVIOUS
  <2>1. \A r \in Request : request[r].step \in {"idle", "got", "patched"}
    BY DEF FlagsInv, FlagsTyped, Requests, Waiting
  <2>2. \A i \in DOMAIN control : control[i] \in Flags \cup {Default}
    BY DEF FlagsInv, FlagsTyped
  <2>3. command.step \in {"idle", "set", "send"}
    BY DEF FlagsInv, Mending, Records
  <2> QED
    BY <2>1, <2>2, <2>3 DEF FlagsInv, FlagsTyped, TypeOK, Value, Steps
<1> QED
  BY <1>1, FlagsHold, PTL

(* Once requests are answered and commands handled, the gateway's session  *)
(* has the flags of the spec, unless requests overlapped or a command was  *)
(* not published to it, whatever restarts, outages and losses there were.  *)
THEOREM SessionAlwaysFollowsSpec == Spec => []SessionFollowsSpec
<1>1. FlagsInv => SessionFollowsSpec
  <2> SUFFICES ASSUME FlagsInv, AllAnswered, AllHandled, Subscribed, ~missed
               PROVE  session = Effective(spec)
    BY DEF SessionFollowsSpec
  <2>1. missed = FALSE /\ ~At("off") /\ control = <<>>
    BY DEF FlagsInv, FlagsTyped, Subscribed, At, AllHandled
  <2> QED
    BY <2>1 DEF FlagsInv, Following, Coming
<1> QED
  BY <1>1, FlagsHold, PTL

=============================================================================
