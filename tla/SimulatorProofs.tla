--------------------------- MODULE SimulatorProofs ---------------------------
(***************************************************************************)
(* The simulator, for any clients, threads, net IDs, packets and calls:    *)
(* every change of the power is announced, what a client heard last is     *)
(* true, and no detector is missed by a client that polled.  The theorems  *)
(* are in SimulationProofs, for the simulator among the other parts; here  *)
(* is their invariant, which every step of the simulator preserves.        *)
(***************************************************************************)
EXTENDS SimulatorServer, FiniteSetTheorems, SequenceTheorems, WellFoundedInduction, TLAPS

Facts == [about : {Power}, says : BOOLEAN] \cup [about : NetID, says : CANDevice]

Jobs ==
  [stage : {"idle", "status", "system", "list", "send"}, fact : Facts \cup {NoFact}, flag : Flag,
   except : Client \cup {Absent}, to : SUBSET Client]

Packets ==
  [from : Client \cup {Absent}, todo : Seq(LanMessage), replies : Seq(Facts),
   orphan : BOOLEAN, polls : BOOLEAN]

-----------------------------------------------------------------------------
(***************************************************************************)
(* The inductive invariant.                                                *)
(***************************************************************************)

(* What a thread says is a fact, and who is told follows from what it is   *)
(* about.                                                                  *)
JobSound(j) ==
  /\ j.stage \in {"list", "send"} <=> j.fact # NoFact
  /\ j.stage = "send" <=> j.to # {}
  /\ j.fact \in [about : {Power}, says : BOOLEAN] => j.flag \in {XpressNet, SystemState}
  /\ j.fact.about \in NetID => j.flag = KindFlag(j.fact.says) /\ j.except = Absent

ServerTyped ==
  /\ up \in BOOLEAN /\ trackPower \in BOOLEAN
  /\ session \in [Client -> (SUBSET Flag) \cup {Absent}]
  /\ canDevices \in [NetID -> CANDevice \cup {Absent}]
  /\ job \in [Thread -> Jobs] /\ \A t \in Thread : JobSound(job[t])
  /\ packet \in Packets /\ (packet.from = Absent => packet = NoPacket)
  /\ heard = [c \in Client |-> [x \in Topic |-> heard[c][x]]]
  /\ due \subseteq Client /\ blurred \subseteq Topic /\ polled \subseteq Client

(* Thread t is going to send client c what it says of x.                   *)
Reaches(t, c, x) ==
  /\ Holds(t, x)
  /\ \/ job[t].stage = "list" /\ c # job[t].except /\ Has(c, job[t].flag)
     \/ job[t].stage = "send" /\ c \in job[t].to

(* Thread t is going to send client c the power that holds: what it will   *)
(* read, or what it read if that is still true.                            *)
Covers(t, c) ==
  \/ job[t].stage = "status" /\ c # job[t].except /\ Has(c, XpressNet)
  \/ job[t].stage \in {"status", "system"} /\ Has(c, SystemState)
  \/ job[t].stage \in {"list", "send"} /\ job[t].flag = XpressNet /\ Has(c, SystemState)
  \/ Reaches(t, c, Power) /\ job[t].fact.says = trackPower

Pending(c, x) == \E t \in Thread : IF x = Power THEN Covers(t, c) ELSE Reaches(t, c, x)

Replied(c, x) == packet.from = c /\ About(packet.replies, x) # {}

(* A topic that is not blurred: what threads are saying of it, what the    *)
(* packet's replies end with, and what listeners know, is what holds, or   *)
(* they are about to be told.                                              *)
SaysTrue(x) ==
  /\ \A t \in Thread : Holds(t, x) => job[t].fact.says = World(x)
  /\ About(packet.replies, x) # {} => LastOf(packet.replies, x) = World(x)

Knows(c, x) ==
  Listens(c, x) =>
    heard[c][x] \in {Absent, World(x)} \/ (x = Power /\ Replied(c, x)) \/ Pending(c, x)

TopicsTrue == \A x \in Topic \ blurred : SaysTrue(x) /\ \A c \in Client : Knows(c, x)

Answered(c) == \E i \in About(packet.replies, Power) : packet.replies[i].says = trackPower

DueCovered ==
  \A c \in due :
    /\ Listens(c, Power)
    /\ (packet.from = c /\ Answered(c)) \/ \E t \in Thread : Covers(t, c)

(* A client that polled has heard of the detector, or is about to.         *)
Meets(c, n) ==
  heard[c][n] # Absent \/ \E t \in Thread : Reaches(t, c, n) /\ job[t].flag = CANDetector

PolledKnow ==
  /\ \A c \in polled :
       Has(c, CANDetector) /\ \A n \in detectorDevices(canDevices) : Meets(c, n)
  /\ packet.polls =>
       /\ Has(packet.from, CANDetector) /\ ~packet.orphan
       /\ \A n \in detectorDevices(canDevices) :
            About(packet.replies, n) # {} \/ Meets(packet.from, n)

ServerInv == ServerTyped /\ TopicsTrue /\ DueCovered /\ PolledKnow

-----------------------------------------------------------------------------
(***************************************************************************)
(* Lists of facts.                                                         *)
(***************************************************************************)
LEMMA LeastExists ==
  ASSUME NEW T \in SUBSET Nat, T # {}
  PROVE  \E x \in T : \A y \in T : x <= y
<1>1. PICK Less : /\ IsWellFoundedOn(Less, Nat)
                  /\ \A x, y \in Nat : x < y => <<x, y>> \in Less
  <2>1. \A x, y \in Nat : x < y => <<x, y>> \in OpToRel(<, Nat)
    BY DEF OpToRel
  <2> QED
    BY <2>1, NatLessThanWellFounded, Zenon
<1>2. \A R, X, Y : IsWellFoundedOn(R, X) /\ Y \subseteq X /\ Y # {}
                   => \E x \in Y : \A y \in Y : ~(<<y, x>> \in R)
  BY WFMin, Zenon
<1>3. IsWellFoundedOn(Less, Nat) /\ T \subseteq Nat /\ T # {}
  BY <1>1
<1>4. \E x \in T : \A y \in T : ~(<<y, x>> \in Less)
  BY <1>2, <1>3, Zenon
<1>5. PICK x \in T : \A y \in T : ~(<<y, x>> \in Less)
  BY <1>4, Zenon
<1>6. \A y \in T : x <= y
  <2> TAKE y \in T
  <2>1. x \in Nat /\ y \in Nat
    OBVIOUS
  <2>2. ~(y < x)
    BY <1>1, <1>5, <2>1, Zenon
  <2> QED
    BY <2>1, <2>2, SMT
<1> QED
  BY <1>6

LEMMA MaxExists ==
  ASSUME NEW n \in Nat, NEW S \in SUBSET (1 .. n), S # {}
  PROVE  \E i \in S : \A j \in S : j <= i
<1> DEFINE T == {m \in 0 .. n : \E i \in S : m = n - i}
<1>1. \A i \in S : n - i \in T
  BY SMT
<1>2. T \in SUBSET Nat /\ T # {}
  <2>1. \A m \in T : m \in Nat
    OBVIOUS
  <2> HIDE DEF T
  <2> QED
    BY <1>1, <2>1
<1>3. PICK x \in T : \A y \in T : x <= y
  <2> HIDE DEF T
  <2> QED
    BY <1>2, LeastExists
<1>4. PICK i \in S : x = n - i
  OBVIOUS
<1>5. \A j \in S : n - i <= n - j
  BY <1>1, <1>3, <1>4
<1> QED
  BY <1>5

LEMMA LastOne ==
  ASSUME NEW facts \in Seq(Facts), NEW x, About(facts, x) # {}
  PROVE  \E i \in About(facts, x) :
           LastOf(facts, x) = facts[i].says /\ \A j \in About(facts, x) : j <= i
<1> DEFINE S == About(facts, x)
<1>1. S \in SUBSET (1 .. Len(facts)) /\ Len(facts) \in Nat
  BY DEF About
<1>2. \E i \in S : \A j \in S : j <= i
  BY <1>1, MaxExists
<1> QED
  BY <1>2 DEF LastOf

(* What is added about x has the last word.                                *)
LEMMA LastAfter ==
  ASSUME NEW facts \in Seq(Facts), NEW more \in Seq(Facts), NEW x, About(more, x) # {}
  PROVE  \E i \in About(more, x) : LastOf(facts \o more, x) = more[i].says
<1> DEFINE all == facts \o more
<1>1. /\ all \in Seq(Facts) /\ Len(facts) \in Nat /\ Len(more) \in Nat
      /\ DOMAIN all = 1 .. Len(facts) + Len(more) /\ DOMAIN more = 1 .. Len(more)
      /\ \A i \in 1 .. Len(facts) + Len(more) :
           all[i] = IF i <= Len(facts) THEN facts[i] ELSE more[i - Len(facts)]
  OBVIOUS
<1> HIDE DEF all
<1>2. PICK j \in DOMAIN more : more[j].about = x
  BY DEF About
<1>3. Len(facts) + j \in DOMAIN all /\ all[Len(facts) + j] = more[j]
  BY <1>1
<1>4. Len(facts) + j \in About(all, x)
  BY <1>2, <1>3 DEF About
<1>5. PICK i \in About(all, x) :
        LastOf(all, x) = all[i].says /\ \A k \in About(all, x) : k <= i
  BY <1>1, <1>4, LastOne
<1>6. i \in DOMAIN all /\ all[i].about = x
  BY DEF About
<1>7. i - Len(facts) \in DOMAIN more /\ all[i] = more[i - Len(facts)]
  BY <1>1, <1>4, <1>5, <1>6
<1>8. i - Len(facts) \in About(more, x)
  BY <1>6, <1>7 DEF About
<1> QED
  BY <1>5, <1>7, <1>8 DEF all

(* What is added about other topics leaves it alone.                       *)
LEMMA LastBefore ==
  ASSUME NEW facts \in Seq(Facts), NEW more \in Seq(Facts), NEW x, About(more, x) = {}
  PROVE  /\ About(facts \o more, x) = About(facts, x)
         /\ About(facts, x) # {} => LastOf(facts \o more, x) = LastOf(facts, x)
<1> DEFINE all == facts \o more
<1>1. /\ all \in Seq(Facts) /\ Len(facts) \in Nat /\ Len(more) \in Nat
      /\ DOMAIN all = 1 .. Len(facts) + Len(more) /\ DOMAIN more = 1 .. Len(more)
      /\ DOMAIN facts = 1 .. Len(facts)
      /\ \A i \in 1 .. Len(facts) + Len(more) :
           all[i] = IF i <= Len(facts) THEN facts[i] ELSE more[i - Len(facts)]
  OBVIOUS
<1> HIDE DEF all
<1>2. ASSUME NEW i \in About(all, x)
      PROVE  i \in About(facts, x)
  <2>1. i \in DOMAIN all /\ all[i].about = x
    BY DEF About
  <2>2. CASE i <= Len(facts)
    BY <1>1, <2>1, <2>2 DEF About
  <2>3. CASE ~(i <= Len(facts))
    <3>1. i - Len(facts) \in DOMAIN more /\ more[i - Len(facts)].about = x
      BY <1>1, <2>1, <2>3
    <3> QED
      BY <3>1 DEF About
  <2> QED
    BY <2>2, <2>3
<1>3. ASSUME NEW i \in About(facts, x)
      PROVE  i \in About(all, x) /\ all[i] = facts[i]
  BY <1>1 DEF About
<1>4. About(all, x) = About(facts, x)
  BY <1>2, <1>3
<1>5. ASSUME About(facts, x) # {}
      PROVE  LastOf(all, x) = LastOf(facts, x)
  <2>1. PICK i \in About(all, x) :
          LastOf(all, x) = all[i].says /\ \A k \in About(all, x) : k <= i
    BY <1>1, <1>4, <1>5, LastOne
  <2>2. PICK j \in About(facts, x) :
          LastOf(facts, x) = facts[j].says /\ \A k \in About(facts, x) : k <= j
    BY <1>5, LastOne
  <2>3. i = j
    BY <1>1, <1>4, <2>1, <2>2 DEF About
  <2> QED
    BY <1>3, <2>1, <2>2, <2>3
<1> QED
  BY <1>4, <1>5 DEF all

LEMMA OneFact ==
  ASSUME NEW f \in Facts, NEW x
  PROVE  /\ <<f>> \in Seq(Facts)
         /\ About(<<f>>, x) = IF f.about = x THEN {1} ELSE {}
         /\ \A j \in About(<<f>>, x) : <<f>>[j] = f
         /\ f.about = x => LastOf(<<f>>, x) = f.says
<1>1. <<f>> \in Seq(Facts) /\ DOMAIN <<f>> = {1} /\ <<f>>[1] = f
  OBVIOUS
<1>2. About(<<f>>, x) = IF f.about = x THEN {1} ELSE {}
  BY <1>1 DEF About
<1>3. \A j \in About(<<f>>, x) : <<f>>[j] = f
  BY <1>1, <1>2
<1>4. ASSUME f.about = x
      PROVE  LastOf(<<f>>, x) = f.says
  BY <1>1, <1>2, <1>3, <1>4, LastOne
<1> QED
  BY <1>1, <1>2, <1>3, <1>4

LEMMA NoFacts ==
  ASSUME NEW x
  PROVE  <<>> \in Seq(Facts) /\ About(<<>>, x) = {}
BY DEF About

-----------------------------------------------------------------------------
(***************************************************************************)
(* What jobs are made of.                                                  *)
(***************************************************************************)
LEMMA FactsTyped ==
  /\ NoFact \notin Facts /\ NoFact.about = Power /\ NoFact.says = Absent
  /\ \A on \in BOOLEAN : /\ Fact(Power, on) \in Facts
                         /\ Fact(Power, on) \in [about : {Power}, says : BOOLEAN]
  /\ \A n \in NetID : \A device \in CANDevice : Fact(n, device) \in Facts
  /\ \A x, v : Fact(x, v).about = x /\ Fact(x, v).says = v
  /\ \A f \in Facts : /\ f.about \in Topic /\ f.says # Absent
                      /\ f.about = Power => f \in [about : {Power}, says : BOOLEAN]
                      /\ f.about # Power => f.about \in NetID /\ f.says \in CANDevice
BY ServerAssumption DEF Facts, Fact, NoFact, Topic

LEMMA SystemJob ==
  LET j == [Idle EXCEPT !.stage = "system"]
  IN  /\ j \in Jobs
      /\ j.stage = "system" /\ j.fact = NoFact /\ j.flag = XpressNet /\ j.except = Absent /\ j.to = {}
BY DEF Idle, Jobs, Flag

LEMMA IdleJob ==
  /\ Idle \in Jobs /\ JobSound(Idle)
  /\ Idle.stage = "idle" /\ Idle.fact = NoFact /\ Idle.to = {}
BY FactsTyped, ServerAssumption DEF Idle, Jobs, Flag, JobSound, NoFact, Fact, Topic

LEMMA SendJob ==
  ASSUME NEW j \in Jobs, NEW to \in SUBSET Client
  PROVE  LET new == [j EXCEPT !.stage = "send", !.to = to]
         IN  /\ new \in Jobs
             /\ new.stage = "send" /\ new.to = to
             /\ new.fact = j.fact /\ new.flag = j.flag /\ new.except = j.except
BY DEF Jobs

LEMMA JobFields ==
  ASSUME NEW j \in Jobs
  PROVE  /\ j.stage \in {"idle", "status", "system", "list", "send"}
         /\ j.fact \in Facts \cup {NoFact} /\ j.flag \in Flag
         /\ j.except \in Client \cup {Absent} /\ j.to \in SUBSET Client
BY DEF Jobs

(* What a thread begins to announce.                                       *)
LEMMA AnnouncesSound ==
  ASSUME ServerTyped, NEW t \in Thread, NEW s \in {"status", "system", "list"},
         NEW f \in Facts \cup {NoFact}, NEW flag \in Flag, NEW e \in Client \cup {Absent},
         Announces(t, s, f, flag, e),
         s = "list" <=> f \in Facts,
         f \in [about : {Power}, says : BOOLEAN] => flag \in {XpressNet, SystemState},
         f.about \in NetID => flag = KindFlag(f.says) /\ e = Absent
  PROVE  /\ job' \in [Thread -> Jobs] /\ \A u \in Thread : JobSound(job'[u])
         /\ \A u \in Thread \ {t} : job'[u] = job[u]
         /\ job'[t].stage = s /\ job'[t].fact = f /\ job'[t].flag = flag /\ job'[t].except = e
         /\ job'[t].to = {}
<1>1. PICK j : j = [Idle EXCEPT !.stage = s, !.fact = f, !.flag = flag, !.except = e]
  OBVIOUS
<1>2. /\ j \in Jobs
      /\ j.stage = s /\ j.fact = f /\ j.flag = flag /\ j.except = e /\ j.to = {}
  BY <1>1 DEF Idle, Jobs
<1>3. job' = [job EXCEPT ![t] = j]
  BY <1>1 DEF Announces
<1>4. JobSound(j)
  BY <1>2, FactsTyped DEF JobSound
<1> QED
  BY <1>2, <1>3, <1>4 DEF ServerTyped

(* What follows the list of recipients, or a datagram.                     *)
LEMMA ContinuesSound ==
  ASSUME ServerTyped, NEW t \in Thread, job[t].stage \in {"list", "send"},
         NEW to \in SUBSET Client, Continues(t, to)
  PROVE  /\ job' \in [Thread -> Jobs] /\ \A u \in Thread : JobSound(job'[u])
         /\ \A u \in Thread \ {t} : job'[u] = job[u]
         /\ to # {} => /\ job'[t].stage = "send" /\ job'[t].to = to
                       /\ job'[t].fact = job[t].fact /\ job'[t].flag = job[t].flag
         /\ to = {} => IF job[t].flag = XpressNet THEN job'[t].stage = "system"
                       ELSE job'[t].stage = "idle"
<1>1. /\ job[t] \in Jobs /\ JobSound(job[t]) /\ job[t].fact # NoFact
      /\ job \in [Thread -> Jobs]
  BY DEF ServerTyped, JobSound
<1>2. CASE to # {}
  <2>1. PICK j : j = [job[t] EXCEPT !.stage = "send", !.to = to]
    OBVIOUS
  <2>2. /\ j \in Jobs /\ j.stage = "send" /\ j.to = to
        /\ j.fact = job[t].fact /\ j.flag = job[t].flag /\ j.except = job[t].except
    BY <1>1, <2>1, SendJob
  <2>3. JobSound(j)
    BY <1>1, <1>2, <2>2 DEF JobSound
  <2>4. job' = [job EXCEPT ![t] = j]
    BY <1>1, <1>2, <2>1 DEF Continues
  <2> QED
    BY <1>1, <1>2, <2>2, <2>3, <2>4 DEF ServerTyped
<1>3. CASE to = {} /\ job[t].flag = XpressNet
  <2>1. PICK j : j = [Idle EXCEPT !.stage = "system"]
    OBVIOUS
  <2>2. j \in Jobs /\ JobSound(j) /\ j.stage = "system"
    BY <2>1, SystemJob, FactsTyped, ServerAssumption DEF JobSound, Topic
  <2>3. job' = [job EXCEPT ![t] = j]
    BY <1>3, <2>1 DEF Continues
  <2> QED
    BY <1>1, <1>3, <2>2, <2>3 DEF ServerTyped
<1>4. CASE to = {} /\ job[t].flag # XpressNet
  <2>1. job' = [job EXCEPT ![t] = Idle]
    BY <1>4 DEF Continues
  <2> QED
    BY <1>1, <1>4, <2>1, IdleJob DEF ServerTyped
<1> QED
  BY <1>2, <1>3, <1>4

-----------------------------------------------------------------------------
(***************************************************************************)
(* Announcing: who is to be told stays to be told.                         *)
(***************************************************************************)
LEMMA SameJob ==
  ASSUME NEW u \in Thread, job'[u] = job[u], session' = session
  PROVE  /\ \A x : Holds(u, x)' <=> Holds(u, x)
         /\ \A c, x : Reaches(u, c, x)' <=> Reaches(u, c, x)
         /\ trackPower' = trackPower => \A c : Covers(u, c)' <=> Covers(u, c)
BY DEF Holds, Reaches, Covers, Has

LEMMA StatusIsRead ==
  ASSUME ServerTyped, NEW t \in Thread,
         xStatusReply(t) \/ systemStateReply(t), UNCHANGED session, UNCHANGED trackPower
  PROVE  /\ job' \in [Thread -> Jobs] /\ \A u \in Thread : JobSound(job'[u])
         /\ \A u \in Thread \ {t} : job'[u] = job[u]
         /\ \A x : ~Holds(t, x)
         /\ job'[t].stage = "list" /\ job'[t].fact = Fact(Power, trackPower)
         /\ \A c \in Client : Covers(t, c) => Covers(t, c)'
<1>1. PICK flag \in {XpressNet, SystemState}, e \in Client \cup {Absent} :
        /\ Announces(t, "list", Fact(Power, trackPower), flag, e)
        /\ \/ flag = XpressNet /\ job[t].stage = "status" /\ e = job[t].except
           \/ flag = SystemState /\ job[t].stage = "system" /\ e = Absent
  <2>1. job[t].except \in Client \cup {Absent}
    BY JobFields DEF ServerTyped
  <2> QED
    BY <2>1 DEF xStatusReply, systemStateReply
<1>2. Fact(Power, trackPower) \in Facts /\ Fact(Power, trackPower).about = Power
      /\ Fact(Power, trackPower).says = trackPower /\ Power \notin NetID
  BY FactsTyped, ServerAssumption DEF ServerTyped
<1>3. flag \in Flag
  BY DEF Flag
<1>4. /\ job' \in [Thread -> Jobs] /\ \A u \in Thread : JobSound(job'[u])
      /\ \A u \in Thread \ {t} : job'[u] = job[u]
      /\ job'[t].stage = "list" /\ job'[t].fact = Fact(Power, trackPower)
      /\ job'[t].flag = flag /\ job'[t].except = e
  BY <1>1, <1>2, <1>3, AnnouncesSound
<1>5. \A x : ~Holds(t, x)
  BY <1>1 DEF Holds
<1>6. ASSUME NEW c \in Client, Covers(t, c)
      PROVE  Covers(t, c)'
  <2>1. Holds(t, Power)'
    BY <1>2, <1>4 DEF Holds
  <2>2. c # Absent
    BY ServerAssumption
  <2>3. \/ flag = XpressNet /\ c # e /\ Has(c, XpressNet)
        \/ Has(c, SystemState)
    BY <1>1, <1>5, <1>6 DEF Covers, Reaches
  <2>4. CASE c # e /\ Has(c, flag)
    BY <1>2, <1>4, <2>1, <2>4 DEF Covers, Reaches, Has
  <2>5. CASE flag = XpressNet /\ Has(c, SystemState)
    BY <1>4, <2>5 DEF Covers, Has
  <2> QED
    BY <1>1, <2>2, <2>3, <2>4, <2>5
<1> QED
  BY <1>4, <1>5, <1>6

LEMMA RecipientsAreListed ==
  ASSUME ServerTyped, NEW t \in Thread, subscriberAddrs(t),
         UNCHANGED session, UNCHANGED trackPower
  PROVE  /\ job' \in [Thread -> Jobs] /\ \A u \in Thread : JobSound(job'[u])
         /\ \A u \in Thread \ {t} : job'[u] = job[u]
         /\ \A x : Holds(t, x)' => Holds(t, x) /\ job'[t].fact = job[t].fact
         /\ \A c \in Client : \A x :
              Reaches(t, c, x) => Reaches(t, c, x)' /\ job'[t].flag = job[t].flag
         /\ \A c \in Client : Covers(t, c) => Covers(t, c)'
<1> DEFINE to == {c \in Client : Has(c, job[t].flag) /\ c # job[t].except}
<1>1. job[t].stage = "list" /\ Continues(t, to) /\ to \in SUBSET Client
  BY DEF subscriberAddrs
<1>2. \A c \in Client : \A x : Reaches(t, c, x) => c \in to /\ Holds(t, x)
  BY <1>1 DEF Reaches
<1> HIDE DEF to
<1>3. /\ job' \in [Thread -> Jobs] /\ \A u \in Thread : JobSound(job'[u])
      /\ \A u \in Thread \ {t} : job'[u] = job[u]
      /\ to # {} => /\ job'[t].stage = "send" /\ job'[t].to = to
                    /\ job'[t].fact = job[t].fact /\ job'[t].flag = job[t].flag
      /\ to = {} => IF job[t].flag = XpressNet THEN job'[t].stage = "system"
                    ELSE job'[t].stage = "idle"
  BY <1>1, ContinuesSound
<1>4. \A x : Holds(t, x)' => Holds(t, x) /\ job'[t].fact = job[t].fact
  BY <1>1, <1>3 DEF Holds
<1>5. ASSUME NEW c \in Client, NEW x, Reaches(t, c, x)
      PROVE  Reaches(t, c, x)' /\ job'[t].fact = job[t].fact /\ job'[t].flag = job[t].flag
  BY <1>2, <1>3, <1>5 DEF Reaches, Holds
<1>6. ASSUME NEW c \in Client, Covers(t, c)
      PROVE  Covers(t, c)'
  <2>1. CASE Reaches(t, c, Power) /\ job[t].fact.says = trackPower
    BY <1>5, <2>1 DEF Covers
  <2>2. CASE job[t].flag = XpressNet /\ Has(c, SystemState)
    <3>1. Has(c, SystemState)'
      BY <2>2 DEF Has
    <3>2. job'[t].stage = "system" \/ (job'[t].stage = "send" /\ job'[t].flag = XpressNet)
      BY <1>3, <2>2
    <3> QED
      BY <3>1, <3>2 DEF Covers
  <2> QED
    BY <1>1, <1>6, <2>1, <2>2 DEF Covers
<1> QED
  BY <1>3, <1>4, <1>5, <1>6

(* After a datagram to c nobody else is forgotten.                         *)
LEMMA DatagramIsOut ==
  ASSUME ServerTyped, NEW t \in Thread, NEW c \in Client,
         job[t].stage = "send", c \in job[t].to, Continues(t, job[t].to \ {c}),
         UNCHANGED session, UNCHANGED trackPower
  PROVE  /\ job' \in [Thread -> Jobs] /\ \A u \in Thread : JobSound(job'[u])
         /\ \A u \in Thread \ {t} : job'[u] = job[u]
         /\ job[t].fact \in Facts
         /\ \A x : Holds(t, x)' => Holds(t, x) /\ job'[t].fact = job[t].fact
         /\ \A d \in Client : \A x :
              Reaches(t, d, x) => \/ Reaches(t, d, x)' /\ job'[t].flag = job[t].flag
                                  \/ d = c /\ x = job[t].fact.about
         /\ \A d \in Client :
              Covers(t, d) => \/ Covers(t, d)'
                              \/ d = c /\ job[t].fact = Fact(Power, trackPower)
<1> DEFINE to == job[t].to \ {c}
<1>1. to \in SUBSET Client /\ Continues(t, to)
  BY JobFields DEF ServerTyped
<1>2. \A d \in Client : \A x : Reaches(t, d, x) =>
        Holds(t, x) /\ (d \in to \/ (d = c /\ x = job[t].fact.about))
  BY DEF Reaches, Holds
<1> HIDE DEF to
<1>3. /\ job' \in [Thread -> Jobs] /\ \A u \in Thread : JobSound(job'[u])
      /\ \A u \in Thread \ {t} : job'[u] = job[u]
      /\ to # {} => /\ job'[t].stage = "send" /\ job'[t].to = to
                    /\ job'[t].fact = job[t].fact /\ job'[t].flag = job[t].flag
      /\ to = {} => IF job[t].flag = XpressNet THEN job'[t].stage = "system"
                    ELSE job'[t].stage = "idle"
  BY <1>1, ContinuesSound
<1>4. \A x : Holds(t, x)' => Holds(t, x) /\ job'[t].fact = job[t].fact
  BY <1>3 DEF Holds
<1>5. ASSUME NEW d \in Client, NEW x, Reaches(t, d, x)
      PROVE  \/ /\ Reaches(t, d, x)' /\ job'[t].fact = job[t].fact
                /\ job'[t].flag = job[t].flag
             \/ d = c /\ x = job[t].fact.about
  BY <1>2, <1>3, <1>5 DEF Reaches, Holds
<1>6. job[t].fact \in Facts
  <2>1. job[t].fact \in Facts \cup {NoFact} /\ JobSound(job[t])
    BY JobFields DEF ServerTyped
  <2> QED
    BY <2>1 DEF JobSound
<1>7. ASSUME NEW d \in Client, Covers(t, d)
      PROVE  Covers(t, d)' \/ (d = c /\ job[t].fact = Fact(Power, trackPower))
  <2>1. CASE Reaches(t, d, Power) /\ job[t].fact.says = trackPower
    <3>1. CASE Reaches(t, d, Power)' /\ job'[t].fact = job[t].fact
      BY <2>1, <3>1 DEF Covers
    <3>2. CASE d = c /\ job[t].fact.about = Power
      BY <1>6, <2>1, <3>2, FactsTyped DEF Fact
    <3> QED
      BY <1>5, <2>1, <3>1, <3>2
  <2>2. CASE job[t].flag = XpressNet /\ Has(d, SystemState)
    <3>1. Has(d, SystemState)'
      BY <2>2 DEF Has
    <3>2. job'[t].stage = "system" \/ (job'[t].stage = "send" /\ job'[t].flag = XpressNet)
      BY <1>3, <2>2
    <3> QED
      BY <3>1, <3>2 DEF Covers
  <2> QED
    BY <1>7, <2>1, <2>2 DEF Covers
<1> QED
  BY <1>3, <1>4, <1>5, <1>6, <1>7

-----------------------------------------------------------------------------
(***************************************************************************)
(* The steps of announcements.                                             *)
(***************************************************************************)
LEMMA JobMovesOn ==
  ASSUME ServerInv, NEW t \in Thread,
         UNCHANGED <<up, session, trackPower, canDevices, packet, heard, due, blurred, polled>>,
         job' \in [Thread -> Jobs], \A u \in Thread : JobSound(job'[u]),
         \A u \in Thread \ {t} : job'[u] = job[u],
         \A x : Holds(t, x)' => \/ job'[t].fact.says = World(x)
                                \/ Holds(t, x) /\ job'[t].fact = job[t].fact,
         \A c \in Client : \A n \in NetID :
           Reaches(t, c, n) => Reaches(t, c, n)' /\ job'[t].flag = job[t].flag,
         \A c \in Client : Covers(t, c) => Covers(t, c)'
  PROVE  ServerInv'
<1>1. ServerTyped'
  BY DEF ServerInv, ServerTyped
<1>2. /\ \A x \in Topic : World(x)' = World(x)
      /\ \A c \in Client : \A x \in Topic : Listens(c, x)' <=> Listens(c, x)
      /\ \A c \in Client : \A flag : Has(c, flag)' <=> Has(c, flag)
  BY DEF World, Listens, Has
<1>3. \A u \in Thread \ {t} :
        /\ \A x : Holds(u, x)' <=> Holds(u, x)
        /\ \A c, x : Reaches(u, c, x)' <=> Reaches(u, c, x)
        /\ \A c : Covers(u, c)' <=> Covers(u, c)
  BY SameJob
<1>4. /\ \A c \in Client, u \in Thread : Covers(u, c) => Covers(u, c)'
      /\ \A c \in Client, u \in Thread, n \in NetID :
           Reaches(u, c, n) => Reaches(u, c, n)' /\ job'[u].flag = job[u].flag
  BY <1>3
<1>5. \A c \in Client, x \in Topic : Pending(c, x) => Pending(c, x)'
  BY <1>4 DEF Pending, Topic
<1>6. TopicsTrue'
  <2> SUFFICES ASSUME NEW x \in Topic \ blurred
               PROVE  SaysTrue(x)' /\ \A c \in Client : Knows(c, x)'
    BY DEF TopicsTrue
  <2>1. SaysTrue(x) /\ \A c \in Client : Knows(c, x)
    BY DEF ServerInv, TopicsTrue
  <2>2. ASSUME NEW u \in Thread, Holds(u, x)'
        PROVE  job'[u].fact.says = World(x)
    BY <1>3, <2>1, <2>2 DEF SaysTrue
  <2>3. SaysTrue(x)'
    BY <1>2, <2>1, <2>2 DEF SaysTrue
  <2>4. \A c \in Client : Knows(c, x)'
    BY <1>2, <1>5, <2>1 DEF Knows, Replied
  <2> QED
    BY <2>3, <2>4
<1>7. DueCovered'
  BY <1>2, <1>4 DEF ServerInv, ServerTyped, DueCovered, Answered, Topic
<1>8. PolledKnow'
  <2>1. \A c \in Client, n \in NetID : Meets(c, n) => Meets(c, n)'
    BY <1>4 DEF Meets
  <2>2. detectorDevices(canDevices)' = detectorDevices(canDevices)
        /\ detectorDevices(canDevices) \subseteq NetID
    BY DEF detectorDevices
  <2>3. ASSUME NEW c \in polled
        PROVE  (Has(c, CANDetector) /\ \A n \in detectorDevices(canDevices) : Meets(c, n))'
    BY <1>2, <2>1, <2>2 DEF ServerInv, ServerTyped, PolledKnow
  <2>4. ASSUME packet.polls
        PROVE  /\ Has(packet.from, CANDetector)' /\ ~packet.orphan
               /\ \A n \in detectorDevices(canDevices) :
                    About(packet.replies, n) # {} \/ Meets(packet.from, n)'
    <3>1. /\ Has(packet.from, CANDetector) /\ ~packet.orphan
          /\ \A n \in detectorDevices(canDevices) :
               About(packet.replies, n) # {} \/ Meets(packet.from, n)
      BY <2>4 DEF ServerInv, PolledKnow
    <3>2. packet.from \in Client
      BY <2>4 DEF ServerInv, ServerTyped, Packets, NoPacket
    <3> QED
      BY <1>2, <2>1, <2>2, <3>1, <3>2
  <2> QED
    BY <2>2, <2>3, <2>4 DEF PolledKnow
<1> QED
  BY <1>1, <1>6, <1>7, <1>8 DEF ServerInv

LEMMA AnnouncementKeeps ==
  ASSUME ServerInv, NEW t \in Thread, AnnouncementStep(t)
  PROVE  ServerInv'
<1>1. ServerTyped /\ UNCHANGED <<up, session, trackPower, canDevices, packet, heard, due, blurred, polled>>
  BY DEF ServerInv, AnnouncementStep, historyVars
<1>2. CASE xStatusReply(t) \/ systemStateReply(t)
  <2>1. /\ job' \in [Thread -> Jobs] /\ \A u \in Thread : JobSound(job'[u])
        /\ \A u \in Thread \ {t} : job'[u] = job[u]
        /\ \A x : ~Holds(t, x)
        /\ job'[t].stage = "list" /\ job'[t].fact = Fact(Power, trackPower)
        /\ \A c \in Client : Covers(t, c) => Covers(t, c)'
    BY <1>1, <1>2, StatusIsRead
  <2>2. \A x : Holds(t, x)' => job'[t].fact.says = World(x)
    BY <2>1, FactsTyped DEF Holds, World
  <2>3. \A c \in Client : \A n \in NetID : ~Reaches(t, c, n)
    BY <2>1 DEF Reaches
  <2> QED
    BY <1>1, <2>1, <2>2, <2>3, JobMovesOn
<1>3. CASE subscriberAddrs(t)
  BY <1>1, <1>3, RecipientsAreListed, JobMovesOn
<1> QED
  BY <1>2, <1>3 DEF AnnouncementStep

LEMMA HearsSound ==
  ASSUME ServerTyped, NEW c \in Client, NEW facts \in Seq(Facts),
         Hears(c, facts) \/ Misses(c, facts)
  PROVE  /\ heard' = [d \in Client |-> [x \in Topic |-> heard'[d][x]]]
         /\ \A d \in Client \ {c} : heard'[d] = heard[d]
         /\ \A x \in Topic : About(facts, x) = {} => heard'[c][x] = heard[c][x]
         /\ due' = due \/ due' = due \ {c}
         /\ Hears(c, facts) =>
              /\ \A x \in Topic : About(facts, x) # {} => heard'[c][x] = LastOf(facts, x)
              /\ (\E i \in About(facts, Power) : facts[i].says = trackPower) => due' = due \ {c}
         /\ Misses(c, facts) =>
              /\ \A x \in Topic : About(facts, x) # {} => heard'[c][x] = Absent
              /\ About(facts, Power) # {} => due' = due \ {c}
<1>1. heard = [d \in Client |-> [x \in Topic |-> heard[d][x]]]
  BY DEF ServerTyped
<1>2. PICK told \in {[x \in Topic |-> IF About(facts, x) # {} THEN LastOf(facts, x) ELSE heard[c][x]],
                     [x \in Topic |-> IF About(facts, x) # {} THEN Absent ELSE heard[c][x]]} :
        heard' = [heard EXCEPT ![c] = told]
  BY DEF Hears, Misses
<1>3. /\ \A d \in Client : heard'[d] = IF d = c THEN told ELSE heard[d]
      /\ heard' = [d \in Client |-> heard'[d]]
  BY <1>1, <1>2
<1>4. told = [x \in Topic |-> told[x]]
  BY <1>2
<1>5. \A d \in Client : heard[d] = [x \in Topic |-> heard[d][x]]
  BY <1>1
<1>6. heard' = [d \in Client |-> [x \in Topic |-> heard'[d][x]]]
  BY <1>3, <1>4, <1>5, ZenonT(60)
<1>7. \A x \in Topic : About(facts, x) = {} => heard'[c][x] = heard[c][x]
  BY <1>2, <1>3
<1>8. Hears(c, facts) => \A x \in Topic : About(facts, x) # {} => heard'[c][x] = LastOf(facts, x)
  BY <1>1 DEF Hears
<1>9. Misses(c, facts) => \A x \in Topic : About(facts, x) # {} => heard'[c][x] = Absent
  BY <1>1 DEF Misses
<1> QED
  BY <1>3, <1>6, <1>7, <1>8, <1>9 DEF Hears, Misses

(* A datagram arrives, or the client has forgotten what it told.           *)
LEMMA DatagramKeeps ==
  ASSUME ServerInv, NEW t \in Thread, NEW c \in Client,
         job[t].stage = "send", c \in job[t].to, Continues(t, job[t].to \ {c}),
         UNCHANGED <<up, session, trackPower, canDevices, blurred>>,
         heard' = [d \in Client |-> [x \in Topic |-> heard'[d][x]]],
         \A d \in Client \ {c} : heard'[d] = heard[d],
         \A x \in Topic \ {job[t].fact.about} : heard'[c][x] = heard[c][x],
         due' \subseteq due, job[t].fact = Fact(Power, trackPower) => c \notin due',
         polled' \subseteq polled,
         packet' \in Packets, packet'.from = Absent => packet' = NoPacket,
         packet'.from = packet.from, packet'.replies = packet.replies,
         packet'.orphan = packet.orphan, packet'.polls => packet.polls,
         \/ heard'[c][job[t].fact.about] = job[t].fact.says
         \/ heard'[c][job[t].fact.about] = Absent /\ c \notin polled' /\ ~(packet'.polls /\ packet'.from = c)
  PROVE  ServerInv'
<1> DEFINE f == job[t].fact
<1>1. ServerTyped
  BY DEF ServerInv
<1>2. /\ job' \in [Thread -> Jobs] /\ \A u \in Thread : JobSound(job'[u])
      /\ \A u \in Thread \ {t} : job'[u] = job[u]
      /\ f \in Facts
      /\ \A x : Holds(t, x)' => Holds(t, x) /\ job'[t].fact = f
      /\ \A d \in Client : \A x :
           Reaches(t, d, x) => \/ Reaches(t, d, x)' /\ job'[t].flag = job[t].flag
                               \/ d = c /\ x = f.about
      /\ \A d \in Client :
           Covers(t, d) => Covers(t, d)' \/ (d = c /\ f = Fact(Power, trackPower))
  BY <1>1, DatagramIsOut
<1>3. Holds(t, f.about) /\ f.about \in Topic /\ f.says # Absent
  BY <1>2, FactsTyped DEF Holds
<1> HIDE DEF f
<1>4. ServerTyped'
  BY <1>1, <1>2 DEF ServerTyped
<1>5. /\ \A x \in Topic : World(x)' = World(x)
      /\ \A d \in Client : \A x \in Topic : Listens(d, x)' <=> Listens(d, x)
      /\ \A d \in Client : \A flag : Has(d, flag)' <=> Has(d, flag)
  BY DEF World, Listens, Has
<1>6. \A u \in Thread \ {t} :
        /\ \A x : Holds(u, x)' <=> Holds(u, x)
        /\ \A d, x : Reaches(u, d, x)' <=> Reaches(u, d, x)
        /\ \A d : Covers(u, d)' <=> Covers(u, d)
  BY <1>2, SameJob
<1>7. /\ \A d \in Client, u \in Thread :
           Covers(u, d) => Covers(u, d)' \/ (d = c /\ f = Fact(Power, trackPower))
      /\ \A d \in Client, u \in Thread, x \in Topic :
           Reaches(u, d, x) => \/ Reaches(u, d, x)' /\ job'[u].flag = job[u].flag
                               \/ d = c /\ x = f.about
  BY <1>2, <1>6
<1>8. \A d \in Client, x \in Topic : Pending(d, x) => Pending(d, x)' \/ (d = c /\ x = f.about)
  BY <1>7, FactsTyped DEF Pending
<1>9. TopicsTrue'
  <2> SUFFICES ASSUME NEW x \in Topic \ blurred
               PROVE  SaysTrue(x)' /\ \A d \in Client : Knows(d, x)'
    BY DEF TopicsTrue
  <2>1. SaysTrue(x) /\ \A d \in Client : Knows(d, x)
    BY DEF ServerInv, TopicsTrue
  <2>2. ASSUME NEW u \in Thread, Holds(u, x)'
        PROVE  job'[u].fact.says = World(x)
    BY <1>2, <1>6, <2>1, <2>2 DEF SaysTrue, f
  <2>3. SaysTrue(x)'
    BY <1>5, <2>1, <2>2 DEF SaysTrue
  <2>4. ASSUME NEW d \in Client
        PROVE  Knows(d, x)'
    <3>1. CASE d = c /\ x = f.about
      <4>1. f.says = World(x)
        BY <1>3, <2>1, <3>1 DEF SaysTrue, f
      <4>2. heard'[c][x] \in {Absent, World(x)}
        BY <3>1, <4>1 DEF f
      <4> QED
        BY <1>5, <3>1, <4>2 DEF Knows
    <3>2. CASE ~(d = c /\ x = f.about)
      <4>1. heard'[d][x] = heard[d][x]
        BY <3>2 DEF f
      <4>2. Knows(d, x)
        BY <2>1
      <4> QED
        BY <1>5, <1>8, <3>2, <4>1, <4>2 DEF Knows, Replied
    <3> QED
      BY <3>1, <3>2
  <2> QED
    BY <2>3, <2>4
<1>10. DueCovered'
  <2> SUFFICES ASSUME NEW d \in due'
               PROVE  /\ Listens(d, Power)'
                      /\ (packet'.from = d /\ Answered(d)') \/ \E u \in Thread : Covers(u, d)'
    BY DEF DueCovered
  <2>1. d \in due /\ d \in Client
    BY <1>1 DEF ServerTyped
  <2>2. Listens(d, Power) /\ ((packet.from = d /\ Answered(d)) \/ \E u \in Thread : Covers(u, d))
    BY <2>1 DEF ServerInv, DueCovered
  <2>3. Answered(d)' <=> Answered(d)
    BY DEF Answered
  <2>4. ~(d = c /\ f = Fact(Power, trackPower))
    BY DEF f
  <2> QED
    BY <1>5, <1>7, <2>1, <2>2, <2>3, <2>4 DEF Topic
<1>11. PolledKnow'
  <2>1. detectorDevices(canDevices)' = detectorDevices(canDevices)
        /\ detectorDevices(canDevices) \subseteq NetID
    BY DEF detectorDevices
  <2>2. ASSUME NEW d \in Client, NEW n \in NetID, Meets(d, n),
               d \in polled' \/ (packet'.polls /\ packet'.from = d)
        PROVE  Meets(d, n)'
    <3>1. n \in Topic
      BY DEF Topic
    <3>2. CASE d = c /\ n = f.about
      <4>1. heard'[c][n] = f.says
        BY <2>2, <3>2 DEF f
      <4> QED
        BY <1>3, <3>2, <4>1 DEF Meets
    <3>3. CASE ~(d = c /\ n = f.about)
      <4>1. heard'[d][n] = heard[d][n]
        BY <3>1, <3>3 DEF f
      <4> QED
        BY <1>7, <2>2, <3>1, <3>3, <4>1 DEF Meets
    <3> QED
      BY <3>2, <3>3
  <2>3. ASSUME NEW d \in polled'
        PROVE  Has(d, CANDetector)' /\ \A n \in detectorDevices(canDevices) : Meets(d, n)'
    <3>1. d \in polled /\ d \in Client
      BY <1>1 DEF ServerTyped
    <3>2. Has(d, CANDetector) /\ \A n \in detectorDevices(canDevices) : Meets(d, n)
      BY <3>1 DEF ServerInv, PolledKnow
    <3> QED
      BY <1>5, <2>1, <2>2, <3>1, <3>2
  <2>4. ASSUME packet'.polls
        PROVE  /\ Has(packet.from, CANDetector)' /\ ~packet'.orphan
               /\ \A n \in detectorDevices(canDevices) :
                    About(packet.replies, n)' # {} \/ Meets(packet.from, n)'
    <3>1. /\ Has(packet.from, CANDetector) /\ ~packet.orphan
          /\ \A n \in detectorDevices(canDevices) :
               About(packet.replies, n) # {} \/ Meets(packet.from, n)
      BY <2>4 DEF ServerInv, PolledKnow
    <3>2. packet.from \in Client
      BY <1>1, <2>4 DEF ServerTyped, Packets, NoPacket
    <3>3. \A n \in NetID : Meets(packet.from, n) => Meets(packet.from, n)'
      <4> SUFFICES ASSUME NEW n \in NetID, Meets(packet.from, n)
                   PROVE  Meets(packet.from, n)'
        OBVIOUS
      <4>1. PICK d \in Client : d = packet.from
        BY <3>2
      <4>2. Meets(d, n) /\ packet'.from = d
        BY <4>1
      <4>3. Meets(d, n)'
        BY <2>2, <2>4, <4>2
      <4> QED
        BY <4>2, <4>3 DEF Meets, Reaches, Has
    <3>4. Has(packet.from, CANDetector)'
      BY <3>1 DEF Has
    <3>5. \A n : About(packet.replies, n)' = About(packet.replies, n)
      BY DEF About
    <3> QED
      BY <2>1, <3>1, <3>3, <3>4, <3>5
  <2> QED
    BY <2>1, <2>3, <2>4 DEF PolledKnow
<1> QED
  BY <1>4, <1>9, <1>10, <1>11 DEF ServerInv

LEMMA SendKeeps ==
  ASSUME ServerInv, NEW t \in Thread, NEW c \in Client, sendUDP(t, c) \/ DatagramLost(t, c)
  PROVE  ServerInv'
<1> DEFINE f == job[t].fact
<1>1. /\ job[t].stage = "send" /\ c \in job[t].to /\ Continues(t, job[t].to \ {c})
      /\ UNCHANGED <<up, session, trackPower, canDevices, blurred>>
      /\ ServerTyped
  BY DEF sendUDP, DatagramLost, ServerInv
<1>2. f \in Facts
  BY <1>1, DatagramIsOut
<1>3. /\ <<f>> \in Seq(Facts) /\ f.about \in Topic
      /\ \A x \in Topic : About(<<f>>, x) = IF f.about = x THEN {1} ELSE {}
      /\ LastOf(<<f>>, f.about) = f.says /\ <<f>>[1] = f
  BY <1>2, OneFact, FactsTyped
<1>4. Hears(c, <<f>>) \/ Misses(c, <<f>>)
  BY DEF sendUDP, DatagramLost
<1>5. /\ heard' = [d \in Client |-> [x \in Topic |-> heard'[d][x]]]
      /\ \A d \in Client \ {c} : heard'[d] = heard[d]
      /\ \A x \in Topic : About(<<f>>, x) = {} => heard'[c][x] = heard[c][x]
      /\ due' = due \/ due' = due \ {c}
      /\ Hears(c, <<f>>) =>
           /\ \A x \in Topic : About(<<f>>, x) # {} => heard'[c][x] = LastOf(<<f>>, x)
           /\ (\E i \in About(<<f>>, Power) : <<f>>[i].says = trackPower) => due' = due \ {c}
      /\ Misses(c, <<f>>) =>
           /\ \A x \in Topic : About(<<f>>, x) # {} => heard'[c][x] = Absent
           /\ About(<<f>>, Power) # {} => due' = due \ {c}
  BY <1>1, <1>3, <1>4, HearsSound
<1> HIDE DEF f
<1>6. \A x \in Topic \ {f.about} : heard'[c][x] = heard[c][x]
  BY <1>3, <1>5
<1>7. /\ About(<<f>>, f.about) # {}
      /\ f.about = Power => About(<<f>>, Power) = {1}
  BY <1>3
<1>8. due' \subseteq due /\ (f = Fact(Power, trackPower) => c \notin due')
  <2>1. due' \subseteq due
    BY <1>5
  <2>2. ASSUME f = Fact(Power, trackPower)
        PROVE  c \notin due'
    <3>1. f.about = Power /\ f.says = trackPower
      BY <2>2, FactsTyped
    <3>2. About(<<f>>, Power) = {1} /\ <<f>>[1].says = trackPower
      BY <1>3, <1>7, <3>1
    <3>3. About(<<f>>, Power) # {} /\ \E i \in About(<<f>>, Power) : <<f>>[i].says = trackPower
      BY <3>2
    <3>4. due' = due \ {c}
      BY <1>4, <1>5, <3>3
    <3> QED
      BY <3>4
  <2> QED
    BY <2>1, <2>2
<1>9. packet \in Packets /\ (packet.from = Absent => packet = NoPacket)
  BY <1>1 DEF ServerTyped
<1>10. CASE sendUDP(t, c)
  <2>1. UNCHANGED <<packet, polled>> /\ Hears(c, <<f>>)
    BY <1>10 DEF sendUDP, f
  <2>2. heard'[c][f.about] = f.says
    BY <1>3, <1>5, <1>7, <2>1
  <2>3. /\ packet' \in Packets /\ (packet'.from = Absent => packet' = NoPacket)
        /\ packet'.from = packet.from /\ packet'.replies = packet.replies
        /\ packet'.orphan = packet.orphan /\ (packet'.polls => packet.polls)
        /\ polled' \subseteq polled
    BY <1>9, <2>1
  <2> QED
    BY <1>1, <1>5, <1>6, <1>8, <2>2, <2>3, DatagramKeeps DEF f
<1>11. CASE DatagramLost(t, c)
  <2>1. /\ Misses(c, <<f>>) /\ polled' = polled \ {c}
        /\ packet' = [packet EXCEPT !.polls = @ /\ packet.from # c]
    BY <1>11 DEF DatagramLost, f
  <2>2. heard'[c][f.about] = Absent
    BY <1>3, <1>5, <1>7, <2>1
  <2>3. PICK polls \in BOOLEAN : polls = (packet.polls /\ packet.from # c)
    OBVIOUS
  <2>4. packet' = [packet EXCEPT !.polls = polls]
    BY <1>9, <2>1, <2>3 DEF Packets
  <2>5. /\ packet' \in Packets
        /\ packet'.from = packet.from /\ packet'.replies = packet.replies
        /\ packet'.orphan = packet.orphan /\ packet'.polls = polls
        /\ packet.polls = polls => packet' = packet
    BY <1>9, <2>4 DEF Packets
  <2>6. packet'.from = Absent => packet' = NoPacket
    <3> SUFFICES ASSUME packet'.from = Absent
                 PROVE  packet' = NoPacket
      OBVIOUS
    <3>1. packet = NoPacket /\ ~packet.polls
      BY <1>9, <2>5 DEF NoPacket
    <3>2. packet.polls = polls
      BY <2>3, <3>1 DEF NoPacket
    <3> QED
      BY <2>5, <3>1, <3>2
  <2>7. c \notin polled' /\ polled' \subseteq polled /\ ~(packet'.polls /\ packet'.from = c)
        /\ (packet'.polls => packet.polls)
    BY <2>1, <2>3, <2>5
  <2> QED
    BY <1>1, <1>5, <1>6, <1>8, <2>2, <2>5, <2>6, <2>7, DatagramKeeps DEF f
<1> QED
  BY <1>10, <1>11

-----------------------------------------------------------------------------
(***************************************************************************)
(* The messages of a packet.                                               *)
(***************************************************************************)
LEMMA LanMessages ==
  ASSUME NEW m \in LanMessage
  PROVE  /\ m.op = "flags" => m.flags \in SUBSET Flag
         /\ m.op = "power" => m.on \in BOOLEAN
         /\ m.op = "describe" => m.net \in NetID
         /\ m.op = "address" => m.net \in NetID /\ m.addr \in Nat
         /\ m.op = "booster" => m.net \in NetID /\ m.on \in BOOLEAN
BY DEF LanMessage

LEMMA AskedIs ==
  ASSUME ServerTyped, NEW op, Asked(op)
  PROVE  /\ packet.from \in Client /\ packet.todo \in Seq(LanMessage) /\ packet.replies \in Seq(Facts)
         /\ Message \in LanMessage /\ Message.op = op /\ Tail(packet.todo) \in Seq(LanMessage)
         /\ packet \in Packets /\ job[Lan].stage = "idle"
<1>1. packet.todo # <<>> /\ packet.todo \in Seq(LanMessage) /\ packet.replies \in Seq(Facts)
  BY DEF Asked, ServerTyped, Packets
<1>2. packet.from \in Client
  BY <1>1 DEF ServerTyped, Packets, NoPacket
<1>3. job[Lan].stage = "idle"
  BY DEF Asked, Idle
<1> QED
  BY <1>1, <1>2, <1>3 DEF ServerTyped, Asked, Message

(* A session changes its flags, or ends.                                   *)
LEMMA FlagsKeep ==
  ASSUME ServerInv, NEW c \in Client, NEW flags \in SUBSET Flag, FlagsChange(c, flags),
         session' \in [Client -> (SUBSET Flag) \cup {Absent}],
         \A d \in Client \ {c} : session'[d] = session[d],
         \A flag : Has(c, flag)' <=> flag \in flags,
         UNCHANGED <<up, trackPower, canDevices, job, blurred>>,
         packet' \in Packets, packet.from = c, packet'.from = c, packet'.replies = packet.replies,
         packet'.polls => packet.polls /\ CANDetector \in flags /\ ~packet'.orphan
  PROVE  ServerInv'
<1> DEFINE drops == \E flag \in {XpressNet, SystemState} : Has(c, flag) /\ flag \notin flags
           Renewed(x) == ~Listens(c, x) \/ (x = Power /\ drops)
<1>1. ServerTyped /\ c # Absent
  BY ServerAssumption DEF ServerInv
<1>2. /\ due' = IF drops THEN due \ {c} ELSE due
      /\ heard' = [heard EXCEPT ![c] = [x \in Topic |-> IF Renewed(x) THEN Absent ELSE heard[c][x]]]
      /\ polled' = IF CANDetector \in flags THEN polled ELSE polled \ {c}
  BY DEF FlagsChange
<1> HIDE DEF drops, Renewed
<1>3. /\ heard' = [d \in Client |-> [x \in Topic |-> heard'[d][x]]]
      /\ \A d \in Client \ {c} : heard'[d] = heard[d]
      /\ \A x \in Topic : heard'[c][x] = IF Renewed(x) THEN Absent ELSE heard[c][x]
  <2>1. heard = [d \in Client |-> [x \in Topic |-> heard[d][x]]]
    BY <1>1 DEF ServerTyped
  <2>2. PICK told : told = [x \in Topic |-> IF Renewed(x) THEN Absent ELSE heard[c][x]]
    OBVIOUS
  <2>3. heard' = [heard EXCEPT ![c] = told]
    BY <1>2, <2>2
  <2>4. /\ \A d \in Client : heard'[d] = IF d = c THEN told ELSE heard[d]
        /\ heard' = [d \in Client |-> heard'[d]]
    BY <2>1, <2>3
  <2>5. told = [x \in Topic |-> told[x]] /\ \A d \in Client : heard[d] = [x \in Topic |-> heard[d][x]]
    BY <2>1, <2>2
  <2>6. heard' = [d \in Client |-> [x \in Topic |-> heard'[d][x]]]
    <3>1. ASSUME NEW d \in Client
          PROVE  heard'[d] = [x \in Topic |-> heard'[d][x]]
      <4>1. heard'[d] = told \/ heard'[d] = heard[d]
        BY <2>4
      <4> QED
        BY <2>5, <4>1
    <3> QED
      BY <2>4, <3>1
  <2>7. \A x \in Topic : heard'[c][x] = IF Renewed(x) THEN Absent ELSE heard[c][x]
    BY <2>2, <2>4
  <2> QED
    BY <2>4, <2>6, <2>7
<1>4. ServerTyped'
  BY <1>1, <1>2, <1>3 DEF ServerTyped
<1>5. /\ \A x : World(x)' = World(x)
      /\ \A u \in Thread, x \in Topic : Holds(u, x)' <=> Holds(u, x)
      /\ \A d \in Client \ {c} : \A flag : Has(d, flag)' <=> Has(d, flag)
      /\ \A x : About(packet.replies, x)' = About(packet.replies, x)
      /\ \A x : LastOf(packet.replies, x)' = LastOf(packet.replies, x)
      /\ Answered(c)' <=> Answered(c)
  BY DEF World, Holds, Has, About, LastOf, Answered
<1>6. ASSUME NEW d \in Client \ {c}
      PROVE  /\ \A x : Listens(d, x)' <=> Listens(d, x)
             /\ \A u \in Thread, x \in Topic : Reaches(u, d, x)' <=> Reaches(u, d, x)
             /\ \A u \in Thread : Covers(u, d)' <=> Covers(u, d)
             /\ \A x : Replied(d, x)' <=> Replied(d, x)
  <2>1. \A x : Listens(d, x)' <=> Listens(d, x)
    BY <1>5 DEF Listens
  <2>2. \A u \in Thread, x \in Topic : Reaches(u, d, x)' <=> Reaches(u, d, x)
    BY <1>5 DEF Reaches
  <2>3. \A u \in Thread : Covers(u, d)' <=> Covers(u, d)
    BY <1>5, <2>2 DEF Covers, Topic
  <2> QED
    BY <1>5, <2>1, <2>2, <2>3 DEF Replied
<1>7. \A u \in Thread : JobSound(job[u]) /\ job[u] \in Jobs
  BY <1>1 DEF ServerTyped
<1>8. ASSUME ~drops, NEW u \in Thread, Covers(u, c)
      PROVE  Covers(u, c)'
  <2>1. \A flag \in {XpressNet, SystemState} : Has(c, flag) => Has(c, flag)'
    BY <1>8 DEF drops
  <2>2. CASE Reaches(u, c, Power) /\ job[u].fact.says = trackPower
    <3>1. job[u].fact.about = Power /\ job[u].stage \in {"list", "send"}
      BY <2>2 DEF Reaches, Holds
    <3>2. job[u].fact \in Facts
      BY <1>7, <3>1, JobFields DEF JobSound
    <3>3. job[u].flag \in {XpressNet, SystemState}
      BY <1>7, <3>1, <3>2, FactsTyped DEF JobSound
    <3>4. Reaches(u, c, Power)'
      BY <1>5, <2>1, <2>2, <3>3 DEF Reaches, Topic
    <3> QED
      BY <2>2, <3>4 DEF Covers
  <2> QED
    BY <1>8, <2>1, <2>2 DEF Covers
<1>9. TopicsTrue'
  <2> SUFFICES ASSUME NEW x \in Topic \ blurred
               PROVE  SaysTrue(x)' /\ \A d \in Client : Knows(d, x)'
    BY DEF TopicsTrue
  <2>1. SaysTrue(x) /\ \A d \in Client : Knows(d, x)
    BY DEF ServerInv, TopicsTrue
  <2>2. SaysTrue(x)'
    BY <1>5, <2>1 DEF SaysTrue
  <2>3. ASSUME NEW d \in Client \ {c}
        PROVE  Knows(d, x)'
    <3>1. Pending(d, x)' <=> Pending(d, x)
      BY <1>6 DEF Pending
    <3> QED
      BY <1>3, <1>5, <1>6, <2>1, <3>1 DEF Knows
  <2>4. ASSUME Listens(c, x)', ~Renewed(x)
        PROVE  heard'[c][x] \in {Absent, World(x)} \/ (x = Power /\ Replied(c, x)') \/ Pending(c, x)'
    <3>1. Listens(c, x) /\ (x = Power => ~drops)
      BY <2>4 DEF Renewed
    <3>2. heard[c][x] \in {Absent, World(x)} \/ (x = Power /\ Replied(c, x)) \/ Pending(c, x)
      BY <2>1, <3>1 DEF Knows
    <3>3. Replied(c, x) => Replied(c, x)'
      BY <1>5 DEF Replied
    <3>4. ASSUME Pending(c, x)
          PROVE  Pending(c, x)'
      <4>1. CASE x = Power
        BY <1>8, <3>1, <3>4, <4>1 DEF Pending
      <4>2. CASE x # Power
        <5>1. PICK u \in Thread : Reaches(u, c, x)
          BY <3>4, <4>2 DEF Pending
        <5>2. Holds(u, x) /\ x \in NetID /\ job[u].fact.about = x
          BY <4>2, <5>1 DEF Reaches, Holds, Topic
        <5>3. job[u].fact.says = canDevices[x]
          BY <2>1, <4>2, <5>2 DEF SaysTrue, World
        <5>4. job[u].flag = KindFlag(canDevices[x])
          BY <1>7, <5>2, <5>3 DEF JobSound
        <5>5. Has(c, job[u].flag)'
          BY <2>4, <4>2, <5>4 DEF Listens, KindFlag, IsKind, Detector, Booster
        <5>6. Reaches(u, c, x)'
          BY <1>5, <5>1, <5>5 DEF Reaches
        <5> QED
          BY <4>2, <5>6 DEF Pending
      <4> QED
        BY <4>1, <4>2
    <3> QED
      BY <1>3, <2>4, <3>2, <3>3, <3>4
  <2>5. Knows(c, x)'
    BY <1>3, <1>5, <2>4 DEF Knows
  <2> QED
    BY <2>2, <2>3, <2>5
<1>10. DueCovered'
  <2> SUFFICES ASSUME NEW d \in due'
               PROVE  /\ Listens(d, Power)'
                      /\ (packet'.from = d /\ Answered(d)') \/ \E u \in Thread : Covers(u, d)'
    BY DEF DueCovered
  <2>1. d \in due /\ d \in Client /\ (d = c => ~drops)
    BY <1>1, <1>2 DEF ServerTyped
  <2>2. Listens(d, Power) /\ ((packet.from = d /\ Answered(d)) \/ \E u \in Thread : Covers(u, d))
    BY <2>1 DEF ServerInv, DueCovered
  <2>3. CASE d = c
    <3>1. Listens(d, Power)'
      BY <2>1, <2>2, <2>3 DEF Listens, drops
    <3> QED
      BY <1>5, <1>8, <2>1, <2>2, <2>3, <3>1
  <2>4. CASE d # c
    BY <1>6, <2>1, <2>2, <2>4
  <2> QED
    BY <2>3, <2>4
<1>11. PolledKnow'
  <2>1. detectorDevices(canDevices)' = detectorDevices(canDevices)
        /\ detectorDevices(canDevices) \subseteq NetID
        /\ \A n \in detectorDevices(canDevices) : n \in Topic /\ n # Power /\ IsKind(canDevices[n], Detector)
    BY ServerAssumption DEF detectorDevices, Topic
  <2>2. ASSUME CANDetector \in flags, Has(c, CANDetector), NEW n \in detectorDevices(canDevices), Meets(c, n)
        PROVE  Meets(c, n)'
    <3>1. Listens(c, n)
      BY <2>1, <2>2 DEF Listens
    <3>2. heard'[c][n] = heard[c][n]
      BY <1>3, <2>1, <3>1 DEF Renewed
    <3>3. CASE heard[c][n] # Absent
      BY <3>2, <3>3 DEF Meets
    <3>4. ASSUME NEW u \in Thread, Reaches(u, c, n), job[u].flag = CANDetector
          PROVE  Meets(c, n)'
      <4>1. Has(c, job[u].flag)'
        BY <2>2, <3>4
      <4>2. Holds(u, n)'
        BY <1>5, <2>1, <3>4 DEF Reaches
      <4>3. Reaches(u, c, n)'
        BY <3>4, <4>1, <4>2 DEF Reaches
      <4> QED
        BY <3>4, <4>3 DEF Meets
    <3> QED
      BY <2>2, <3>3, <3>4 DEF Meets
  <2>3. ASSUME NEW d \in polled'
        PROVE  (Has(d, CANDetector) /\ \A n \in detectorDevices(canDevices) : Meets(d, n))'
    <3>1. d \in polled /\ d \in Client /\ (d = c => CANDetector \in flags)
      BY <1>1, <1>2 DEF ServerTyped
    <3>2. Has(d, CANDetector) /\ \A n \in detectorDevices(canDevices) : Meets(d, n)
      BY <3>1 DEF ServerInv, PolledKnow
    <3>3. CASE d = c
      BY <2>1, <2>2, <3>1, <3>2, <3>3
    <3>4. CASE d # c
      <4>1. Has(d, CANDetector)' /\ heard'[d] = heard[d]
        BY <1>3, <1>5, <3>1, <3>2, <3>4
      <4>2. \A n \in detectorDevices(canDevices) : Meets(d, n)'
        BY <1>6, <2>1, <3>1, <3>2, <3>4, <4>1 DEF Meets
      <4> QED
        BY <2>1, <4>1, <4>2
    <3> QED
      BY <3>3, <3>4
  <2>4. ASSUME packet'.polls
        PROVE  /\ Has(packet.from, CANDetector)' /\ ~packet'.orphan
               /\ \A n \in detectorDevices(canDevices) :
                    About(packet.replies, n)' # {} \/ Meets(packet.from, n)'
    <3>1. packet.polls /\ CANDetector \in flags /\ ~packet'.orphan
      BY <2>4
    <3>2. /\ Has(c, CANDetector)
          /\ \A n \in detectorDevices(canDevices) :
               About(packet.replies, n) # {} \/ Meets(c, n)
      BY <3>1 DEF ServerInv, PolledKnow
    <3>3. \A n \in detectorDevices(canDevices) : About(packet.replies, n)' # {} \/ Meets(c, n)'
      BY <1>5, <2>2, <3>1, <3>2
    <3>4. Has(packet.from, CANDetector)'
      BY <3>1 DEF Has
    <3> QED
      BY <3>1, <3>3, <3>4 DEF Meets, Reaches, Has
  <2> QED
    BY <2>1, <2>3, <2>4 DEF PolledKnow
<1> QED
  BY <1>4, <1>9, <1>10, <1>11 DEF ServerInv

LEMMA SetFlagsKeeps ==
  ASSUME ServerInv, SetBroadcastFlags, ~packet.orphan
  PROVE  ServerInv'
<1>1. ServerTyped /\ Asked("flags")
  BY DEF ServerInv, SetBroadcastFlags
<1>2. /\ packet.from \in Client /\ packet \in Packets /\ Message \in LanMessage
      /\ Message.op = "flags" /\ Tail(packet.todo) \in Seq(LanMessage)
  BY <1>1, AskedIs
<1> PICK c \in Client, flags \in SUBSET Flag, todo \in Seq(LanMessage) :
       c = packet.from /\ flags = Message.flags /\ todo = Tail(packet.todo)
  BY <1>2, LanMessages
<1>4. /\ FlagsChange(c, flags) /\ session' = [session EXCEPT ![c] = flags]
      /\ UNCHANGED <<up, trackPower, canDevices, job, blurred>>
      /\ packet' = [packet EXCEPT !.todo = todo, !.polls = @ /\ CANDetector \in flags]
  BY DEF SetBroadcastFlags
<1>6. PICK polls \in BOOLEAN : polls = (packet.polls /\ CANDetector \in flags)
  OBVIOUS
<1>7. packet' = [packet EXCEPT !.todo = todo, !.polls = polls]
  BY <1>2, <1>4, <1>6 DEF Packets
<1>8. /\ packet' \in Packets /\ packet'.from = c /\ packet'.replies = packet.replies
      /\ packet'.orphan = packet.orphan /\ packet'.polls = polls
  BY <1>2, <1>7 DEF Packets
<1>9. /\ session' \in [Client -> (SUBSET Flag) \cup {Absent}] /\ session'[c] = flags
      /\ \A d \in Client \ {c} : session'[d] = session[d]
  BY <1>1, <1>4 DEF ServerTyped
<1>10. \A flag : Has(c, flag)' <=> flag \in flags
  BY <1>9, SessionAssumption DEF Has
<1>11. packet'.polls => packet.polls /\ CANDetector \in flags /\ ~packet'.orphan
  BY <1>6, <1>8
<1> QED
  BY <1>4, <1>8, <1>9, <1>10, <1>11, FlagsKeep

LEMMA LogOffKeeps ==
  ASSUME ServerInv, removeClient
  PROVE  ServerInv'
<1>1. ServerTyped /\ Asked("logoff")
  BY DEF ServerInv, removeClient
<1>2. packet.from \in Client /\ packet \in Packets /\ Tail(packet.todo) \in Seq(LanMessage)
  BY <1>1, AskedIs
<1> PICK c \in Client, todo \in Seq(LanMessage) : c = packet.from /\ todo = Tail(packet.todo)
  BY <1>2
<1>3. /\ FlagsChange(c, {}) /\ session' = [session EXCEPT ![c] = Absent]
      /\ UNCHANGED <<up, trackPower, canDevices, job, blurred>>
      /\ packet' = [packet EXCEPT !.todo = todo, !.orphan = TRUE, !.polls = FALSE]
  BY DEF removeClient
<1>5. PICK yes \in BOOLEAN, no \in BOOLEAN : yes = TRUE /\ no = FALSE
  OBVIOUS
<1>6. packet' = [packet EXCEPT !.todo = todo, !.orphan = yes, !.polls = no]
  BY <1>3, <1>5
<1>7. /\ packet' \in Packets /\ packet'.from = c /\ packet'.replies = packet.replies
      /\ packet'.polls = no
  BY <1>2, <1>6 DEF Packets
<1>8. /\ session' \in [Client -> (SUBSET Flag) \cup {Absent}] /\ session'[c] = Absent
      /\ \A d \in Client \ {c} : session'[d] = session[d]
  BY <1>1, <1>3 DEF ServerTyped
<1>9. \A flag : ~Has(c, flag)'
  BY <1>8 DEF Has
<1>10. {} \in SUBSET Flag /\ \A flag : Has(c, flag)' <=> flag \in {}
  BY <1>9
<1>11. ~packet'.polls
  BY <1>5, <1>7
<1> QED
  BY <1>3, <1>7, <1>8, <1>10, <1>11, FlagsKeep

LEMMA AboutGrows ==
  ASSUME NEW facts \in Seq(Facts), NEW more \in Seq(Facts), NEW x
  PROVE  /\ facts \o more \in Seq(Facts)
         /\ \A i \in About(facts, x) : i \in About(facts \o more, x) /\ (facts \o more)[i] = facts[i]
         /\ About(more, x) # {} => About(facts \o more, x) # {}
<1>1. /\ facts \o more \in Seq(Facts) /\ Len(facts) \in Nat /\ Len(more) \in Nat
      /\ DOMAIN (facts \o more) = 1 .. Len(facts) + Len(more) /\ DOMAIN more = 1 .. Len(more)
      /\ DOMAIN facts = 1 .. Len(facts)
      /\ \A i \in 1 .. Len(facts) + Len(more) :
           (facts \o more)[i] = IF i <= Len(facts) THEN facts[i] ELSE more[i - Len(facts)]
  OBVIOUS
<1>2. \A i \in About(facts, x) : i \in About(facts \o more, x) /\ (facts \o more)[i] = facts[i]
  BY <1>1 DEF About
<1>3. ASSUME NEW i \in About(more, x)
      PROVE  About(facts \o more, x) # {}
  <2>1. i \in DOMAIN more /\ more[i].about = x
    BY DEF About
  <2>2. Len(facts) + i \in DOMAIN (facts \o more) /\ (facts \o more)[Len(facts) + i] = more[i]
    BY <1>1, <2>1
  <2> QED
    BY <2>1, <2>2 DEF About
<1> QED
  BY <1>1, <1>2, <1>3

(* A message is answered with what holds; of the registry nothing changes  *)
(* but what is blurred, and no detector comes or goes.                     *)
LEMMA PacketKeeps ==
  ASSUME ServerInv, packet.from \in Client, NEW more \in Seq(Facts),
         packet' \in Packets, packet'.from = packet.from,
         packet'.replies = packet.replies \o more, packet'.orphan = packet.orphan,
         UNCHANGED <<up, session, trackPower, job, heard, due, polled>>,
         canDevices' \in [NetID -> CANDevice \cup {Absent}],
         detectorDevices(canDevices') = detectorDevices(canDevices),
         blurred \subseteq blurred', blurred' \subseteq Topic,
         \A n \in NetID \ blurred' : canDevices'[n] = canDevices[n],
         \A x \in Topic \ blurred' : \A i \in About(more, x) : more[i].says = World(x)',
         packet'.polls => \/ packet.polls
                          \/ /\ Has(packet.from, CANDetector) /\ ~packet.orphan
                             /\ \A n \in detectorDevices(canDevices) : About(more, n) # {}
  PROVE  ServerInv'
<1>1. ServerTyped /\ packet.replies \in Seq(Facts)
  BY DEF ServerInv, ServerTyped, Packets
<1>2. ServerTyped'
  BY <1>1, ServerAssumption DEF ServerTyped
<1>3. /\ \A u \in Thread, x \in Topic : Holds(u, x)' <=> Holds(u, x)
      /\ \A d \in Client : \A flag : Has(d, flag)' <=> Has(d, flag)
      /\ \A u \in Thread, d \in Client, x \in Topic : Reaches(u, d, x)' <=> Reaches(u, d, x)
      /\ \A u \in Thread, d \in Client : Covers(u, d)' <=> Covers(u, d)
      /\ \A d \in Client, x \in Topic : Pending(d, x)' <=> Pending(d, x)
  BY DEF Holds, Has, Reaches, Covers, Pending
<1>4. \A x \in Topic \ blurred' :
        World(x)' = World(x) /\ \A d \in Client : Listens(d, x)' <=> Listens(d, x)
  BY DEF World, Listens, Has, Topic
<1>5. \A x : /\ About(packet.replies, x) # {} => About(packet.replies, x)' # {}
             /\ About(more, x) # {} => About(packet.replies, x)' # {}
  <2>1. \A x : /\ About(packet.replies, x) # {} => About(packet.replies \o more, x) # {}
               /\ About(more, x) # {} => About(packet.replies \o more, x) # {}
    BY <1>1, AboutGrows
  <2>2. \A x : About(packet.replies, x)' = About(packet.replies \o more, x)
    BY DEF About
  <2> QED
    BY <2>1, <2>2
<1>6. TopicsTrue'
  <2> SUFFICES ASSUME NEW x \in Topic \ blurred'
               PROVE  SaysTrue(x)' /\ \A d \in Client : Knows(d, x)'
    BY DEF TopicsTrue
  <2>1. SaysTrue(x) /\ \A d \in Client : Knows(d, x)
    BY DEF ServerInv, TopicsTrue
  <2>2. /\ About(packet.replies, x)' = About(packet.replies \o more, x)
        /\ LastOf(packet.replies, x)' = LastOf(packet.replies \o more, x)
    BY DEF About, LastOf
  <2>3. About(packet.replies \o more, x) # {} => LastOf(packet.replies \o more, x) = World(x)'
    <3>1. CASE About(more, x) = {}
      <4>1. /\ About(packet.replies \o more, x) = About(packet.replies, x)
            /\ About(packet.replies, x) # {} =>
                 LastOf(packet.replies \o more, x) = LastOf(packet.replies, x)
        BY <1>1, <3>1, LastBefore
      <4> QED
        BY <1>4, <2>1, <4>1 DEF SaysTrue
    <3>2. CASE About(more, x) # {}
      <4>1. PICK v : v = World(x)'
        OBVIOUS
      <4>2. \A i \in About(more, x) : more[i].says = v
        BY <4>1
      <4>3. PICK i \in About(more, x) : LastOf(packet.replies \o more, x) = more[i].says
        BY <1>1, <3>2, LastAfter
      <4> QED
        BY <4>1, <4>2, <4>3
    <3> QED
      BY <3>1, <3>2
  <2>4. SaysTrue(x)'
    BY <1>3, <1>4, <2>1, <2>2, <2>3 DEF SaysTrue
  <2>5. \A d \in Client : Knows(d, x)'
    BY <1>3, <1>4, <1>5, <2>1 DEF Knows, Replied
  <2> QED
    BY <2>4, <2>5
<1>7. DueCovered'
  <2> SUFFICES ASSUME NEW d \in due
               PROVE  /\ Listens(d, Power)'
                      /\ (packet'.from = d /\ Answered(d)') \/ \E u \in Thread : Covers(u, d)'
    BY DEF DueCovered
  <2>1. d \in Client
    BY <1>1 DEF ServerTyped
  <2>2. Listens(d, Power) /\ ((packet.from = d /\ Answered(d)) \/ \E u \in Thread : Covers(u, d))
    BY DEF ServerInv, DueCovered
  <2>3. Answered(d) => Answered(d)'
    <3> SUFFICES ASSUME NEW i \in About(packet.replies, Power), packet.replies[i].says = trackPower
                 PROVE  Answered(d)'
      BY DEF Answered
    <3>1. \A x : \A j \in About(packet.replies, x) :
            j \in About(packet.replies \o more, x) /\ (packet.replies \o more)[j] = packet.replies[j]
      <4> TAKE x
      <4> QED
        BY <1>1, AboutGrows, ZenonT(60)
    <3>2. i \in About(packet.replies \o more, Power) /\ (packet.replies \o more)[i].says = trackPower
      BY <3>1
    <3> QED
      BY <3>2 DEF Answered, About
  <2>4. Listens(d, Power)'
    BY <2>2 DEF Listens, Has
  <2> QED
    BY <1>3, <2>1, <2>2, <2>3, <2>4
<1>8. PolledKnow'
  <2>1. detectorDevices(canDevices)' = detectorDevices(canDevices)
        /\ detectorDevices(canDevices) \subseteq NetID /\ NetID \subseteq Topic
    BY DEF detectorDevices, Topic, IsKind
  <2>2. \A d \in Client, n \in NetID : Meets(d, n) => Meets(d, n)'
    BY <1>3, <2>1 DEF Meets
  <2>3. ASSUME NEW d \in polled'
        PROVE  (Has(d, CANDetector) /\ \A n \in detectorDevices(canDevices) : Meets(d, n))'
    BY <1>1, <1>3, <2>1, <2>2 DEF ServerInv, ServerTyped, PolledKnow
  <2>4. ASSUME packet'.polls
        PROVE  /\ Has(packet.from, CANDetector)' /\ ~packet'.orphan
               /\ \A n \in detectorDevices(canDevices) :
                    About(packet.replies, n)' # {} \/ Meets(packet.from, n)'
    <3>1. /\ Has(packet.from, CANDetector) /\ ~packet.orphan
          /\ \A n \in detectorDevices(canDevices) :
               About(packet.replies, n)' # {} \/ Meets(packet.from, n)
      BY <1>5, <2>4 DEF ServerInv, PolledKnow
    <3>2. /\ \A n \in NetID : Meets(packet.from, n) => Meets(packet.from, n)'
          /\ Has(packet.from, CANDetector)'
      BY <2>2, <3>1 DEF Has, Meets, Reaches
    <3> QED
      BY <2>1, <3>1, <3>2
  <2> QED
    BY <2>1, <2>3, <2>4 DEF PolledKnow
<1> QED
  BY <1>2, <1>6, <1>7, <1>8 DEF ServerInv

LEMMA AnswersSound ==
  ASSUME ServerTyped, NEW op, Asked(op), NEW more \in Seq(Facts), Answers(more)
  PROVE  /\ packet.from \in Client
         /\ packet' \in Packets /\ packet'.from = packet.from
         /\ packet'.replies = packet.replies \o more
         /\ packet'.orphan = packet.orphan /\ packet'.polls = packet.polls
<1>1. /\ packet.from \in Client /\ packet \in Packets /\ packet.replies \in Seq(Facts)
      /\ Tail(packet.todo) \in Seq(LanMessage)
  BY AskedIs
<1> PICK todo \in Seq(LanMessage), old \in Seq(Facts) :
       todo = Tail(packet.todo) /\ old = packet.replies
  BY <1>1
<1>4. old \o more \in Seq(Facts)
  OBVIOUS
<1>2. PICK replies \in Seq(Facts) : replies = old \o more
  BY <1>4, Zenon
<1>3. packet' = [packet EXCEPT !.todo = todo, !.replies = replies]
  BY <1>2 DEF Answers
<1> QED
  BY <1>1, <1>2, <1>3 DEF Packets

(* After a log off in the same packet the flags go nowhere.                *)
LEMMA OrphanKeeps ==
  ASSUME ServerInv, SetBroadcastFlags, packet.orphan
  PROVE  ServerInv'
<1>1. ServerTyped /\ Asked("flags") /\ ~packet.polls
  BY DEF ServerInv, PolledKnow, SetBroadcastFlags
<1>2. /\ packet.from \in Client /\ packet \in Packets /\ packet.replies \in Seq(Facts)
      /\ Tail(packet.todo) \in Seq(LanMessage)
  BY <1>1, AskedIs
<1>3. PICK todo \in Seq(LanMessage) : todo = Tail(packet.todo)
  BY <1>2
<1>4. packet' = [packet EXCEPT !.todo = todo]
  <2>1. PICK no \in BOOLEAN : no = (packet.polls /\ CANDetector \in Message.flags)
    OBVIOUS
  <2>2. no = packet.polls
    BY <1>1, <1>2, <2>1 DEF Packets
  <2>3. packet' = [packet EXCEPT !.todo = todo, !.polls = no]
    BY <1>3, <2>1 DEF SetBroadcastFlags
  <2> QED
    BY <1>2, <2>2, <2>3 DEF Packets
<1>5. /\ packet' \in Packets /\ packet'.from = packet.from
      /\ packet'.replies = packet.replies
      /\ packet'.orphan = packet.orphan /\ packet'.polls = packet.polls
  BY <1>2, <1>4 DEF Packets
<1>8. packet.replies = packet.replies \o <<>>
  <2>1. PICK old \in Seq(Facts) : old = packet.replies
    BY <1>2
  <2>2. old = old \o <<>>
    OBVIOUS
  <2> QED
    BY <2>1, <2>2
<1>6. UNCHANGED <<up, session, trackPower, canDevices, job, heard, due, blurred, polled>>
  BY DEF SetBroadcastFlags, historyVars
<1>7. <<>> \in Seq(Facts) /\ \A x : About(<<>>, x) = {}
  BY NoFacts
<1> QED
  BY <1>1, <1>2, <1>5, <1>6, <1>7, <1>8, PacketKeeps DEF ServerTyped, ServerInv

(* What is said of the power is the power.                                 *)
LEMMA StatusKeeps ==
  ASSUME ServerInv, NEW op, Asked(op), Answers(<<Fact(Power, trackPower)>>),
         UNCHANGED <<up, session, trackPower, canDevices, job, historyVars>>
  PROVE  ServerInv'
<1>1. ServerTyped
  BY DEF ServerInv
<1>2. PICK f \in Facts : f = Fact(Power, trackPower)
  BY <1>1, FactsTyped DEF ServerTyped
<1>3. PICK more \in Seq(Facts) : more = <<f>>
  BY OneFact
<1>4. \A x \in Topic : \A i \in About(more, x) : more[i].says = World(x)'
  <2>1. \A x : /\ About(more, x) = IF f.about = x THEN {1} ELSE {}
               /\ \A i \in About(more, x) : more[i] = f
    BY <1>3, OneFact
  <2> QED
    BY <1>2, <2>1, FactsTyped DEF World
<1>5. /\ packet.from \in Client
      /\ packet' \in Packets /\ packet'.from = packet.from
      /\ packet'.replies = packet.replies \o more
      /\ packet'.orphan = packet.orphan /\ packet'.polls = packet.polls
  BY <1>1, <1>2, <1>3, AnswersSound
<1>6. UNCHANGED <<heard, due, blurred, polled>>
  BY DEF historyVars
<1>7. /\ canDevices' \in [NetID -> CANDevice \cup {Absent}]
      /\ detectorDevices(canDevices') = detectorDevices(canDevices)
      /\ blurred \subseteq blurred' /\ blurred' \subseteq Topic
      /\ \A n \in NetID \ blurred' : canDevices'[n] = canDevices[n]
  BY <1>1, <1>6 DEF ServerTyped
<1> QED
  BY <1>4, <1>5, <1>6, <1>7, PacketKeeps

LEMMA GetStatusKeeps ==
  ASSUME ServerInv, GetStatus
  PROVE  ServerInv'
BY StatusKeeps DEF GetStatus

LEMMA PowerHeldKeeps ==
  ASSUME ServerInv, handleLANX, trackPower = Message.on,
         UNCHANGED <<trackPower, job, due, blurred>>
  PROVE  ServerInv'
<1>1. /\ Asked("power") /\ Answers(<<Fact(Power, trackPower)>>)
      /\ UNCHANGED <<up, session, trackPower, canDevices, job, historyVars>>
  BY DEF handleLANX, historyVars
<1> QED
  BY <1>1, StatusKeeps

(* The CAN commands keep every device of its kind, or make one of no kind. *)
LEMMA CommandsKeepKinds ==
  ASSUME NEW devices \in [NetID -> CANDevice \cup {Absent}], NEW n \in NetID
  PROVE  /\ \A new \in {SetDescription(devices, n)} \cup {SetModuleAddress(devices, n, a) : a \in Nat}
                       \cup {BoosterSetTrackPower(devices, n, on) : on \in BOOLEAN} :
              /\ new \in [NetID -> CANDevice \cup {Absent}]
              /\ detectorDevices(new) = detectorDevices(devices)
              /\ \A m \in NetID \ {n} : new[m] = devices[m]
<1> DEFINE Kept(d) == /\ d \in CANDevice \cup {Absent}
                      /\ IsKind(d, Detector) <=> IsKind(devices[n], Detector)
<1>1. ASSUME NEW d, Kept(d)
      PROVE  LET new == [devices EXCEPT ![n] = d]
             IN  /\ new \in [NetID -> CANDevice \cup {Absent}]
                 /\ detectorDevices(new) = detectorDevices(devices)
                 /\ \A m \in NetID \ {n} : new[m] = devices[m]
  BY <1>1 DEF detectorDevices
<1>2. Kept(devices[n])
  OBVIOUS
<1>3. Kept(IF devices[n] = Absent THEN NewDevice(NoKind, 0) ELSE devices[n])
  <2>1. NewDevice(NoKind, 0) \in CANDevice /\ ~IsKind(NewDevice(NoKind, 0), Detector)
    BY DEF NewDevice, NoKind, CANDevice, Detector, IsKind
  <2> QED
    BY <2>1 DEF IsKind
<1>4. ASSUME NEW a \in Nat
      PROVE  Kept(IF IsKind(devices[n], Detector) THEN [devices[n] EXCEPT !.at = a] ELSE devices[n])
  <2>1. ASSUME IsKind(devices[n], Detector)
        PROVE  Kept([devices[n] EXCEPT !.at = a])
    <3>1. PICK d \in CANDevice : d = devices[n]
      BY <2>1 DEF IsKind
    <3>2. [d EXCEPT !.at = a] \in CANDevice /\ [d EXCEPT !.at = a].kind = d.kind
      BY DEF CANDevice
    <3> QED
      BY <2>1, <3>1, <3>2, ServerAssumption DEF IsKind
  <2> QED
    BY <2>1
<1>5. ASSUME NEW on \in BOOLEAN
      PROVE  Kept(IF IsKind(devices[n], Booster) THEN [devices[n] EXCEPT !.off = ~on] ELSE devices[n])
  <2>1. ASSUME IsKind(devices[n], Booster)
        PROVE  Kept([devices[n] EXCEPT !.off = ~on])
    <3>1. PICK d \in CANDevice, off \in BOOLEAN : d = devices[n] /\ off = ~on
      BY <2>1 DEF IsKind
    <3>2. [d EXCEPT !.off = off] \in CANDevice /\ [d EXCEPT !.off = off].kind = d.kind
      BY DEF CANDevice
    <3> QED
      BY <2>1, <3>1, <3>2, ServerAssumption DEF IsKind
  <2> QED
    BY <2>1
<1> HIDE DEF Kept
<1>6. ASSUME NEW new, \E d : Kept(d) /\ new = [devices EXCEPT ![n] = d]
      PROVE  /\ new \in [NetID -> CANDevice \cup {Absent}]
             /\ detectorDevices(new) = detectorDevices(devices)
             /\ \A m \in NetID \ {n} : new[m] = devices[m]
  <2>1. PICK d : Kept(d) /\ new = [devices EXCEPT ![n] = d]
    BY <1>6, Zenon
  <2>2. /\ [devices EXCEPT ![n] = d] \in [NetID -> CANDevice \cup {Absent}]
        /\ detectorDevices([devices EXCEPT ![n] = d]) = detectorDevices(devices)
        /\ \A m \in NetID \ {n} : [devices EXCEPT ![n] = d][m] = devices[m]
    BY <1>1, <2>1, Zenon
  <2> QED
    BY <2>1, <2>2, Zenon
<1> QED
  BY <1>3, <1>4, <1>5, <1>6 DEF SetDescription, SetModuleAddress, BoosterSetTrackPower

LEMMA CANKeeps ==
  ASSUME ServerInv, handleCAN
  PROVE  ServerInv'
<1>1. ServerTyped /\ UNCHANGED <<up, session, trackPower, job, heard, due, polled>>
  BY DEF ServerInv, handleCAN
<1>2. \A n \in NetID : \A new \in {SetDescription(canDevices, n)}
                       \cup {SetModuleAddress(canDevices, n, a) : a \in Nat}
                       \cup {BoosterSetTrackPower(canDevices, n, on) : on \in BOOLEAN} :
              /\ new \in [NetID -> CANDevice \cup {Absent}]
              /\ detectorDevices(new) = detectorDevices(canDevices)
              /\ \A m \in NetID \ {n} : new[m] = canDevices[m]
  BY <1>1, CommandsKeepKinds DEF ServerTyped
<1>3. ASSUME NEW op, Asked(op), NEW more \in Seq(Facts), Answers(more),
             canDevices' \in [NetID -> CANDevice \cup {Absent}],
             detectorDevices(canDevices') = detectorDevices(canDevices),
             blurred \subseteq blurred', blurred' \subseteq Topic,
             \A n \in NetID \ blurred' : canDevices'[n] = canDevices[n],
             \A x \in Topic \ blurred' : \A i \in About(more, x) : more[i].says = World(x)'
      PROVE  ServerInv'
  <2>1. /\ packet.from \in Client
        /\ packet' \in Packets /\ packet'.from = packet.from
        /\ packet'.replies = packet.replies \o more
        /\ packet'.orphan = packet.orphan /\ packet'.polls = packet.polls
    BY <1>1, <1>3, AnswersSound
  <2> QED
    BY <1>1, <1>3, <2>1, PacketKeeps
<1>4. ASSUME NEW op, Asked(op), NEW n \in NetID, NEW devices, RegistryChange(devices),
             devices \in {SetDescription(canDevices, n)}
                         \cup {SetModuleAddress(canDevices, n, a) : a \in Nat}
      PROVE  ServerInv'
  <2>1. /\ canDevices' \in [NetID -> CANDevice \cup {Absent}]
        /\ detectorDevices(canDevices') = detectorDevices(canDevices)
    BY <1>2, <1>4 DEF RegistryChange
  <2>2. blurred' = blurred \cup {m \in NetID : canDevices'[m] # canDevices[m]} /\ Answers(<<>>)
    BY <1>4 DEF RegistryChange
  <2>3. blurred \subseteq blurred' /\ blurred' \subseteq Topic
    BY <1>1, <2>2 DEF ServerTyped, Topic
  <2>4. \A m \in NetID \ blurred' : canDevices'[m] = canDevices[m]
    BY <2>2
  <2>5. <<>> \in Seq(Facts) /\ \A x : About(<<>>, x) = {}
    BY NoFacts
  <2> QED
    BY <1>3, <1>4, <2>1, <2>2, <2>3, <2>4, <2>5
<1>5. CASE handleCANDeviceSetDescription
  <2>1. Message.net \in NetID /\ Asked("describe")
    BY <1>1, <1>5, AskedIs, LanMessages DEF handleCANDeviceSetDescription
  <2> QED
    BY <1>4, <1>5, <2>1 DEF handleCANDeviceSetDescription
<1>6. CASE handleCANMaintenance
  <2>1. Message.net \in NetID /\ Message.addr \in Nat /\ Asked("address")
    BY <1>1, <1>6, AskedIs, LanMessages DEF handleCANMaintenance
  <2> QED
    BY <1>4, <1>6, <2>1 DEF handleCANMaintenance
<1>7. CASE handleCANBoosterSetTrackPower
  <2>1. Message.net \in NetID /\ Message.on \in BOOLEAN /\ Asked("booster")
    BY <1>1, <1>7, AskedIs, LanMessages DEF handleCANBoosterSetTrackPower
  <2> PICK n \in NetID, on \in BOOLEAN : n = Message.net /\ on = Message.on
    BY <2>1
  <2>2. PICK devices : devices = BoosterSetTrackPower(canDevices, n, on)
    OBVIOUS
  <2>3. /\ devices \in [NetID -> CANDevice \cup {Absent}]
        /\ detectorDevices(devices) = detectorDevices(canDevices)
        /\ \A m \in NetID \ {n} : devices[m] = canDevices[m]
    BY <1>2, <2>2
  <2>4. /\ canDevices' = devices
        /\ blurred' = IF devices[n] # canDevices[n] THEN blurred \cup {n} ELSE blurred
        /\ Answers(IF IsKind(devices[n], Booster) THEN <<Fact(n, devices[n])>> ELSE <<>>)
    BY <1>7, <2>2 DEF handleCANBoosterSetTrackPower
  <2>5. blurred \subseteq blurred' /\ blurred' \subseteq Topic
    BY <1>1, <2>4 DEF ServerTyped, Topic
  <2>6. \A m \in NetID \ blurred' : canDevices'[m] = canDevices[m]
    BY <2>3, <2>4
  <2>7. PICK more \in Seq(Facts) :
          Answers(more) /\ \A x \in Topic \ blurred' : \A i \in About(more, x) : more[i].says = World(x)'
    <3>1. CASE IsKind(devices[n], Booster)
      <4>1. PICK f \in Facts : f = Fact(n, devices[n])
        BY <2>3, <3>1, FactsTyped DEF IsKind
      <4>2. /\ <<f>> \in Seq(Facts)
            /\ \A x : About(<<f>>, x) = IF f.about = x THEN {1} ELSE {}
            /\ \A x : \A i \in About(<<f>>, x) : <<f>>[i] = f
        BY OneFact
      <4>3. f.about = n /\ f.says = canDevices'[n] /\ n # Power
        BY <2>4, <4>1, FactsTyped, ServerAssumption
      <4>4. \A x \in Topic \ blurred' : \A i \in About(<<f>>, x) : <<f>>[i].says = World(x)'
        BY <4>2, <4>3 DEF World
      <4> QED
        BY <2>4, <3>1, <4>1, <4>2, <4>4
    <3>2. CASE ~IsKind(devices[n], Booster)
      BY <2>4, <3>2, NoFacts
    <3> QED
      BY <3>1, <3>2
  <2> QED
    BY <1>3, <2>1, <2>3, <2>4, <2>5, <2>6, <2>7
<1> QED
  BY <1>5, <1>6, <1>7 DEF handleCAN

(* A finite set as a sequence: each element is there.                      *)
LEMMA SetToSeqLists ==
  ASSUME NEW S, IsFiniteSet(S)
  PROVE  SetToSeq(S) \in Seq(S) /\ \A s \in S : \E i \in DOMAIN SetToSeq(S) : SetToSeq(S)[i] = s
<1> DEFINE n == Cardinality(S)
<1>1. n \in Nat /\ ExistsBijection(1 .. n, S)
  BY FS_CardinalityType
<1>2. PICK b \in Injection(1 .. n, S) : TRUE
  BY <1>1 DEF ExistsBijection, Bijection
<1>3. \E f \in [1 .. n -> S] : IsInjective(f)
  BY <1>2 DEF Injection
<1>4. SetToSeq(S) = CHOOSE f \in [1 .. n -> S] : IsInjective(f)
  BY DEF SetToSeq
<1>5. SetToSeq(S) \in [1 .. n -> S] /\ IsInjective(SetToSeq(S))
  <2> HIDE DEF n
  <2> QED
    BY <1>3, <1>4, Zenon
<1>6. SetToSeq(S) \in Injection(1 .. n, S)
  BY <1>5 DEF Injection
<1>7. Cardinality(1 .. n) = n
  <2>1. 1 \in Int /\ n \in Int /\ (1 > n => n = 0)
    BY <1>1
  <2>2. Cardinality(1 .. n) = IF 1 > n THEN 0 ELSE n - 1 + 1
    BY <2>1, FS_Interval
  <2> HIDE DEF n
  <2> QED
    BY <1>1, <2>1, <2>2
<1>8. SetToSeq(S) \in Surjection(1 .. n, S)
  BY <1>6, <1>7, FS_Injection
<1>9. \A s \in S : \E i \in 1 .. n : SetToSeq(S)[i] = s
  BY <1>8 DEF Surjection
<1> HIDE DEF n
<1> QED
  BY <1>1, <1>5, <1>9

LEMMA NetIDsFinite == IsFiniteSet(NetID)
<1>1. 1 \in Int /\ MaxNetID \in Int
  BY DEF MaxNetID
<1>2. IsFiniteSet(1 .. MaxNetID)
  BY <1>1, FS_Interval
<1> QED
  BY <1>2, NetIDAssumption, FS_Subset

(* What a poll reports.                                                    *)
LEMMA ReportsAll ==
  ASSUME canDevices \in [NetID -> CANDevice \cup {Absent}]
  PROVE  LET more == Reports(detectorDevices(canDevices))
         IN  /\ more \in Seq(Facts)
             /\ \A n \in detectorDevices(canDevices) : About(more, n) # {}
             /\ \A i \in DOMAIN more : /\ more[i].about \in NetID
                                       /\ more[i].says = canDevices[more[i].about]
<1> DEFINE D == detectorDevices(canDevices)
           report(n) == Fact(n, canDevices[n])
           S == {report(n) : n \in D}
<1>1. D \in SUBSET NetID /\ \A n \in D : canDevices[n] \in CANDevice
  BY DEF detectorDevices, IsKind
<1>2. IsFiniteSet(D)
  <2>1. IsFiniteSet(NetID) /\ D \in SUBSET NetID
    BY <1>1, NetIDsFinite
  <2> HIDE DEF D
  <2> QED
    BY <2>1, FS_Subset
<1>3. /\ S \in SUBSET Facts
      /\ \A f \in S : f.about \in NetID /\ f.says = canDevices[f.about]
      /\ \A n \in D : report(n) \in S /\ report(n).about = n
  BY <1>1, FactsTyped
<1>4. IsFiniteSet(S)
  <2> DEFINE f == [n \in D |-> report(n)]
  <2>1. f \in Surjection(D, S)
    BY DEF Surjection
  <2> HIDE DEF f, D, S
  <2> QED
    BY <1>2, <2>1, FS_Surjection
<1>5. Reports(D) = SetToSeq(S)
  BY DEF Reports
<1> HIDE DEF S, D
<1>6. SetToSeq(S) \in Seq(S) /\ \A s \in S : \E i \in DOMAIN SetToSeq(S) : SetToSeq(S)[i] = s
  BY <1>4, SetToSeqLists
<1>7. PICK more : more = Reports(D)
  OBVIOUS
<1>8. /\ more \in Seq(Facts) /\ \A i \in DOMAIN more : more[i] \in S
      /\ \A n \in D : \E i \in DOMAIN more : more[i].about = n
  <2>1. more \in Seq(S) /\ \A s \in S : \E i \in DOMAIN more : more[i] = s
    BY <1>5, <1>6, <1>7
  <2>2. more \in Seq(Facts) /\ \A i \in DOMAIN more : more[i] \in S
    BY <1>3, <2>1
  <2>3. \A n \in D : \E s \in S : s.about = n
    BY <1>3
  <2> QED
    BY <2>1, <2>2, <2>3
<1>9. /\ more \in Seq(Facts)
      /\ \A n \in D : About(more, n) # {}
      /\ \A i \in DOMAIN more : more[i].about \in NetID /\ more[i].says = canDevices[more[i].about]
  BY <1>3, <1>8 DEF About
<1> QED
  BY <1>7, <1>9 DEF D

LEMMA PollKeeps ==
  ASSUME ServerInv, handleCANDetectorPoll
  PROVE  ServerInv'
<1>1. ServerTyped /\ Asked("poll") /\ UNCHANGED <<up, session, trackPower, canDevices, job, heard, due, blurred, polled>>
  BY DEF ServerInv, handleCANDetectorPoll, historyVars
<1>2. /\ packet.from \in Client /\ packet \in Packets /\ packet.replies \in Seq(Facts)
      /\ Tail(packet.todo) \in Seq(LanMessage)
  BY <1>1, AskedIs
<1>3. PICK more : more = Reports(detectorDevices(canDevices))
  OBVIOUS
<1>4. /\ more \in Seq(Facts)
      /\ \A n \in detectorDevices(canDevices) : About(more, n) # {}
      /\ \A i \in DOMAIN more : more[i].about \in NetID /\ more[i].says = canDevices[more[i].about]
  BY <1>1, <1>3, ReportsAll DEF ServerTyped
<1> PICK todo \in Seq(LanMessage), old \in Seq(Facts) :
       todo = Tail(packet.todo) /\ old = packet.replies
  BY <1>2
<1>5. old \o more \in Seq(Facts)
  BY <1>4
<1>6. PICK replies \in Seq(Facts), polls \in BOOLEAN :
        replies = old \o more /\ polls = (~packet.orphan /\ Has(packet.from, CANDetector))
  BY <1>5, Zenon
<1>7. packet' = [packet EXCEPT !.todo = todo, !.replies = replies, !.polls = polls]
  BY <1>3, <1>6 DEF handleCANDetectorPoll
<1>8. /\ packet' \in Packets /\ packet'.from = packet.from
      /\ packet'.replies = packet.replies \o more
      /\ packet'.orphan = packet.orphan /\ packet'.polls = polls
  BY <1>2, <1>6, <1>7 DEF Packets
<1>9. \A x \in Topic : \A i \in About(more, x) : more[i].says = World(x)'
  BY <1>1, <1>4, ServerAssumption DEF About, World
<1> QED
  BY <1>1, <1>2, <1>4, <1>6, <1>8, <1>9, PacketKeeps DEF ServerTyped

-----------------------------------------------------------------------------
(***************************************************************************)
(* Changes of the power and of the registry.                               *)
(***************************************************************************)

(* Who listens is told by the thread that begins to announce the change,   *)
(* or by the answer to the one who asked for it.                           *)
LEMMA PowerKeeps ==
  ASSUME ServerInv, NEW t \in Thread, job[t] = Idle, NEW on \in BOOLEAN,
         NEW e \in Client \cup {Absent}, setTrackPower(t, on, e),
         NEW more \in Seq(Facts), \A x \in NetID : About(more, x) = {},
         packet' \in Packets, packet'.from = packet.from, packet'.replies = packet.replies \o more,
         packet'.orphan = packet.orphan, packet'.polls = packet.polls,
         packet'.from = Absent => packet' = NoPacket,
         UNCHANGED <<up, session, canDevices, heard, polled>>,
         \/ t = Lan /\ e = packet.from /\ 1 \in About(more, Power) /\ \A i \in About(more, Power) : more[i].says = on
         \/ t # Lan /\ e = Absent /\ About(more, Power) = {}
  PROVE  ServerInv'
<1>1. ServerTyped /\ packet.replies \in Seq(Facts) /\ job[t].stage = "idle"
  BY DEF ServerInv, ServerTyped, Packets, Idle
<1>2. /\ job' \in [Thread -> Jobs] /\ \A u \in Thread : JobSound(job'[u])
      /\ \A u \in Thread \ {t} : job'[u] = job[u]
      /\ job'[t].stage = "status" /\ job'[t].flag = XpressNet /\ job'[t].except = e
  <2>1. Announces(t, "status", NoFact, XpressNet, e)
    BY DEF setTrackPower
  <2>2. NoFact \notin Facts /\ NoFact \notin [about : {Power}, says : BOOLEAN] /\ NoFact.about \notin NetID
        /\ XpressNet \in Flag
    BY FactsTyped, ServerAssumption DEF Flag, NoFact, Fact
  <2> QED
    BY <1>1, <2>1, <2>2, AnnouncesSound
<1>3. /\ trackPower' = on /\ due' = {c \in Client : Listens(c, Power)}
      /\ blurred' = IF Overlaps(t, Power) THEN blurred \cup {Power} ELSE blurred \ {Power}
  BY DEF setTrackPower, Changes
<1>4. ServerTyped'
  BY <1>1, <1>2, <1>3 DEF ServerTyped, Topic
<1>5. /\ \A u \in Thread : \A x : Holds(u, x)' => u # t /\ Holds(u, x)
      /\ \A u \in Thread : \A d, n : Reaches(u, d, n) => Reaches(u, d, n)' /\ job'[u] = job[u]
      /\ \A d \in Client : \A x : Listens(d, x)' <=> Listens(d, x)
      /\ \A d \in Client : \A flag : Has(d, flag)' <=> Has(d, flag)
  <2>1. \A u \in Thread \ {t} : /\ \A x : Holds(u, x)' <=> Holds(u, x)
                                /\ \A d, x : Reaches(u, d, x)' <=> Reaches(u, d, x)
    BY <1>2, SameJob
  <2>2. \A x : ~Holds(t, x) /\ ~Holds(t, x)'
    BY <1>1, <1>2 DEF Holds
  <2>3. \A d, x : ~Reaches(t, d, x)
    BY <2>2 DEF Reaches
  <2> QED
    BY <1>2, <2>1, <2>2, <2>3 DEF Listens, Has
<1>6. \A x : /\ \A i \in About(packet.replies, x) :
                  i \in About(packet.replies, x)' /\ packet'.replies[i] = packet.replies[i]
             /\ About(more, x) # {} => About(packet.replies, x)' # {}
             /\ About(more, x) = {} => About(packet.replies, x)' = About(packet.replies, x)
  <2>1. \A x : /\ \A i \in About(packet.replies, x) :
                    i \in About(packet.replies \o more, x) /\ (packet.replies \o more)[i] = packet.replies[i]
               /\ About(more, x) # {} => About(packet.replies \o more, x) # {}
    BY <1>1, AboutGrows
  <2>3. \A x : About(more, x) = {} => About(packet.replies \o more, x) = About(packet.replies, x)
    BY <1>1, LastBefore
  <2>2. \A x : About(packet.replies, x)' = About(packet.replies \o more, x)
    BY DEF About
  <2> QED
    BY <2>1, <2>2, <2>3
<1>7. ASSUME t = Lan
      PROVE  Answered(e)' /\ About(packet.replies, Power)' # {}
             /\ LastOf(packet.replies, Power)' = trackPower'
  <2>1. PICK i \in About(more, Power) : LastOf(packet.replies \o more, Power) = more[i].says
    BY <1>1, <1>7, LastAfter
  <2>2. LastOf(packet.replies \o more, Power) = on /\ About(packet.replies \o more, Power) # {}
    BY <1>1, <1>7, <2>1, AboutGrows
  <2>3. PICK facts \in Seq(Facts) : facts = packet.replies \o more
    BY <1>1, AboutGrows
  <2>4. PICK k \in About(facts, Power) : LastOf(facts, Power) = facts[k].says
    BY <2>2, <2>3, LastOne
  <2>5. packet'.replies = facts /\ LastOf(facts, Power) = trackPower' /\ About(facts, Power) # {}
    BY <1>3, <2>2, <2>3
  <2> QED
    BY <2>4, <2>5 DEF Answered, About, LastOf
<1>8. ASSUME NEW c \in Client, Listens(c, Power)
      PROVE  Covers(t, c)' \/ (t = Lan /\ c = packet'.from)
  <2>1. c # Absent
    BY ServerAssumption
  <2>2. Has(c, XpressNet)' \/ Has(c, SystemState)'
    BY <1>5, <1>8 DEF Listens
  <2>3. CASE c # e
    BY <1>2, <2>2, <2>3 DEF Covers
  <2>4. CASE c = e
    BY <2>1, <2>4
  <2> QED
    BY <2>3, <2>4
<1>9. TopicsTrue'
  <2> SUFFICES ASSUME NEW x \in Topic \ blurred'
               PROVE  SaysTrue(x)' /\ \A c \in Client : Knows(c, x)'
    BY DEF TopicsTrue
  <2>1. CASE x = Power
    <3>1. ~Overlaps(t, Power)
      BY <1>3, <2>1
    <3>2. \A u \in Thread : ~Holds(u, x)'
      BY <1>5, <2>1, <3>1 DEF Overlaps
    <3>3. t # Lan => About(packet.replies, Power) = {}
      BY <3>1 DEF Overlaps, About
    <3>4. About(packet.replies, x)' # {} => LastOf(packet.replies, x)' = World(x)'
      BY <1>6, <1>7, <2>1, <3>3 DEF World
    <3>5. SaysTrue(x)'
      BY <3>2, <3>4 DEF SaysTrue
    <3>6. ASSUME NEW c \in Client
          PROVE  Knows(c, x)'
      <4>1. Listens(c, x)' => Covers(t, c)' \/ (t = Lan /\ c = packet'.from)
        BY <1>5, <1>8, <2>1
      <4>2. Covers(t, c)' => Pending(c, x)'
        BY <2>1 DEF Pending
      <4>3. t = Lan /\ c = packet'.from => Replied(c, x)'
        BY <1>7, <2>1 DEF Replied
      <4> QED
        BY <2>1, <4>1, <4>2, <4>3 DEF Knows
    <3> QED
      BY <3>5, <3>6
  <2>2. CASE x # Power
    <3>1. x \in Topic \ blurred /\ x \in NetID
      BY <1>3, <2>2 DEF Topic
    <3>2. SaysTrue(x) /\ \A c \in Client : Knows(c, x)
      BY <3>1 DEF ServerInv, TopicsTrue
    <3>3. World(x)' = World(x)
      BY <2>2 DEF World
    <3>4. LastOf(packet.replies, x)' = LastOf(packet.replies, x) \/ About(packet.replies, x) = {}
      <4>1. About(more, x) = {}
        BY <3>1
      <4>2. About(packet.replies, x) # {} => LastOf(packet.replies \o more, x) = LastOf(packet.replies, x)
        BY <1>1, <4>1, LastBefore
      <4> QED
        BY <4>2, ZenonT(60) DEF LastOf, About
    <3>5. About(packet.replies, x)' = About(packet.replies, x)
      BY <1>6, <3>1
    <3>6. SaysTrue(x)'
      BY <1>2, <1>5, <3>2, <3>3, <3>4, <3>5 DEF SaysTrue
    <3>7. \A c \in Client : Pending(c, x) => Pending(c, x)'
      BY <1>5, <2>2 DEF Pending
    <3>8. \A c \in Client : Knows(c, x)'
      BY <1>5, <3>2, <3>3, <3>5, <3>7 DEF Knows, Replied
    <3> QED
      BY <3>6, <3>8
  <2> QED
    BY <2>1, <2>2
<1>10. DueCovered'
  <2> SUFFICES ASSUME NEW c \in due'
               PROVE  /\ Listens(c, Power)'
                      /\ (packet'.from = c /\ Answered(c)') \/ \E u \in Thread : Covers(u, c)'
    BY DEF DueCovered
  <2>1. c \in Client /\ Listens(c, Power) /\ Listens(c, Power)'
    BY <1>3, <1>5
  <2>2. Covers(t, c)' \/ (t = Lan /\ c = packet'.from)
    BY <1>8, <2>1
  <2>3. t = Lan => Answered(c)'
    BY <1>7 DEF Answered
  <2> QED
    BY <2>1, <2>2, <2>3
<1>11. PolledKnow'
  <2>1. detectorDevices(canDevices)' = detectorDevices(canDevices)
        /\ detectorDevices(canDevices) \subseteq NetID
    BY DEF detectorDevices
  <2>2. \A d, n : Meets(d, n) => Meets(d, n)'
    BY <1>5 DEF Meets
  <2>3. ASSUME NEW d \in polled'
        PROVE  (Has(d, CANDetector) /\ \A n \in detectorDevices(canDevices) : Meets(d, n))'
    BY <1>1, <1>5, <2>1, <2>2 DEF ServerInv, ServerTyped, PolledKnow
  <2>4. ASSUME packet'.polls
        PROVE  /\ Has(packet.from, CANDetector)' /\ ~packet'.orphan
               /\ \A n \in detectorDevices(canDevices) :
                    About(packet.replies, n)' # {} \/ Meets(packet.from, n)'
    <3>1. /\ Has(packet.from, CANDetector) /\ ~packet.orphan
          /\ \A n \in detectorDevices(canDevices) :
               About(packet.replies, n) # {} \/ Meets(packet.from, n)
      BY <2>4 DEF ServerInv, PolledKnow
    <3>2. Has(packet.from, CANDetector)'
      BY <3>1 DEF Has
    <3>3. \A n : Meets(packet.from, n) => Meets(packet.from, n)'
      <4>1. PICK c : c = packet.from /\ c = packet'.from
        OBVIOUS
      <4>2. \A n : Meets(c, n) => Meets(c, n)'
        BY <2>2
      <4> QED
        BY <4>1, <4>2 DEF Meets, Reaches, Has
    <3>4. \A n : About(packet.replies, n) # {} => About(packet.replies, n)' # {}
      BY <1>6
    <3> QED
      BY <2>1, <3>1, <3>2, <3>3, <3>4
  <2> QED
    BY <2>1, <2>3, <2>4 DEF PolledKnow
<1> QED
  BY <1>4, <1>9, <1>10, <1>11 DEF ServerInv

LEMMA LANXKeeps ==
  ASSUME ServerInv, handleLANX
  PROVE  ServerInv'
<1>1. ServerTyped /\ Asked("power") /\ UNCHANGED <<up, session, canDevices, heard, polled>>
  BY DEF ServerInv, handleLANX
<1>2. /\ packet.from \in Client /\ Message \in LanMessage /\ Message.op = "power"
      /\ job[Lan] = Idle /\ Lan \in Thread
  BY <1>1, AskedIs DEF Asked, Thread
<1> PICK on \in BOOLEAN : on = Message.on
  BY <1>2, LanMessages
<1>3. CASE setTrackPower(Lan, on, packet.from)
  <2>1. PICK f \in Facts : f = Fact(Power, on)
    BY FactsTyped
  <2>2. /\ <<f>> \in Seq(Facts)
        /\ \A x : About(<<f>>, x) = IF f.about = x THEN {1} ELSE {}
        /\ \A x : \A i \in About(<<f>>, x) : <<f>>[i] = f
    BY OneFact
  <2>3. f.about = Power /\ f.says = on /\ Power \notin NetID
    BY <2>1, FactsTyped, ServerAssumption
  <2>4. Answers(<<f>>)
    BY <2>1 DEF handleLANX
  <2>5. /\ packet' \in Packets /\ packet'.from = packet.from
        /\ packet'.replies = packet.replies \o <<f>>
        /\ packet'.orphan = packet.orphan /\ packet'.polls = packet.polls
    BY <1>1, <2>2, <2>4, AnswersSound
  <2>6. packet'.from # Absent
    BY <1>2, <2>5, ServerAssumption
  <2>7. \A x \in NetID : About(<<f>>, x) = {}
    BY <2>2, <2>3
  <2>8. 1 \in About(<<f>>, Power) /\ \A i \in About(<<f>>, Power) : <<f>>[i].says = on
    BY <2>2, <2>3
  <2> QED
    BY <1>1, <1>2, <1>3, <2>2, <2>5, <2>6, <2>7, <2>8, PowerKeeps, ZenonT(60)
<1>4. CASE trackPower = Message.on /\ UNCHANGED <<trackPower, job, due, blurred>>
  BY <1>4, PowerHeldKeeps
<1> QED
  BY <1>3, <1>4 DEF handleLANX

LEMMA PowerCallKeeps ==
  ASSUME ServerInv, NEW t \in Caller, NEW on \in BOOLEAN, SetTrackPowerAndNotify(t, on)
  PROVE  ServerInv'
<1>1. /\ ServerTyped /\ UNCHANGED <<up, session, canDevices, packet, heard, polled>>
      /\ t \in Thread /\ t # Lan /\ job[t] = Idle /\ setTrackPower(t, on, Absent)
  BY ServerAssumption DEF ServerInv, SetTrackPowerAndNotify, Thread, Free
<1>2. packet \in Packets /\ packet.replies \in Seq(Facts) /\ (packet.from = Absent => packet = NoPacket)
  BY <1>1 DEF ServerTyped, Packets
<1>3. <<>> \in Seq(Facts) /\ \A x : About(<<>>, x) = {}
  BY NoFacts
<1>4. packet.replies = packet.replies \o <<>>
  <2>1. PICK old \in Seq(Facts) : old = packet.replies
    BY <1>2
  <2>2. old = old \o <<>>
    OBVIOUS
  <2> QED
    BY <2>1, <2>2
<1> QED
  BY <1>1, <1>2, <1>3, <1>4, PowerKeeps

LEMMA StateCallKeeps ==
  ASSUME ServerInv, NEW t \in Caller, BroadcastSystemState(t)
  PROVE  ServerInv'
<1>1. /\ ServerTyped /\ t \in Thread /\ job[t].stage = "idle"
      /\ Announces(t, "system", NoFact, SystemState, Absent)
      /\ UNCHANGED <<up, session, trackPower, canDevices, packet, heard, due, blurred, polled>>
  BY DEF ServerInv, BroadcastSystemState, Thread, Free, Idle, historyVars
<1>2. NoFact \notin Facts /\ NoFact \notin [about : {Power}, says : BOOLEAN] /\ NoFact.about \notin NetID
      /\ SystemState \in Flag
  BY FactsTyped, ServerAssumption DEF Flag, NoFact, Fact
<1>3. /\ job' \in [Thread -> Jobs] /\ \A u \in Thread : JobSound(job'[u])
      /\ \A u \in Thread \ {t} : job'[u] = job[u]
      /\ job'[t].stage = "system"
  BY <1>1, <1>2, AnnouncesSound
<1>4. \A x : ~Holds(t, x) /\ ~Holds(t, x)'
  BY <1>1, <1>3 DEF Holds
<1>5. \A d, x : ~Reaches(t, d, x)
  BY <1>4 DEF Reaches
<1>6. \A d : ~Covers(t, d)
  BY <1>1, <1>5 DEF Covers
<1> QED
  BY <1>1, <1>3, <1>4, <1>5, <1>6, JobMovesOn

(* Whoever listens to the new device is told of it by the call's thread.   *)
LEMMA NotifyKeeps ==
  ASSUME ServerInv, NEW t \in Caller, NEW n \in NetID, NEW device \in CANDevice,
         device.kind \in {Detector, Booster}, NotifyCANDeviceDetected(t, n, device)
  PROVE  ServerInv'
<1>1. /\ ServerTyped /\ t \in Thread /\ t # Lan /\ job[t].stage = "idle"
      /\ Announces(t, "list", Fact(n, device), KindFlag(device), Absent)
      /\ Changes(t, n)
      /\ UNCHANGED <<up, session, trackPower, packet, heard, due, polled>>
  BY ServerAssumption DEF ServerInv, NotifyCANDeviceDetected, Thread, Free, Idle
<1>2. /\ canDevices' \in [NetID -> CANDevice \cup {Absent}]
      /\ canDevices'[n] = device /\ \A m \in NetID \ {n} : canDevices'[m] = canDevices[m]
  BY <1>1 DEF NotifyCANDeviceDetected, RegisterCANDevice, ServerTyped
<1>3. /\ Fact(n, device) \in Facts /\ Fact(n, device).about = n /\ Fact(n, device).says = device
      /\ n # Power /\ n \in Topic /\ device # Absent
      /\ Fact(n, device) \notin [about : {Power}, says : BOOLEAN]
  BY FactsTyped, ServerAssumption DEF Topic
<1>4. KindFlag(device) \in Flag
  BY DEF KindFlag, Flag
<1>5. /\ job' \in [Thread -> Jobs] /\ \A u \in Thread : JobSound(job'[u])
      /\ \A u \in Thread \ {t} : job'[u] = job[u]
      /\ job'[t].stage = "list" /\ job'[t].fact = Fact(n, device)
      /\ job'[t].flag = KindFlag(device) /\ job'[t].except = Absent
  BY <1>1, <1>3, <1>4, AnnouncesSound
<1>6. ServerTyped'
  <2>1. blurred' \subseteq Topic
    BY <1>1, <1>3 DEF Changes, ServerTyped
  <2> QED
    BY <1>1, <1>2, <1>5, <2>1 DEF ServerTyped
<1>7. /\ \A u \in Thread \ {t} : /\ \A x : Holds(u, x)' <=> Holds(u, x)
                                 /\ \A d, x : Reaches(u, d, x)' <=> Reaches(u, d, x)
                                 /\ \A d : Covers(u, d)' <=> Covers(u, d)
      /\ \A x : Holds(t, x)' => x = n
      /\ \A d, x : ~Reaches(t, d, x)
      /\ \A d : ~Covers(t, d)
  <2>1. \A u \in Thread \ {t} : /\ \A x : Holds(u, x)' <=> Holds(u, x)
                                /\ \A d, x : Reaches(u, d, x)' <=> Reaches(u, d, x)
                                /\ \A d : Covers(u, d)' <=> Covers(u, d)
    BY <1>1, <1>5, SameJob
  <2>2. \A x : Holds(t, x)' => x = n
    BY <1>3, <1>5 DEF Holds
  <2>3. \A d, x : ~Reaches(t, d, x)
    BY <1>1 DEF Reaches, Holds
  <2>4. \A d : ~Covers(t, d)
    BY <1>1, <2>3 DEF Covers
  <2> QED
    BY <2>1, <2>2, <2>3, <2>4
<1>8. \A d : \A flag : Has(d, flag)' <=> Has(d, flag)
  BY <1>1 DEF Has
<1>9. ASSUME NEW c \in Client, Has(c, KindFlag(device))
      PROVE  Reaches(t, c, n)'
  <2>1. Holds(t, n)'
    BY <1>3, <1>5 DEF Holds
  <2>2. c # Absent
    BY ServerAssumption
  <2>3. Has(c, job[t].flag)'
    BY <1>5, <1>8, <1>9 DEF Has
  <2> QED
    BY <1>5, <2>1, <2>2, <2>3 DEF Reaches
<1>10. TopicsTrue'
  <2> SUFFICES ASSUME NEW x \in Topic \ blurred'
               PROVE  SaysTrue(x)' /\ \A c \in Client : Knows(c, x)'
    BY DEF TopicsTrue
  <2>0. /\ About(packet.replies, x)' = About(packet.replies, x)
        /\ LastOf(packet.replies, x)' = LastOf(packet.replies, x)
    BY <1>1 DEF About, LastOf
  <2>1. CASE x = n
    <3>1. ~Overlaps(t, n)
      BY <1>1, <2>1 DEF Changes
    <3>2. \A u \in Thread : Holds(u, x)' => u = t
      BY <1>7, <2>1, <3>1 DEF Overlaps
    <3>3. About(packet.replies, x) = {}
      BY <1>1, <2>1, <3>1 DEF Overlaps, About
    <3>4. World(x)' = device
      BY <1>2, <1>3, <2>1 DEF World
    <3>5. SaysTrue(x)'
      BY <1>3, <1>5, <2>0, <3>2, <3>3, <3>4 DEF SaysTrue
    <3>6. ASSUME NEW c \in Client, Listens(c, x)'
          PROVE  Pending(c, x)'
      <4>1. Has(c, KindFlag(device))
        BY <1>2, <1>3, <1>8, <2>1, <3>6 DEF Listens, IsKind, KindFlag, Detector, Booster
      <4> QED
        BY <1>1, <1>3, <1>9, <2>1, <4>1 DEF Pending
    <3> QED
      BY <3>5, <3>6 DEF Knows
  <2>2. CASE x # n
    <3>1. x \in Topic \ blurred
      BY <1>1, <2>2 DEF Changes
    <3>2. SaysTrue(x) /\ \A c \in Client : Knows(c, x)
      BY <3>1 DEF ServerInv, TopicsTrue
    <3>3. World(x)' = World(x) /\ \A c : Listens(c, x)' <=> Listens(c, x)
      BY <1>1, <1>2, <1>8, <2>2 DEF World, Listens, Topic
    <3>4. SaysTrue(x)'
      BY <1>5, <1>7, <2>0, <2>2, <3>2, <3>3 DEF SaysTrue
    <3>5. \A c \in Client : Pending(c, x) => Pending(c, x)'
      BY <1>7 DEF Pending
    <3>6. \A c \in Client : Knows(c, x)'
      BY <1>1, <2>0, <3>2, <3>3, <3>5 DEF Knows, Replied
    <3> QED
      BY <3>4, <3>6
  <2> QED
    BY <2>1, <2>2
<1>11. DueCovered'
  <2>1. \A c \in Client : Listens(c, Power)' <=> Listens(c, Power)
    BY <1>8 DEF Listens
  <2>2. \A c \in Client, u \in Thread : Covers(u, c) => Covers(u, c)'
    BY <1>7
  <2>3. \A c \in Client : Answered(c)' <=> Answered(c)
    BY <1>1 DEF Answered, About
  <2> QED
    BY <1>1, <2>1, <2>2, <2>3 DEF ServerInv, ServerTyped, DueCovered
<1>12. PolledKnow'
  <2>1. \A m \in detectorDevices(canDevices)' :
          m \in NetID /\ (m = n \/ m \in detectorDevices(canDevices))
    BY <1>2 DEF detectorDevices
  <2>2. n \in detectorDevices(canDevices)' => device.kind = Detector
    BY <1>2 DEF detectorDevices, IsKind
  <2>3. ASSUME NEW c \in Client, Has(c, CANDetector), device.kind = Detector
        PROVE  Meets(c, n)'
    <3>1. KindFlag(device) = CANDetector
      BY <2>3 DEF KindFlag
    <3> QED
      BY <1>1, <1>5, <1>9, <2>3, <3>1 DEF Meets
  <2>4. \A c : \A m : Meets(c, m) => Meets(c, m)'
    BY <1>1, <1>5, <1>7 DEF Meets
  <2>5. ASSUME NEW d \in polled'
        PROVE  (Has(d, CANDetector) /\ \A m \in detectorDevices(canDevices) : Meets(d, m))'
    <3>1. d \in Client /\ Has(d, CANDetector) /\ \A m \in detectorDevices(canDevices) : Meets(d, m)
      BY <1>1 DEF ServerInv, ServerTyped, PolledKnow
    <3>2. Has(d, CANDetector)'
      BY <1>8, <3>1
    <3>3. \A m \in detectorDevices(canDevices)' : Meets(d, m)'
      BY <2>1, <2>2, <2>3, <2>4, <3>1
    <3> QED
      BY <3>2, <3>3
  <2>6. ASSUME packet'.polls
        PROVE  /\ Has(packet.from, CANDetector)' /\ ~packet'.orphan
               /\ \A m \in detectorDevices(canDevices)' :
                    About(packet.replies, m)' # {} \/ Meets(packet.from, m)'
    <3>1. /\ Has(packet.from, CANDetector) /\ ~packet.orphan
          /\ \A m \in detectorDevices(canDevices) :
               About(packet.replies, m) # {} \/ Meets(packet.from, m)
      BY <1>1, <2>6 DEF ServerInv, PolledKnow
    <3>2. PICK c \in Client : c = packet.from /\ c = packet'.from
      BY <1>1, <2>6 DEF ServerTyped, Packets, NoPacket
    <3>3. \A m \in detectorDevices(canDevices)' : About(packet.replies, m) # {} \/ Meets(c, m)'
      BY <2>1, <2>2, <2>3, <2>4, <3>1, <3>2
    <3>4. \A m : About(packet.replies, m)' = About(packet.replies, m)
      BY <1>1 DEF About
    <3>5. Has(packet.from, CANDetector)' /\ ~packet'.orphan
      BY <1>1, <3>1 DEF Has
    <3>6. \A m : Meets(c, m)' => Meets(packet.from, m)'
      BY <3>2 DEF Meets, Reaches, Has
    <3> QED
      BY <3>3, <3>4, <3>5, <3>6
  <2> QED
    BY <2>5, <2>6 DEF PolledKnow
<1> QED
  BY <1>6, <1>10, <1>11, <1>12 DEF ServerInv

-----------------------------------------------------------------------------
(***************************************************************************)
(* The end of a packet, and the process as a whole.                        *)
(***************************************************************************)
LEMMA NoPacketTyped ==
  /\ NoPacket \in Packets /\ NoPacket.from = Absent /\ ~NoPacket.polls
  /\ \A x : About(NoPacket.replies, x) = {}
BY DEF NoPacket, Packets, About

LEMMA RepliesKeep ==
  ASSUME ServerInv, writeMessages \/ RepliesLost
  PROVE  ServerInv'
<1>1. /\ ServerTyped /\ packet # NoPacket /\ packet' = NoPacket
      /\ UNCHANGED <<up, session, trackPower, canDevices, job, blurred>>
  BY DEF ServerInv, writeMessages, RepliesLost, PacketDone
<1>2. packet.from \in Client /\ packet.replies \in Seq(Facts)
  BY <1>1 DEF ServerTyped, Packets
<1> PICK c \in Client, facts \in Seq(Facts) : c = packet.from /\ facts = packet.replies
  BY <1>2
<1>3. Hears(c, facts) \/ Misses(c, facts)
  BY DEF writeMessages, RepliesLost
<1>4. /\ heard' = [d \in Client |-> [x \in Topic |-> heard'[d][x]]]
      /\ \A d \in Client \ {c} : heard'[d] = heard[d]
      /\ \A x \in Topic : About(facts, x) = {} => heard'[c][x] = heard[c][x]
      /\ due' = due \/ due' = due \ {c}
      /\ Hears(c, facts) =>
           /\ \A x \in Topic : About(facts, x) # {} => heard'[c][x] = LastOf(facts, x)
           /\ (\E i \in About(facts, Power) : facts[i].says = trackPower) => due' = due \ {c}
      /\ Misses(c, facts) =>
           /\ \A x \in Topic : About(facts, x) # {} => heard'[c][x] = Absent
           /\ About(facts, Power) # {} => due' = due \ {c}
  BY <1>1, <1>3, HearsSound
<1>5. \A x \in Topic : About(facts, x) # {} => LastOf(facts, x) # Absent
  <2> SUFFICES ASSUME NEW x \in Topic, About(facts, x) # {}
               PROVE  LastOf(facts, x) # Absent
    OBVIOUS
  <2>1. PICK i \in About(facts, x) : LastOf(facts, x) = facts[i].says
    BY LastOne
  <2>2. facts[i] \in Facts
    BY DEF About
  <2> QED
    BY <2>1, <2>2, FactsTyped
<1>6. polled' \subseteq polled \cup {c}
      /\ \/ /\ Hears(c, facts)
            /\ c \in polled' /\ c \notin polled => packet.polls /\ Has(c, CANDetector)
         \/ Misses(c, facts) /\ c \notin polled'
  BY DEF writeMessages, RepliesLost
<1>7. ServerTyped'
  BY <1>1, <1>4, <1>6, NoPacketTyped DEF ServerTyped
<1>8. /\ \A x : World(x)' = World(x) /\ About(packet.replies, x)' = {}
      /\ \A u \in Thread : \A x : Holds(u, x)' <=> Holds(u, x)
      /\ \A d : \A flag : Has(d, flag)' <=> Has(d, flag)
      /\ \A d : \A x : Listens(d, x)' <=> Listens(d, x)
      /\ \A u \in Thread : \A d, x : Reaches(u, d, x)' <=> Reaches(u, d, x)
      /\ \A u \in Thread : \A d : Covers(u, d)' <=> Covers(u, d)
      /\ \A d, x : Pending(d, x)' <=> Pending(d, x)
  <2>1. \A x : World(x)' = World(x) /\ About(packet.replies, x)' = {}
    BY <1>1, NoPacketTyped DEF World, About
  <2>2. \A u \in Thread : /\ \A x : Holds(u, x)' <=> Holds(u, x)
                          /\ \A d, x : Reaches(u, d, x)' <=> Reaches(u, d, x)
                          /\ \A d : Covers(u, d)' <=> Covers(u, d)
    BY <1>1, SameJob
  <2>3. /\ \A d : \A flag : Has(d, flag)' <=> Has(d, flag)
        /\ \A d : \A x : Listens(d, x)' <=> Listens(d, x)
    BY <1>1 DEF Has, Listens
  <2>4. \A d, x : Pending(d, x)' <=> Pending(d, x)
    BY <2>2 DEF Pending
  <2> QED
    BY <2>1, <2>2, <2>3, <2>4
<1>9. TopicsTrue'
  <2> SUFFICES ASSUME NEW x \in Topic \ blurred
               PROVE  SaysTrue(x)' /\ \A d \in Client : Knows(d, x)'
    BY <1>1 DEF TopicsTrue
  <2>1. SaysTrue(x) /\ \A d \in Client : Knows(d, x)
    BY DEF ServerInv, TopicsTrue
  <2>2. SaysTrue(x)'
    BY <1>1, <1>8, <2>1 DEF SaysTrue
  <2>3. ASSUME NEW d \in Client
        PROVE  Knows(d, x)'
    <3>1. CASE d = c /\ About(facts, x) # {}
      <4>1. LastOf(facts, x) = World(x)
        BY <2>1, <3>1 DEF SaysTrue
      <4>2. heard'[c][x] \in {Absent, World(x)}
        BY <1>3, <1>4, <3>1, <4>1
      <4> QED
        BY <1>8, <3>1, <4>2 DEF Knows
    <3>2. CASE ~(d = c /\ About(facts, x) # {})
      <4>1. heard'[d][x] = heard[d][x]
        BY <1>4, <3>2
      <4>2. ~Replied(d, x)
        BY <3>2 DEF Replied
      <4> QED
        BY <1>8, <2>1, <4>1, <4>2 DEF Knows
    <3> QED
      BY <3>1, <3>2
  <2> QED
    BY <2>2, <2>3
<1>10. DueCovered'
  <2> SUFFICES ASSUME NEW d \in due'
               PROVE  Listens(d, Power)' /\ \E u \in Thread : Covers(u, d)'
    BY DEF DueCovered
  <2>1. d \in due
    BY <1>4
  <2>2. Listens(d, Power) /\ ((packet.from = d /\ Answered(d)) \/ \E u \in Thread : Covers(u, d))
    BY <2>1 DEF ServerInv, DueCovered
  <2>3. ~(packet.from = d /\ Answered(d))
    <3> SUFFICES ASSUME packet.from = d, Answered(d)
                 PROVE  FALSE
      OBVIOUS
    <3>1. About(facts, Power) # {} /\ \E i \in About(facts, Power) : facts[i].says = trackPower
      BY DEF Answered
    <3>2. due' = due \ {c}
      BY <1>3, <1>4, <3>1
    <3> QED
      BY <3>2
  <2> QED
    BY <1>8, <2>2, <2>3
<1>11. PolledKnow'
  <2>1. ~packet'.polls
    BY <1>1, NoPacketTyped
  <2>2. detectorDevices(canDevices)' = detectorDevices(canDevices)
        /\ detectorDevices(canDevices) \subseteq Topic
    BY <1>1 DEF detectorDevices, Topic
  <2>3. ASSUME NEW d \in polled'
        PROVE  (Has(d, CANDetector) /\ \A n \in detectorDevices(canDevices) : Meets(d, n))'
    <3>1. d \in Client /\ (d = c => Hears(c, facts))
      BY <1>1, <1>6 DEF ServerTyped
    <3>2. /\ Has(d, CANDetector)
          /\ \A n \in detectorDevices(canDevices) :
               Meets(d, n) \/ (d = c /\ About(facts, n) # {})
      BY <1>6 DEF ServerInv, PolledKnow
    <3>3. ASSUME NEW n \in detectorDevices(canDevices)
          PROVE  Meets(d, n)'
      <4>1. n \in Topic
        BY <2>2
      <4>2. CASE d = c /\ About(facts, n) # {}
        <5>1. heard'[d][n] # Absent
          BY <1>4, <1>5, <3>1, <4>1, <4>2
        <5> QED
          BY <5>1 DEF Meets
      <4>3. CASE ~(d = c /\ About(facts, n) # {})
        <5>1. heard'[d][n] = heard[d][n] /\ Meets(d, n)
          BY <1>4, <3>1, <3>2, <4>1, <4>3
        <5> QED
          BY <1>1, <1>8, <5>1 DEF Meets
      <4> QED
        BY <4>2, <4>3
    <3> QED
      BY <1>8, <2>2, <3>2, <3>3
  <2> QED
    BY <2>1, <2>3 DEF PolledKnow
<1> QED
  BY <1>7, <1>9, <1>10, <1>11 DEF ServerInv

(* Nothing is known of a simulator that has just been started.             *)
Fresh ==
  /\ up \in BOOLEAN /\ trackPower \in BOOLEAN
  /\ session = [c \in Client |-> Absent] /\ canDevices = [n \in NetID |-> Absent]
  /\ job = [t \in Thread |-> Idle] /\ packet = NoPacket
  /\ heard = [c \in Client |-> [x \in Topic |-> heard[c][x]]]
  /\ due = {} /\ blurred = {} /\ polled = {}

LEMMA FreshInv == Fresh => ServerInv
<1> SUFFICES ASSUME Fresh
             PROVE  ServerInv
  OBVIOUS
<1> USE DEF Fresh
<1>1. ServerTyped
  BY IdleJob, NoPacketTyped DEF ServerTyped
<1>2. \A c \in Client : \A flag : ~Has(c, flag)
  BY DEF Has
<1>3. \A t \in Thread : \A x : ~Holds(t, x)
  BY IdleJob DEF Holds
<1>4. \A c \in Client : \A x : ~Listens(c, x)
  BY <1>2 DEF Listens
<1>5. TopicsTrue
  BY <1>3, <1>4, NoPacketTyped DEF TopicsTrue, SaysTrue, Knows
<1>6. DueCovered /\ PolledKnow
  BY NoPacketTyped DEF DueCovered, PolledKnow
<1> QED
  BY <1>1, <1>5, <1>6 DEF ServerInv

LEMMA ServerInitially ==
  ASSUME ServerInit, up \in BOOLEAN
  PROVE  ServerInv
<1>1. heard = [c \in Client |-> [x \in Topic |-> heard[c][x]]]
  BY DEF ServerInit, AllSilent
<1>2. trackPower \in BOOLEAN
  BY DEF ServerInit
<1> QED
  BY <1>1, <1>2, FreshInv DEF Fresh, ServerInit

LEMMA StopKeeps ==
  ASSUME ServerInv, Stop
  PROVE  ServerInv'
<1>1. heard = [c \in Client |-> [x \in Topic |-> heard[c][x]]]
  BY DEF ServerInv, ServerTyped
<1>2. /\ up' \in BOOLEAN /\ trackPower' \in BOOLEAN
      /\ heard' = [c \in Client |-> [x \in Topic |-> heard'[c][x]]]
  BY <1>1 DEF Stop
<1>3. Fresh'
  BY <1>2 DEF Fresh, Stop
<1> QED
  BY <1>3, FreshInv, PTL

LEMMA ReceiveKeeps ==
  ASSUME ServerInv, NEW c \in Client, NEW msgs \in Seq(LanMessage), Receive(c, msgs)
  PROVE  ServerInv'
<1>1. /\ ServerTyped /\ packet = NoPacket
      /\ packet' = [NoPacket EXCEPT !.from = c, !.todo = msgs]
      /\ session' = [session EXCEPT ![c] = IF @ = Absent THEN {} ELSE @]
      /\ UNCHANGED <<up, trackPower, canDevices, job, heard, due, blurred, polled>>
  BY DEF ServerInv, Receive, historyVars
<1>2. /\ packet' \in Packets /\ packet'.from = c /\ packet'.replies = packet.replies /\ ~packet'.polls
      /\ \A x : About(packet.replies, x) = {}
  BY <1>1, NoPacketTyped DEF NoPacket, Packets
<1>3. /\ session' \in [Client -> (SUBSET Flag) \cup {Absent}]
      /\ \A d \in Client : \A flag : Has(d, flag)' <=> Has(d, flag)
  BY <1>1, SessionAssumption DEF ServerTyped, Has
<1>4. ServerTyped'
  <2>1. packet'.from # Absent
    BY <1>2, ServerAssumption
  <2> QED
    BY <1>1, <1>2, <1>3, <2>1 DEF ServerTyped
<1>5. /\ \A x : World(x)' = World(x) /\ About(packet.replies, x)' = {}
      /\ \A u \in Thread : \A x : Holds(u, x)' <=> Holds(u, x)
      /\ \A d \in Client : \A x : Listens(d, x)' <=> Listens(d, x)
      /\ \A d \in Client : \A x : ~Replied(d, x)
  BY <1>1, <1>2, <1>3 DEF World, About, Holds, Listens, Replied
<1>6. \A u \in Thread, d \in Client : \A x : Reaches(u, d, x)' <=> Reaches(u, d, x)
  BY <1>1, <1>3, <1>5 DEF Reaches
<1>7. \A u \in Thread, d \in Client : Covers(u, d)' <=> Covers(u, d)
  BY <1>1, <1>3, <1>6 DEF Covers
<1>8. \A d \in Client : \A x : Pending(d, x)' <=> Pending(d, x)
  BY <1>6, <1>7 DEF Pending
<1>9. TopicsTrue'
  BY <1>1, <1>5, <1>8 DEF ServerInv, TopicsTrue, SaysTrue, Knows
<1>10. DueCovered'
  <2>1. \A d \in Client : ~Answered(d)
    BY <1>2 DEF Answered
  <2> QED
    BY <1>1, <1>5, <1>7, <2>1 DEF ServerInv, ServerTyped, DueCovered
<1>11. PolledKnow'
  <2>1. \A d \in Client : \A n : Meets(d, n) => Meets(d, n)'
    BY <1>1, <1>6 DEF Meets
  <2>2. detectorDevices(canDevices)' = detectorDevices(canDevices)
    BY <1>1 DEF detectorDevices
  <2> QED
    BY <1>1, <1>2, <1>3, <2>1, <2>2 DEF ServerInv, ServerTyped, PolledKnow
<1> QED
  BY <1>4, <1>9, <1>10, <1>11 DEF ServerInv

LEMMA QuietKeeps ==
  ASSUME ServerInv, up' \in BOOLEAN,
         UNCHANGED <<session, trackPower, canDevices, job, packet, historyVars>>
  PROVE  ServerInv'
<1>1. UNCHANGED <<session, trackPower, canDevices, job, packet, heard, due, blurred, polled>>
  BY DEF historyVars
<1>2. /\ \A c : \A flag : Has(c, flag)' <=> Has(c, flag)
      /\ \A x : World(x)' = World(x)
      /\ \A x : About(packet.replies, x)' = About(packet.replies, x)
      /\ \A x : LastOf(packet.replies, x)' = LastOf(packet.replies, x)
      /\ detectorDevices(canDevices)' = detectorDevices(canDevices)
  BY <1>1 DEF Has, World, About, LastOf, detectorDevices
<1>3. \A u \in Thread : /\ \A x : Holds(u, x)' <=> Holds(u, x)
                        /\ \A c, x : Reaches(u, c, x)' <=> Reaches(u, c, x)
                        /\ \A c : Covers(u, c)' <=> Covers(u, c)
  BY <1>1, SameJob
<1>4. /\ \A c : \A x : Listens(c, x)' <=> Listens(c, x)
      /\ \A c : \A x : Pending(c, x)' <=> Pending(c, x)
      /\ \A c : \A x : Replied(c, x)' <=> Replied(c, x)
      /\ \A c : Answered(c)' <=> Answered(c)
      /\ \A c : \A x : Meets(c, x)' <=> Meets(c, x)
  BY <1>1, <1>2, <1>3 DEF Listens, Pending, Replied, Answered, Meets
<1>5. ServerTyped'
  BY <1>1 DEF ServerInv, ServerTyped
<1>6. TopicsTrue'
  BY <1>1, <1>2, <1>3, <1>4 DEF ServerInv, TopicsTrue, SaysTrue, Knows
<1>7. DueCovered'
  BY <1>1, <1>3, <1>4 DEF ServerInv, DueCovered
<1>8. PolledKnow'
  <2>1. /\ packet.polls => Has(packet.from, CANDetector)' /\ ~packet.orphan
        /\ packet.polls => \A n \in detectorDevices(canDevices) :
                             About(packet.replies, n) # {} \/ Meets(packet.from, n)'
    BY <1>1 DEF ServerInv, PolledKnow, Has, Meets, Reaches, Holds
  <2> QED
    BY <1>1, <1>2, <1>4, <2>1 DEF ServerInv, PolledKnow
<1> QED
  BY <1>5, <1>6, <1>7, <1>8 DEF ServerInv

-----------------------------------------------------------------------------
(* The steps of the simulator, with what the others ask of it.             *)
ServerStep ==
  \/ \E c \in Client : \E msgs \in Seq(LanMessage) : Receive(c, msgs)
  \/ handlePacket \/ RepliesLost
  \/ \E t \in Thread : AnnouncementStep(t) \/ \E c \in Client : sendUDP(t, c) \/ DatagramLost(t, c)
  \/ \E t \in Caller :
       \/ \E on \in BOOLEAN : SetTrackPowerAndNotify(t, on)
       \/ BroadcastSystemState(t)
       \/ \E n \in NetID, device \in CANDevice :
            device.kind \in {Detector, Booster} /\ NotifyCANDeviceDetected(t, n, device)
  \/ Start \/ Stop

LEMMA ServerKeeps == ServerInv /\ [ServerStep]_simVars => ServerInv'
<1> SUFFICES ASSUME ServerInv, [ServerStep]_simVars
             PROVE  ServerInv'
  OBVIOUS
<1>1. CASE handlePacket
  BY <1>1, OrphanKeeps, SetFlagsKeeps, LogOffKeeps, GetStatusKeeps, LANXKeeps, PollKeeps, CANKeeps,
     RepliesKeep DEF handlePacket
<1>2. CASE \E t \in Caller :
             \/ \E on \in BOOLEAN : SetTrackPowerAndNotify(t, on)
             \/ BroadcastSystemState(t)
             \/ \E n \in NetID, device \in CANDevice :
                  device.kind \in {Detector, Booster} /\ NotifyCANDeviceDetected(t, n, device)
  BY <1>2, PowerCallKeeps, StateCallKeeps, NotifyKeeps
<1>3. CASE UNCHANGED simVars \/ Start
  <2>1. UNCHANGED <<session, trackPower, canDevices, job, packet, historyVars>> /\ up' \in BOOLEAN
    BY <1>3 DEF simVars, serverVars, historyVars, Start, ServerInv, ServerTyped
  <2> QED
    BY <2>1, QuietKeeps
<1> QED
  BY <1>1, <1>2, <1>3, ReceiveKeeps, RepliesKeep, AnnouncementKeeps, SendKeeps, StopKeeps
     DEF ServerStep

(* When nothing is under way, what is to be heard has been heard.          *)
LEMMA ServerIsCurrent ==
  ServerInv => EveryChangeAnnounced /\ LastWordIsCurrent /\ NoDetectorMissed
<1> SUFFICES ASSUME ServerInv
             PROVE  EveryChangeAnnounced /\ LastWordIsCurrent /\ NoDetectorMissed
  OBVIOUS
<1>1. ASSUME Settled
      PROVE  /\ \A t \in Thread : \A c \in Client : ~Covers(t, c)
             /\ \A t \in Thread : \A c \in Client : \A x : ~Reaches(t, c, x)
             /\ \A x : About(packet.replies, x) = {}
  BY <1>1, IdleJob, NoPacketTyped DEF Settled, Covers, Reaches, Holds
<1>2. EveryChangeAnnounced
  <2> SUFFICES ASSUME Settled, NEW c \in due
               PROVE  FALSE
    BY DEF EveryChangeAnnounced
  <2> QED
    BY <1>1 DEF ServerInv, ServerTyped, DueCovered, Answered
<1>3. LastWordIsCurrent
  <2> SUFFICES ASSUME Settled, NEW c \in Client, NEW x \in Topic \ blurred, Listens(c, x)
               PROVE  heard[c][x] \in {Absent, World(x)}
    BY DEF LastWordIsCurrent
  <2>1. Knows(c, x)
    BY DEF ServerInv, TopicsTrue
  <2> QED
    BY <1>1, <2>1 DEF Knows, Replied, Pending
<1>4. NoDetectorMissed
  <2> SUFFICES ASSUME NEW c \in polled, NEW n \in detectorDevices(canDevices),
                      \A t \in Thread : ~Holds(t, n)
               PROVE  heard[c][n] # Absent /\ (n \notin blurred => IsKind(heard[c][n], Detector))
    BY DEF NoDetectorMissed
  <2>1. /\ c \in Client /\ n \in NetID /\ IsKind(canDevices[n], Detector) /\ n # Power /\ n \in Topic
        /\ Has(c, CANDetector) /\ Meets(c, n)
    BY ServerAssumption DEF ServerInv, ServerTyped, PolledKnow, detectorDevices, Topic
  <2>2. heard[c][n] # Absent /\ ~Pending(c, n)
    BY <2>1 DEF Meets, Reaches, Pending
  <2>3. n \notin blurred => heard[c][n] = canDevices[n]
    <3>1. n \notin blurred => Knows(c, n)
      BY <2>1 DEF ServerInv, TopicsTrue
    <3>2. Listens(c, n)
      BY <2>1 DEF Listens
    <3> QED
      BY <2>1, <2>2, <3>1, <3>2 DEF Knows, World
  <2> QED
    BY <2>1, <2>2, <2>3
<1> QED
  BY <1>2, <1>3, <1>4

=============================================================================
