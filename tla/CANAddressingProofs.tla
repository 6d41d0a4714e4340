------------------------ MODULE CANAddressingProofs ------------------------
(***************************************************************************)
(* Proofs about the allocation of CAN addresses, for any detectors,        *)
(* stations, pools, edits, faults and lags: an address is not taken away   *)
(* again, although the operator decides from copies; no two detectors get  *)
(* the same one, when the copies it decides from are up to date; and the   *)
(* pools' counts of them are right in the end.                             *)
(***************************************************************************)
EXTENDS CANAddressing, CANPoolProofs

-----------------------------------------------------------------------------
(***************************************************************************)
(* Sequences of events.                                                    *)
(***************************************************************************)
IsSeq(s) == \E X : s \in Seq(X)

(* A new event comes last.                                                 *)
LEMMA Appended ==
  ASSUME NEW s, IsSeq(s), NEW e
  PROVE  /\ IsSeq(Append(s, e)) /\ Len(s) \in Nat /\ DOMAIN s = 1 .. Len(s)
         /\ DOMAIN Append(s, e) = 1 .. (Len(s) + 1)
         /\ \A i \in DOMAIN s : Append(s, e)[i] = s[i]
         /\ Append(s, e)[Len(s) + 1] = e
<1>1. PICK X : s \in Seq(X)
  BY DEF IsSeq
<1>2. s \in Seq(X \cup {e}) /\ e \in X \cup {e}
  BY <1>1
<1>3. Append(s, e) \in Seq(X \cup {e})
  BY <1>2
<1> QED
  BY <1>2, <1>3 DEF IsSeq

(* The oldest one is delivered.                                            *)
LEMMA HeadAndTail ==
  ASSUME NEW s, IsSeq(s), s # <<>>
  PROVE  /\ IsSeq(Tail(s)) /\ Head(s) = s[1] /\ Len(s) \in Nat \ {0}
         /\ DOMAIN s = 1 .. Len(s) /\ DOMAIN Tail(s) = 1 .. (Len(s) - 1)
         /\ \A i \in DOMAIN Tail(s) : Tail(s)[i] = s[i + 1]
<1>1. PICK X : s \in Seq(X)
  BY DEF IsSeq
<1>2. Tail(s) \in Seq(X)
  BY <1>1
<1> QED
  BY <1>1, <1>2 DEF IsSeq

(***************************************************************************)
(* A copy follows an object through the events of its name: the latest one *)
(* that is not delivered has the object as it is; without one the copy is  *)
(* the object.                                                             *)
(***************************************************************************)
Follows(events, name, old, new) ==
  /\ (\A i \in DOMAIN events : events[i].name # name) => old = new
  /\ \A i \in DOMAIN events :
       events[i].name = name /\ (\A j \in DOMAIN events : j > i => events[j].name # name)
       => events[i].obj = new

(* A write with its event.                                                 *)
LEMMA FollowsWrite ==
  ASSUME NEW s, IsSeq(s), NEW name, NEW old, NEW new, Follows(s, name, old, new),
         NEW m, NEW obj
  PROVE  Follows(Append(s, Event(m, obj)), name, old, IF m = name THEN obj ELSE new)
<1> DEFINE t == Append(s, Event(m, obj))
           n == Len(s)
<1>1. /\ n \in Nat /\ DOMAIN s = 1 .. n /\ DOMAIN t = 1 .. (n + 1)
      /\ \A i \in 1 .. n : t[i] = s[i]
      /\ t[n + 1] = Event(m, obj)
  BY Appended
<1>2. t[n + 1].name = m /\ t[n + 1].obj = obj /\ n + 1 \in DOMAIN t
  BY <1>1 DEF Event
<1> HIDE DEF t, n
<1>3. CASE m = name
  <2>1. ASSUME NEW i \in DOMAIN t, \A j \in DOMAIN t : j > i => t[j].name # name
        PROVE  t[i].obj = obj
    <3>1. i = n + 1
      BY <1>1, <1>2, <1>3, <2>1
    <3> QED
      BY <1>2, <3>1
  <2> QED
    BY <1>2, <1>3, <2>1 DEF Follows, t
<1>4. CASE m # name
  <2>1. ASSUME \A i \in DOMAIN t : t[i].name # name
        PROVE  old = new
    <3>1. \A i \in DOMAIN s : s[i].name # name
      BY <1>1, <2>1
    <3> QED
      BY <3>1 DEF Follows
  <2>2. ASSUME NEW i \in DOMAIN t, t[i].name = name, \A j \in DOMAIN t : j > i => t[j].name # name
        PROVE  t[i].obj = new
    <3>1. i \in DOMAIN s
      BY <1>1, <1>2, <1>4, <2>2
    <3>2. s[i].name = name /\ \A j \in DOMAIN s : j > i => s[j].name # name
      BY <1>1, <2>2, <3>1
    <3> QED
      BY <1>1, <3>1, <3>2 DEF Follows
  <2> QED
    BY <1>4, <2>1, <2>2 DEF Follows, t
<1> QED
  BY <1>3, <1>4

(* The delivery of an event.                                               *)
LEMMA FollowsDelivery ==
  ASSUME NEW s, IsSeq(s), s # <<>>, NEW name, NEW old, NEW new, Follows(s, name, old, new)
  PROVE  Follows(Tail(s), name, IF Head(s).name = name THEN Head(s).obj ELSE old, new)
<1> DEFINE t == Tail(s)
           n == Len(s)
<1>1. /\ n \in Nat /\ 1 <= n /\ DOMAIN s = 1 .. n /\ DOMAIN t = 1 .. (n - 1)
      /\ \A i \in 1 .. (n - 1) : t[i] = s[i + 1]
      /\ Head(s) = s[1]
  BY HeadAndTail
<1> HIDE DEF t, n
<1>2. ASSUME \A i \in DOMAIN t : t[i].name # name
      PROVE  (IF Head(s).name = name THEN Head(s).obj ELSE old) = new
  <2>1. ASSUME NEW j \in DOMAIN s, j > 1
        PROVE  s[j].name # name
    <3>1. j - 1 \in DOMAIN t /\ (j - 1) + 1 = j
      BY <1>1, <2>1
    <3> QED
      BY <1>1, <1>2, <3>1
  <2>2. 1 \in DOMAIN s
    BY <1>1
  <2>3. CASE s[1].name = name
    BY <1>1, <2>1, <2>2, <2>3 DEF Follows
  <2>4. CASE s[1].name # name
    <3>1. \A j \in DOMAIN s : s[j].name # name
      BY <1>1, <2>1, <2>4
    <3> QED
      BY <1>1, <2>4, <3>1 DEF Follows
  <2> QED
    BY <2>3, <2>4
<1>3. ASSUME NEW i \in DOMAIN t, t[i].name = name, \A j \in DOMAIN t : j > i => t[j].name # name
      PROVE  t[i].obj = new
  <2>1. i + 1 \in DOMAIN s /\ s[i + 1] = t[i]
    BY <1>1
  <2>2. ASSUME NEW j \in DOMAIN s, j > i + 1
        PROVE  s[j].name # name
    <3>1. j - 1 \in DOMAIN t /\ j - 1 > i /\ (j - 1) + 1 = j
      BY <1>1, <2>2
    <3> QED
      BY <1>1, <1>3, <3>1
  <2> QED
    BY <1>3, <2>1, <2>2 DEF Follows
<1> QED
  BY <1>2, <1>3 DEF Follows, t

LEMMA FollowsNothing ==
  ASSUME NEW name, NEW new
  PROVE  Follows(<<>>, name, new, new)
BY DEF Follows

-----------------------------------------------------------------------------
(***************************************************************************)
(* The allocation.                                                         *)
(***************************************************************************)

(* A list of a finite set has its members, each at some place.             *)
Enumerates(as, n, S) ==
  /\ Len(as) = n
  /\ \A i \in 1 .. n : as[i] \in S
  /\ \A x \in S : \E i \in 1 .. n : as[i] = x

LEMMA Listed ==
  ASSUME NEW S, IsFiniteSet(S), NEW as \in SetToSeqs(S)
  PROVE  \E n \in Nat : Enumerates(as, n, S)
<1>1. PICK n \in Nat : n = Cardinality(S)
  BY FS_CardinalityType
<1>2. as \in [1 .. n -> S] /\ \A i, j \in 1 .. n : i # j => as[i] # as[j]
  BY <1>1 DEF SetToSeqs
<1>3. as \in Injection(1 .. n, S)
  BY <1>2 DEF Injection, IsInjective
<1>4. IsFiniteSet(1 .. n) /\ Cardinality(1 .. n) = n
  <2>1. 0 \in Int /\ 1 \in Int /\ n \in Int
    OBVIOUS
  <2> QED
    BY <2>1, FS_Interval
<1>5. as \in Surjection(1 .. n, S)
  <2>1. IsFiniteSet(1 .. n) /\ Cardinality(1 .. n) = Cardinality(S)
    BY <1>1, <1>4
  <2> QED
    BY <1>3, <2>1, FS_Injection
<1>6. Len(as) = n
  BY <1>2
<1> QED
  BY <1>2, <1>5, <1>6 DEF Surjection, Enumerates

(* The detectors of a pool make a finite list of assignments.              *)
LEMMA AssignmentsFinite ==
  ASSUME NEW pool
  PROVE  IsFiniteSet(AssignmentsOf(pool))
<1> DEFINE D == {x \in PoolDetectors(pool) : AssignedAddress(cache.det[x]) # None}
           f == [d \in D |-> [owner |-> d, address |-> AssignedAddress(cache.det[d])]]
<1>1. IsFiniteSet(D)
  BY StoreAssumption, FS_Subset DEF PoolDetectors
<1>2. f \in Surjection(D, AssignmentsOf(pool))
  BY DEF Surjection, AssignmentsOf
<1> HIDE DEF D, f
<1> QED
  BY <1>1, <1>2, FS_Surjection

(* What the allocation promises its caller, as listed: the address it      *)
(* gives is in the range, the one the detector is listed with if it is     *)
(* listed, nobody else's in the list, and a reserved one only for adoption.*)
Given(cfg, as, n, d, obj, r) ==
  /\ r.addr \in Nat \ {0} /\ r.addr \in cfg.start .. cfg.end
  /\ \A i \in 1 .. n : as[i].owner = d <=> as[i].address = r.addr
  /\ (\A i \in 1 .. n : as[i].owner # d) /\ r.addr \in Range(cfg.reserved)
     => obj.adopt /\ obj.observed = r.addr

LEMMA AllocationResult ==
  ASSUME NEW cfg \in Configuration, NEW as, NEW n \in Nat, Len(as) = n,
         NEW d \in Detector, NEW obj \in DetectorObject,
         NEW r, r = allocateDetectorAddress(cfg, Rebuild(New(cfg), as), d, obj)
  PROVE  /\ r.phase \in {Allocated, Failed} /\ r.message \in Messages
         /\ r.phase = Allocated => Given(cfg, as, n, d, obj, r)
<1> DEFINE rebuilt == Rebuild(New(cfg), as)
           p == rebuilt.pool
<1>1. Allocated # Failed
  BY DEF Allocated, Failed
<1>2. /\ rebuilt.err \in PoolErrors
      /\ Claim(p, d, obj.observed).err \in PoolErrors
      /\ Allocate(p, d).err \in PoolErrors
      /\ ErrInvalidConfig \in PoolErrors
  BY DEF Rebuild, RebuildError, Claim, ClaimError, Allocate, PoolErrors
<1>3. ASSUME NEW err \in PoolErrors, r = Failure(err)
      PROVE  r.phase \in {Allocated, Failed} /\ r.message \in Messages /\ r.phase # Allocated
  BY <1>1, <1>3 DEF Failure, Messages
<1>4. ASSUME NEW q, NEW a, r = Success(q, a)
      PROVE  r.phase = Allocated /\ r.message \in Messages /\ r.addr = a
  BY <1>4 DEF Success, Messages
<1> HIDE DEF rebuilt, p
<1>5. CASE ~Validate(cfg) \/ rebuilt.err # OK
  <2>1. r = Failure(ErrInvalidConfig) \/ r = Failure(rebuilt.err)
    BY <1>5 DEF allocateDetectorAddress, rebuilt
  <2> QED
    BY <1>2, <1>3, <2>1
<1>6. CASE Validate(cfg) /\ rebuilt.err = OK
  <2>1. /\ \A i \in 1 .. n : as[i].owner # NoOwner /\ InRange(New(cfg), as[i].address)
        /\ Distinct(as, 1 .. n)
        /\ Holds(p, cfg, as, 1 .. n)
    <3>1. New(cfg).cfg = cfg
      BY DEF New
    <3> QED
      BY <1>6, <3>1, RebuiltWhole DEF rebuilt, p
  <2>2. cfg.start \in Nat \ {0} /\ cfg.end \in Nat
    BY <1>6 DEF Configuration, Validate
  <2>3. \A i \in 1 .. n : as[i].address \in cfg.start .. cfg.end
    BY <2>1 DEF InRange, New
  <2>4. /\ p.cfg = cfg
        /\ DOMAIN p.ownerByAddr = {as[i].address : i \in 1 .. n}
        /\ DOMAIN p.addrByOwner = {as[i].owner : i \in 1 .. n}
        /\ \A i \in 1 .. n : p.addrByOwner[as[i].owner] = as[i].address
    BY <2>1 DEF Holds
  <2>5. CASE d \in DOMAIN p.addrByOwner
    <3>1. PICK i \in 1 .. n : as[i].owner = d
      BY <2>4, <2>5
    <3>2. r = Success(p, as[i].address)
      BY <1>6, <2>4, <2>5, <3>1 DEF allocateDetectorAddress, rebuilt, p
    <3>3. \A j \in 1 .. n : as[j].owner = d <=> as[j].address = as[i].address
      BY <2>1, <3>1 DEF Distinct
    <3>4. r.addr = as[i].address /\ r.phase = Allocated /\ r.message \in Messages
      BY <1>4, <3>2
    <3>5. r.addr \in cfg.start .. cfg.end /\ r.addr \in Nat \ {0}
      <4>1. r.addr \in cfg.start .. cfg.end
        BY <2>3, <3>4, Zenon
      <4>2. \A a \in cfg.start .. cfg.end : a \in Nat \ {0}
        BY <2>2
      <4> QED
        BY <4>1, <4>2, Zenon
    <3> QED
      BY <3>1, <3>3, <3>4, <3>5 DEF Given
  <2>6. CASE d \notin DOMAIN p.addrByOwner
    <3>1. \A i \in 1 .. n : as[i].owner # d
      BY <2>4, <2>6
    <3>2. ASSUME NEW a, a \in cfg.start .. cfg.end, a \notin DOMAIN p.ownerByAddr,
                 a \in Range(cfg.reserved) => obj.adopt /\ obj.observed = a,
                 r.addr = a, r.phase = Allocated, r.message \in Messages
          PROVE  /\ r.phase \in {Allocated, Failed} /\ r.message \in Messages
                 /\ r.phase = Allocated => Given(cfg, as, n, d, obj, r)
      <4>1. r.addr \in Nat \ {0}
        BY <2>2, <3>2
      <4>2. \A i \in 1 .. n : as[i].address # a
        BY <2>4, <3>2
      <4> QED
        BY <3>1, <3>2, <4>1, <4>2, Zenon DEF Given
    <3>3. CASE obj.adopt /\ obj.observed # None /\ IsAvailable(p, obj.observed)
      <4>1. r = Failure(Claim(p, d, obj.observed).err) \/ r = Success(Claim(p, d, obj.observed).pool, obj.observed)
        BY <1>6, <2>6, <3>3 DEF allocateDetectorAddress, rebuilt, p
      <4>2. obj.observed \in cfg.start .. cfg.end /\ obj.observed \notin DOMAIN p.ownerByAddr
        BY <2>4, <3>3 DEF IsAvailable, InRange
      <4>3. CASE r = Failure(Claim(p, d, obj.observed).err)
        BY <1>2, <1>3, <4>3
      <4>4. CASE r = Success(Claim(p, d, obj.observed).pool, obj.observed)
        <5>1. r.phase = Allocated /\ r.message \in Messages /\ r.addr = obj.observed
          BY <1>4, <4>4, Zenon
        <5> QED
          BY <3>2, <3>3, <4>2, <5>1
      <4> QED
        BY <4>1, <4>3, <4>4
    <3>4. CASE ~(obj.adopt /\ obj.observed # None /\ IsAvailable(p, obj.observed))
      <4>1. /\ Allocate(p, d).err # OK => r = Failure(Allocate(p, d).err)
            /\ Allocate(p, d).err = OK => r = Success(Allocate(p, d).pool, Allocate(p, d).addr)
        BY <1>6, <2>6, <3>4 DEF allocateDetectorAddress, rebuilt, p
      <4>2. CASE Allocate(p, d).err # OK
        BY <1>2, <1>3, <4>1, <4>2
      <4>3. CASE Allocate(p, d).err = OK
        <5>1. d # NoOwner
          BY StoreAssumption
        <5>2. Available(p) # {}
          BY <2>6, <4>3, <5>1 DEF Allocate, OK, ErrNoAddressAvailable
        <5>3. Allocate(p, d).addr = Min(Available(p))
          BY <2>6, <5>1, <5>2 DEF Allocate
        <5>4. /\ Available(p) \in SUBSET Nat
              /\ Available(p) = (cfg.start .. cfg.end) \ (DOMAIN p.ownerByAddr \cup Range(cfg.reserved))
          BY <2>2, <2>4, FreeAddresses
        <5>5. Min(Available(p)) \in Available(p)
          BY <5>2, <5>4, MinExists
        <5>6. PICK a : a = Min(Available(p))
          OBVIOUS
        <5>7. r.addr = a /\ r.phase = Allocated /\ r.message \in Messages
          BY <1>4, <4>1, <4>3, <5>3, <5>6
        <5>8. a \in cfg.start .. cfg.end /\ a \notin DOMAIN p.ownerByAddr /\ a \notin Range(cfg.reserved)
          BY <5>4, <5>5, <5>6
        <5> QED
          BY <3>2, <5>7, <5>8
      <4> QED
        BY <4>2, <4>3
    <3> QED
      BY <3>3, <3>4
  <2> QED
    BY <2>5, <2>6
<1> QED
  BY <1>5, <1>6

-----------------------------------------------------------------------------
(***************************************************************************)
(* Types.  A pool is there from the start or never.                        *)
(***************************************************************************)
Addr == Nat \ {0}

IsPool(obj) == obj = [cfg |-> obj.cfg, status |-> obj.status] /\ obj.cfg \in Configuration

PoolTyped(p, obj) == IF InitialPools[p] = Absent THEN obj = Absent ELSE IsPool(obj)

ObjectsTyped(ds, vs, ps) ==
  /\ ds \in [Detector -> MaybeDetector]
  /\ vs \in [Device -> PoolName \cup {Absent}]
  /\ ps = [p \in PoolName |-> ps[p]] /\ \A p \in PoolName : PoolTyped(p, ps[p])

EventsTyped(w) ==
  /\ \A i \in DOMAIN w.det : w.det[i].name \in Detector /\ w.det[i].obj \in MaybeDetector
  /\ \A i \in DOMAIN w.dev : w.dev[i].name \in Device /\ w.dev[i].obj \in PoolName \cup {Absent}
  /\ \A i \in DOMAIN w.pool : w.pool[i].name \in PoolName /\ PoolTyped(w.pool[i].name, w.pool[i].obj)

WatchTyped ==
  /\ watch = [det |-> watch.det, dev |-> watch.dev, pool |-> watch.pool]
  /\ IsSeq(watch.det) /\ IsSeq(watch.dev) /\ IsSeq(watch.pool)
  /\ EventsTyped(watch)

StoreTyped == ObjectsTyped(det, dev, pools) /\ WatchTyped /\ current \subseteq Detector \cup PoolName

CacheTyped ==
  /\ cache = [det |-> cache.det, dev |-> cache.dev, pool |-> cache.pool]
  /\ ObjectsTyped(cache.det, cache.dev, cache.pool)

RunTyped ==
  /\ queue \subseteq Detector
  /\ pc \in {"idle", "list", "spec", "status", "fail", "pool"}
  /\ pc = "idle" => run = NoRun
  /\ pc # "idle" =>
       /\ run = Reconcile(run.name, run.obj, run.pool, run.poolObj, run.statusChanged, run.stats)
       /\ run.name \in Detector /\ run.obj \in DetectorObject
  /\ pc \in {"list", "spec", "status", "pool"} => run.pool \in PoolName /\ InitialPools[run.pool] # Absent
  /\ pc \in {"list", "spec"} => IsPool(run.poolObj) /\ run.obj.ref \in Device

Lists(left) ==
  /\ left = [d \in DOMAIN left |-> left[d]]
  /\ \A d \in DOMAIN left : d \in Detector /\ left[d] \in DetectorObject /\ left[d].desired # None

GatewayState(g) ==
  /\ g.pc \in {"idle", "observe", "pass", "poll"}
  /\ g.pc = "observe" => g.name \in Detector /\ g.addr \in Addr /\ g.base \in DetectorObject
  /\ g.pc \in {"pass", "poll"} => Lists(g.left)
  /\ g.pc = "poll" => g.name \in DOMAIN g.left

ManagerTyped ==
  /\ hw \in [Detector -> Addr]
  /\ reports \subseteq Detector \X Addr
  /\ gw = [v \in Device |-> gw[v]] /\ \A v \in Device : GatewayState(gw[v])

OperatorTyped == StoreTyped /\ CacheTyped /\ RunTyped

AllTyped == OperatorTyped /\ ManagerTyped

-----------------------------------------------------------------------------
(* What the writes leave of an object.                                     *)
LEMMA NewDetectorTyped ==
  ASSUME NEW ref \in Device \cup {None}, NEW labelled \in BOOLEAN, NEW adopt \in BOOLEAN
  PROVE  NewDetector(ref, labelled, adopt) \in DetectorObject
BY DEF NewDetector, DetectorObject, MaybeAddress, Messages

(* A status patch changes nothing but the fields it is about.              *)
SpecKept(old, new) ==
  /\ new.ref = old.ref /\ new.labelled = old.labelled /\ new.adopt = old.adopt
  /\ new.desired = old.desired /\ new.assigned = old.assigned

LEMMA PatchedObject ==
  ASSUME NEW server \in DetectorObject, NEW base \in DetectorObject, NEW new \in DetectorObject,
         SpecKept(base, new)
  PROVE  /\ MergePatch(server, base, new) \in DetectorObject
         /\ SpecKept(server, MergePatch(server, base, new))
         /\ \A f \in {"observed", "phase", "message"} :
              MergePatch(server, base, new)[f] = IF new[f] # base[f] THEN new[f] ELSE server[f]
<1>1. MergePatch(server, base, new) =
        [ref |-> server.ref, labelled |-> server.labelled, adopt |-> server.adopt,
         desired |-> server.desired,
         observed |-> IF new.observed # base.observed THEN new.observed ELSE server.observed,
         assigned |-> server.assigned,
         phase |-> IF new.phase # base.phase THEN new.phase ELSE server.phase,
         message |-> IF new.message # base.message THEN new.message ELSE server.message]
  BY DEF MergePatch, SpecKept, DetectorObject
<1> QED
  BY <1>1 DEF SpecKept, DetectorObject

(***************************************************************************)
(* Steps, by what they do to the objects, their events and the operator.   *)
(* Users and gateways write a detector from outside the reconcile: the     *)
(* reconcile's copy of it is then no longer current.                       *)
(***************************************************************************)
Outside(d, obj) ==
  /\ PutDetector(d, obj)
  /\ current' = IF obj # det[d] THEN current \ {d} ELSE current

(* All they do to an object is to create it without an address, to delete  *)
(* it, and to patch what is not the operator's.                            *)
Allowed(d, obj) ==
  \/ obj = Absent
  \/ /\ det[d] = Absent
     /\ \E ref \in Device \cup {None}, labelled \in BOOLEAN, adopt \in BOOLEAN :
           obj = NewDetector(ref, labelled, adopt)
  \/ /\ det[d] # Absent /\ obj \in DetectorObject
     /\ det[d].ref # None => obj.ref = det[d].ref
     /\ obj.adopt = det[d].adopt /\ obj.desired = det[d].desired /\ obj.assigned = det[d].assigned

OutsideWrite == \E d \in Detector : \E obj \in MaybeDetector : Outside(d, obj) /\ Allowed(d, obj)

PoolEdited ==
  \E p \in PoolName :
    /\ pools[p] # Absent
    /\ \E cfg \in PoolEdits \ {pools[p].cfg} : PutPool(p, [pools[p] EXCEPT !.cfg = cfg])
    /\ current' = current \ {p}

DeviceEdited == \E v \in Device : (\E p \in DeviceEdits \ {dev[v]} : PutDevice(v, p)) /\ UNCHANGED current

(* What the rest of the system does to the objects.                        *)
OthersStep ==
  /\ OutsideWrite \/ PoolEdited \/ DeviceEdited \/ UNCHANGED storeVars
  /\ UNCHANGED controllerVars

(* A reconcile that is over.                                               *)
Ends == /\ pc' = "idle" /\ run' = NoRun /\ current' = {} /\ UNCHANGED cache
        /\ queue' \subseteq queue \cup {run.name}

(* The reconcile goes on with what it has, or is over.                     *)
GoesOn(labels, obj) ==
  \/ Ends
  \/ /\ pc' \in labels /\ run' = [run EXCEPT !.obj = obj]
     /\ UNCHANGED <<current, cache, queue>>

OperatorWrite ==
  /\ run.name \in current
  /\ \/ /\ pc = "spec" /\ PutDetector(run.name, SpecWritten)
        /\ GoesOn({"status", "pool"}, DecodedInto(run.obj, SpecWritten))
     \/ /\ pc \in {"status", "fail"} /\ PutDetector(run.name, StatusWritten)
        /\ GoesOn({"pool"}, run.obj) /\ (pc = "fail" => Ends)

PoolStatusWrite ==
  /\ pc = "pool"
  /\ PutPool(run.pool, [pools[run.pool] EXCEPT !.status = run.stats])
  /\ Ends

NoWrite == pc # "idle" /\ Ends /\ UNCHANGED <<det, dev, pools, watch>>

Delivery ==
  \E kind \in {"det", "dev", "pool"} :
    /\ watch[kind] # <<>>
    /\ cache' = [cache EXCEPT ![kind][Head(watch[kind]).name] = Head(watch[kind]).obj]
    /\ watch' = [watch EXCEPT ![kind] = Tail(@)]
    /\ UNCHANGED <<det, dev, pools, current, pc, run>>

Steps ==
  \/ OthersStep
  \/ Delivery /\ queue' \subseteq Detector
  \/ \E d \in Detector : Begin(d)
  \/ ListAndAllocate
  \/ OperatorWrite
  \/ PoolStatusWrite
  \/ NoWrite
  \/ RestartOperator

LEMMA UserSteps ==
  ASSUME AllTyped, UserEdits
  PROVE  OthersStep
<1>1. ASSUME NEW d \in Detector, CreateDetector(d)
      PROVE  OutsideWrite
  <2>1. PICK ref \in {None, DeviceOf[d]}, adopt \in BOOLEAN : PutDetector(d, NewDetector(ref, FALSE, adopt))
    BY <1>1 DEF CreateDetector
  <2>2. ref \in Device \cup {None}
    BY StoreAssumption
  <2>3. NewDetector(ref, FALSE, adopt) \in MaybeDetector
    BY <2>2, NewDetectorTyped DEF MaybeDetector
  <2>4. Outside(d, NewDetector(ref, FALSE, adopt))
    <3>1. det[d] = Absent /\ NewDetector(ref, FALSE, adopt) # Absent
      BY <1>1, <2>2, NewDetectorTyped, SystemAssumption DEF CreateDetector
    <3> QED
      BY <1>1, <2>1, <3>1 DEF Outside, CreateDetector, Outdate
  <2>5. Allowed(d, NewDetector(ref, FALSE, adopt))
    BY <1>1, <2>2 DEF Allowed, CreateDetector
  <2> QED
    BY <2>3, <2>4, <2>5 DEF OutsideWrite
<1>2. ASSUME NEW d \in Detector, DeleteDetector(d)
      PROVE  OutsideWrite
  BY <1>2 DEF OutsideWrite, DeleteDetector, Outside, Allowed, Outdate, MaybeDetector
<1>3. ASSUME NEW p \in PoolName, EditPool(p)
      PROVE  PoolEdited
  BY <1>3 DEF PoolEdited, EditPool, Outdate
<1>4. ASSUME NEW v \in Device, EditDevice(v)
      PROVE  DeviceEdited
  BY <1>4 DEF DeviceEdited, EditDevice
<1> QED
  BY <1>1, <1>2, <1>3, <1>4 DEF UserEdits, OthersStep

(* A status patch of a gateway leaves the operator's fields alone.         *)
LEMMA PatchSteps ==
  ASSUME AllTyped, NEW d \in Detector, NEW base \in DetectorObject, NEW new \in DetectorObject,
         SpecKept(base, new), PatchStatus(d, base, new)
  PROVE  OutsideWrite \/ UNCHANGED storeVars
<1>1. CASE det[d] = Absent
  BY <1>1 DEF PatchStatus
<1>2. CASE det[d] # Absent
  <2>1. det[d] \in DetectorObject
    BY <1>2 DEF AllTyped, OperatorTyped, StoreTyped, ObjectsTyped, MaybeDetector
  <2> DEFINE obj == MergePatch(det[d], base, new)
  <2>2. obj \in DetectorObject /\ SpecKept(det[d], obj)
    BY <2>1, PatchedObject
  <2>3. PutDetector(d, obj) /\ (IF det'[d] # det[d] THEN Outdate(d) ELSE UNCHANGED current)
    BY <1>2 DEF PatchStatus
  <2>4. det'[d] = obj
    BY <2>3 DEF PutDetector, AllTyped, OperatorTyped, StoreTyped, ObjectsTyped
  <2> HIDE DEF obj
  <2>5. Outside(d, obj)
    BY <2>3, <2>4 DEF Outside, Outdate
  <2>6. Allowed(d, obj)
    BY <1>2, <2>2 DEF Allowed, SpecKept
  <2> QED
    BY <2>2, <2>5, <2>6 DEF OutsideWrite, MaybeDetector
<1> QED
  BY <1>1, <1>2

LEMMA UpsertSteps ==
  ASSUME AllTyped, NEW d \in Detector, NEW addr, UpsertDiscovered(d, addr)
  PROVE  OutsideWrite
<1> DEFINE obj == Upserted(DeviceOf[d], d)
<1>1. DeviceOf[d] \in Device
  BY StoreAssumption
<1>2. det[d] = Absent \/ det[d] \in DetectorObject
  BY DEF AllTyped, OperatorTyped, StoreTyped, ObjectsTyped, MaybeDetector
<1>3. obj \in DetectorObject /\ Allowed(d, obj)
  <2>1. CASE det[d] = Absent
    <3>1. obj = NewDetector(DeviceOf[d], TRUE, TRUE)
      BY <2>1 DEF Upserted
    <3>2. obj \in DetectorObject
      BY <1>1, <3>1, NewDetectorTyped
    <3> QED
      BY <1>1, <2>1, <3>1, <3>2 DEF Allowed
  <2>2. CASE det[d] # Absent
    <3>1. det[d] \in DetectorObject
      BY <1>2, <2>2
    <3>2. /\ obj \in DetectorObject
          /\ obj.ref = IF det[d].ref = None THEN DeviceOf[d] ELSE det[d].ref
          /\ obj.adopt = det[d].adopt /\ obj.desired = det[d].desired /\ obj.assigned = det[d].assigned
      BY <1>1, <2>2, <3>1 DEF Upserted, DetectorObject
    <3> QED
      BY <2>2, <3>2 DEF Allowed
  <2> QED
    BY <2>1, <2>2
<1>4. PutDetector(d, obj) /\ (IF det'[d] # det[d] THEN Outdate(d) ELSE UNCHANGED current)
  BY DEF UpsertDiscovered
<1>5. det'[d] = obj
  BY <1>4 DEF PutDetector, AllTyped, OperatorTyped, StoreTyped, ObjectsTyped
<1> HIDE DEF obj
<1>6. Outside(d, obj)
  BY <1>4, <1>5 DEF Outside, Outdate
<1> QED
  BY <1>3, <1>6 DEF OutsideWrite, MaybeDetector

LEMMA Patches ==
  ASSUME NEW base \in DetectorObject, NEW addr \in Addr
  PROVE  /\ Observed(base, addr) \in DetectorObject /\ SpecKept(base, Observed(base, addr))
         /\ Polled(base, addr) \in DetectorObject /\ SpecKept(base, Polled(base, addr))
         /\ [base EXCEPT !.phase = Applied, !.message = NoMessage] \in DetectorObject
         /\ SpecKept(base, [base EXCEPT !.phase = Applied, !.message = NoMessage])
BY DEF Observed, Polled, SpecKept, DetectorObject, MaybeAddress, Messages, Addr

LEMMA GatewaySteps ==
  ASSUME AllTyped, NEW v \in Device, ManagerStep(v)
  PROVE  OutsideWrite \/ UNCHANGED storeVars
<1>1. GatewayState(gw[v]) /\ 1 \in Addr
  BY DEF AllTyped, ManagerTyped, Addr
<1>2. ASSUME PatchObserved(v)
      PROVE  OutsideWrite \/ UNCHANGED storeVars
  <2> DEFINE d == gw[v].name  base == gw[v].base  addr == gw[v].addr
  <2>1. d \in Detector /\ base \in DetectorObject /\ addr \in Addr
    BY <1>1, <1>2 DEF PatchObserved, GatewayState
  <2>2. PatchStatus(d, base, Observed(base, addr))
    BY <1>2 DEF PatchObserved
  <2>3. Observed(base, addr) \in DetectorObject /\ SpecKept(base, Observed(base, addr))
    BY <2>1, Patches
  <2> HIDE DEF d, base, addr
  <2> QED
    BY <2>1, <2>2, <2>3, PatchSteps
<1>3. ASSUME gw[v].pc = "pass", NEW d \in DOMAIN gw[v].left, MarkApplied(v, d)
      PROVE  OutsideWrite \/ UNCHANGED storeVars
  <2> DEFINE base == gw[v].left[d]
             new == [base EXCEPT !.phase = Applied, !.message = NoMessage]
  <2>1. d \in Detector /\ base \in DetectorObject
    BY <1>1, <1>3 DEF GatewayState, Lists
  <2>2. UNCHANGED storeVars \/ PatchStatus(d, base, new)
    BY <1>3 DEF MarkApplied
  <2>3. new \in DetectorObject /\ SpecKept(base, new)
    BY <1>1, <2>1, Patches
  <2> HIDE DEF base, new
  <2> QED
    BY <2>1, <2>2, <2>3, PatchSteps
<1>4. ASSUME NEW d, SetModuleAddress(v, d)
      PROVE  UNCHANGED storeVars
  BY <1>4 DEF SetModuleAddress
<1>5. ASSUME NEW addr \in {hw[d] : d \in Detector} \cup {r[2] : r \in reports}, PatchPolled(v, addr)
      PROVE  OutsideWrite \/ UNCHANGED storeVars
  <2> DEFINE d == gw[v].name  base == gw[v].left[d]
  <2>1. d \in Detector /\ base \in DetectorObject
    BY <1>1, <1>5 DEF PatchPolled, GatewayState, Lists
  <2>2. addr \in Addr
    BY DEF AllTyped, ManagerTyped
  <2>3. PatchStatus(d, base, Polled(base, addr))
    BY <1>5 DEF PatchPolled
  <2>4. Polled(base, addr) \in DetectorObject /\ SpecKept(base, Polled(base, addr))
    BY <2>1, <2>2, Patches
  <2> HIDE DEF d, base
  <2> QED
    BY <2>1, <2>3, <2>4, PatchSteps
<1> QED
  BY <1>2, <1>3, <1>4, <1>5 DEF ManagerStep, ReconcileOne

(* Writes and ends of the operator.                                        *)
LEMMA GoesOnOrEnds ==
  ASSUME NEW obj, RunTyped, pc # "idle",
         PoolStatusOrFinish([run EXCEPT !.obj = obj])
  PROVE  GoesOn({"status", "pool"}, obj) /\ GoesOn({"pool"}, obj)
BY DEF PoolStatusOrFinish, GoesOn, Ends, Finish, Goto

LEMMA ReconcileSteps ==
  ASSUME AllTyped, ReconcileStep
  PROVE  ListAndAllocate \/ OperatorWrite \/ PoolStatusWrite \/ NoWrite
<1>1. RunTyped
  BY DEF AllTyped, OperatorTyped
<1>2. CASE UpdateSpec
  <2> DEFINE obj == DecodedInto(run.obj, SpecWritten)
  <2>1. PutDetector(run.name, SpecWritten) /\ pc = "spec" /\ run.name \in current
    BY <1>2 DEF UpdateSpec
  <2>2. \/ Goto("status", [run EXCEPT !.obj = obj]) /\ UNCHANGED current
        \/ PoolStatusOrFinish([run EXCEPT !.obj = obj])
    BY <1>2 DEF UpdateSpec
  <2> HIDE DEF obj
  <2>3. GoesOn({"status", "pool"}, obj)
    BY <1>1, <2>1, <2>2, GoesOnOrEnds DEF GoesOn, Goto
  <2> QED
    BY <2>1, <2>3 DEF OperatorWrite, obj
<1>3. CASE UpdateStatus
  <2>1. run = [run EXCEPT !.obj = run.obj]
    BY <1>1, <1>3 DEF RunTyped, UpdateStatus, Reconcile
  <2>2. GoesOn({"pool"}, run.obj)
    BY <1>1, <1>3, <2>1, GoesOnOrEnds DEF UpdateStatus
  <2> QED
    BY <1>3, <2>2 DEF OperatorWrite, UpdateStatus
<1>4. CASE PatchFailed
  BY <1>4 DEF PatchFailed, OperatorWrite, GoesOn, Ends, Finish
<1>5. CASE Conflict
  BY <1>5 DEF Conflict, NoWrite, Ends, Requeue
<1>6. CASE UpdatePoolStatus
  BY <1>6 DEF UpdatePoolStatus, PoolStatusWrite, NoWrite, Ends, Finish
<1> QED
  BY <1>2, <1>3, <1>4, <1>5, <1>6 DEF ReconcileStep

LEMMA FaultSteps ==
  ASSUME AllTyped, WriteRefused \/ AnswerLost
  PROVE  OperatorWrite \/ NoWrite
<1>1. CASE WriteRefused
  BY <1>1 DEF WriteRefused, NoWrite, Ends, Requeue, Finish
<1>2. CASE AnswerLost
  <2>1. Ends
    BY <1>2 DEF AnswerLost, Ends, Requeue
  <2> QED
    BY <1>2, <2>1 DEF AnswerLost, OperatorWrite, GoesOn
<1> QED
  BY <1>1, <1>2

LEMMA DeliverySteps ==
  ASSUME AllTyped, DeliverDetector \/ mapDeviceToDetectors \/ mapPoolToDetectors
  PROVE  Delivery /\ queue' \subseteq Detector
<1>1. ASSUME NEW kind \in {"det", "dev", "pool"}, NEW woken, Deliver(kind, woken),
             watch[kind] # <<>> => woken[Head(watch[kind]).name] \subseteq Detector
      PROVE  Delivery /\ queue' \subseteq Detector
  BY <1>1 DEF Deliver, Delivery, AllTyped, OperatorTyped, RunTyped
<1>2. /\ watch.det # <<>> => Head(watch.det).name \in Detector
      /\ watch.dev # <<>> => Head(watch.dev).name \in Device
      /\ watch.pool # <<>> => Head(watch.pool).name \in PoolName
  BY HeadAndTail DEF AllTyped, OperatorTyped, StoreTyped, WatchTyped, EventsTyped
<1>3. CASE DeliverDetector
  BY <1>1, <1>2, <1>3 DEF DeliverDetector
<1>4. CASE mapDeviceToDetectors
  BY <1>1, <1>2, <1>4 DEF mapDeviceToDetectors, DetectorsOfDevice
<1>5. CASE mapPoolToDetectors
  BY <1>1, <1>2, <1>5 DEF mapPoolToDetectors, DetectorsOfDevice
<1> QED
  BY <1>3, <1>4, <1>5

LEMMA NextSteps ==
  ASSUME AllTyped, [Next]_vars
  PROVE  Steps
<1>1. CASE UserEdits
  BY <1>1, UserSteps DEF Steps
<1>2. CASE Informers
  BY <1>2, DeliverySteps DEF Steps, Informers
<1>3. ASSUME NEW d \in Detector, StartReconcile(d) \/ Reports(d) \/ Discovers(d)
      PROVE  Steps
  <2>1. CASE StartReconcile(d)
    BY <2>1 DEF Steps, StartReconcile
  <2>2. CASE Reports(d)
    BY <2>2 DEF Steps, Reports, ModuleReports, OthersStep
  <2>3. CASE Discovers(d)
    BY <2>3, UpsertSteps DEF Steps, Discovers, OthersStep
  <2> QED
    BY <1>3, <2>1, <2>2, <2>3
<1>4. CASE StepReconcile
  BY <1>4, ReconcileSteps DEF Steps, StepReconcile
<1>5. ASSUME NEW v \in Device, Gateway(v) \/ StartsPass(v)
      PROVE  Steps
  BY <1>5, GatewaySteps DEF Steps, Gateway, StartsPass, ReconcileAddresses, OthersStep
<1>6. CASE Faults
  BY <1>6, FaultSteps DEF Steps, Faults, GatewayFails, OthersStep
<1>7. CASE UNCHANGED vars
  BY <1>7 DEF Steps, vars, OthersStep
<1> QED
  BY <1>1, <1>2, <1>3, <1>4, <1>5, <1>6, <1>7 DEF Next

(***************************************************************************)
(* Types of a step.                                                        *)
(***************************************************************************)
LEMMA PublishTyped ==
  ASSUME WatchTyped, NEW kind \in {"det", "dev", "pool"}, NEW name, NEW obj,
         kind = "det" => name \in Detector /\ obj \in MaybeDetector,
         kind = "dev" => name \in Device /\ obj \in PoolName \cup {Absent},
         kind = "pool" => name \in PoolName /\ PoolTyped(name, obj),
         Publish(kind, name, obj) \/ UNCHANGED watch
  PROVE  /\ WatchTyped'
         /\ watch' = watch \/ watch'[kind] = Append(watch[kind], Event(name, obj))
         /\ \A k \in {"det", "dev", "pool"} : k # kind => watch'[k] = watch[k]
<1>1. CASE UNCHANGED watch
  BY <1>1 DEF WatchTyped
<1>2. CASE Publish(kind, name, obj)
  <2>1. watch' = [watch EXCEPT ![kind] = Append(@, Event(name, obj))]
    BY <1>2 DEF Publish
  <2>2. /\ watch'[kind] = Append(watch[kind], Event(name, obj))
        /\ \A k \in {"det", "dev", "pool"} : k # kind => watch'[k] = watch[k]
        /\ watch' = [det |-> watch'.det, dev |-> watch'.dev, pool |-> watch'.pool]
    BY <2>1 DEF WatchTyped
  <2>3. Event(name, obj).name = name /\ Event(name, obj).obj = obj
    BY DEF Event
  <2>4. \A k \in {"det", "dev", "pool"} : IsSeq(watch[k])
    BY DEF WatchTyped
  <2>5. /\ IsSeq(Append(watch[kind], Event(name, obj)))
        /\ \A i \in DOMAIN Append(watch[kind], Event(name, obj)) :
             \/ i \in DOMAIN watch[kind] /\ Append(watch[kind], Event(name, obj))[i] = watch[kind][i]
             \/ Append(watch[kind], Event(name, obj))[i] = Event(name, obj)
    BY <2>4, Appended
  <2>6. \A k \in {"det", "dev", "pool"} : IsSeq(watch'[k])
    BY <2>2, <2>4, <2>5
  <2>7. CASE kind = "det"
    BY <2>2, <2>3, <2>5, <2>6, <2>7 DEF WatchTyped, EventsTyped
  <2>8. CASE kind = "dev"
    BY <2>2, <2>3, <2>5, <2>6, <2>8 DEF WatchTyped, EventsTyped
  <2>9. CASE kind = "pool"
    BY <2>2, <2>3, <2>5, <2>6, <2>9 DEF WatchTyped, EventsTyped
  <2> QED
    BY <2>2, <2>7, <2>8, <2>9
<1> QED
  BY <1>1, <1>2

(* Every write is in the objects, and in the events unless it changed      *)
(* nothing.                                                                *)
LEMMA DetectorPut ==
  ASSUME StoreTyped, NEW d \in Detector, NEW obj \in MaybeDetector, PutDetector(d, obj)
  PROVE  /\ ObjectsTyped(det, dev, pools)' /\ WatchTyped'
         /\ det' = [x \in Detector |-> IF x = d THEN obj ELSE det[x]] /\ UNCHANGED <<dev, pools>>
         /\ watch'.dev = watch.dev /\ watch'.pool = watch.pool
         /\ \/ watch' = watch /\ obj = det[d]
            \/ obj # det[d] /\ watch'.det = Append(watch.det, Event(d, obj))
<1>1. /\ det' = [x \in Detector |-> IF x = d THEN obj ELSE det[x]] /\ UNCHANGED <<dev, pools>>
      /\ ObjectsTyped(det, dev, pools)'
  BY DEF StoreTyped, ObjectsTyped, PutDetector
<1>2. (watch' = watch /\ obj = det[d]) \/ (obj # det[d] /\ Publish("det", d, obj))
  BY DEF PutDetector
<1>3. WatchTyped
  BY DEF StoreTyped
<1>4. /\ WatchTyped' /\ (watch' = watch \/ watch'["det"] = Append(watch["det"], Event(d, obj)))
      /\ \A k \in {"det", "dev", "pool"} : k # "det" => watch'[k] = watch[k]
  BY <1>2, <1>3, PublishTyped
<1>5. Publish("det", d, obj) => watch'.det = Append(watch.det, Event(d, obj))
  BY <1>3 DEF Publish, WatchTyped
<1> QED
  BY <1>1, <1>2, <1>4, <1>5

LEMMA PoolPut ==
  ASSUME StoreTyped, NEW p \in PoolName, NEW obj, PoolTyped(p, obj), PutPool(p, obj)
  PROVE  /\ ObjectsTyped(det, dev, pools)' /\ WatchTyped'
         /\ pools' = [x \in PoolName |-> IF x = p THEN obj ELSE pools[x]] /\ UNCHANGED <<det, dev>>
         /\ watch'.det = watch.det /\ watch'.dev = watch.dev
         /\ watch' = watch \/ watch'.pool = Append(watch.pool, Event(p, obj))
<1>1. pools' = [x \in PoolName |-> IF x = p THEN obj ELSE pools[x]] /\ UNCHANGED <<det, dev>>
  BY DEF StoreTyped, ObjectsTyped, PutPool
<1>2. ObjectsTyped(det, dev, pools)'
  BY <1>1 DEF StoreTyped, ObjectsTyped
<1>3. WatchTyped /\ (Publish("pool", p, obj) \/ UNCHANGED watch)
  BY DEF StoreTyped, PutPool
<1>4. /\ WatchTyped' /\ \A k \in {"det", "dev", "pool"} : k # "pool" => watch'[k] = watch[k]
      /\ watch' = watch \/ watch'["pool"] = Append(watch["pool"], Event(p, obj))
  BY <1>3, PublishTyped
<1> QED
  BY <1>1, <1>2, <1>4

LEMMA DevicePut ==
  ASSUME StoreTyped, NEW v \in Device, NEW p \in PoolName \cup {Absent}, PutDevice(v, p)
  PROVE  /\ ObjectsTyped(det, dev, pools)' /\ WatchTyped'
         /\ dev' = [x \in Device |-> IF x = v THEN p ELSE dev[x]] /\ UNCHANGED <<det, pools>>
         /\ watch'.det = watch.det /\ watch'.pool = watch.pool
         /\ watch'.dev = Append(watch.dev, Event(v, p))
<1>1. dev' = [x \in Device |-> IF x = v THEN p ELSE dev[x]] /\ UNCHANGED <<det, pools>>
  BY DEF StoreTyped, ObjectsTyped, PutDevice
<1>2. ObjectsTyped(det, dev, pools)'
  BY <1>1 DEF StoreTyped, ObjectsTyped
<1>3. WatchTyped /\ Publish("dev", v, p)
  BY DEF StoreTyped, PutDevice
<1>4. WatchTyped' /\ \A k \in {"det", "dev", "pool"} : k # "dev" => watch'[k] = watch[k]
  BY <1>3, PublishTyped
<1>5. watch'.dev = Append(watch.dev, Event(v, p))
  BY <1>3 DEF Publish, WatchTyped
<1> QED
  BY <1>1, <1>2, <1>4, <1>5

-----------------------------------------------------------------------------
(***************************************************************************)
(* The copies of the operator.  The informers' follow the objects; the one *)
(* a reconcile works on, as long as its resourceVersion is the latest, is  *)
(* the object with what the reconcile has changed.                         *)
(***************************************************************************)
Streamed ==
  /\ \A d \in Detector : Follows(watch.det, d, cache.det[d], det[d])
  /\ \A v \in Device : Follows(watch.dev, v, cache.dev[v], dev[v])

(* The copy before the spec is written, with an address newly entered.     *)
Fits(obj, new) ==
  /\ new.ref = obj.ref /\ new.adopt = obj.adopt /\ new.observed = obj.observed
  /\ \/ new.desired = obj.desired /\ new.assigned = obj.assigned
     \/ new.desired # None /\ new.assigned = new.desired

(* The copy before the status is written.                                  *)
InStep(obj, new) ==
  /\ new.desired = obj.desired /\ new.observed = obj.observed
  /\ new.assigned \in {obj.assigned, obj.desired}

CopyCurrent ==
  (pc # "idle" /\ run.name \in current) =>
    /\ pc # "pool" => det[run.name] \in DetectorObject
    /\ pc = "list" => /\ run.obj = det[run.name]
                      /\ \A i \in DOMAIN watch.det : watch.det[i].name # run.name
    /\ pc = "spec" => Fits(det[run.name], run.obj)
    /\ pc \in {"status", "fail"} => InStep(det[run.name], run.obj)

Informed == OperatorTyped /\ Streamed /\ CopyCurrent

LEMMA SpecReplaced ==
  ASSUME NEW old \in DetectorObject, NEW new \in DetectorObject
  PROVE  LET obj == [old EXCEPT !.ref = new.ref, !.labelled = new.labelled,
                               !.adopt = new.adopt, !.desired = new.desired]
         IN  /\ obj \in DetectorObject
             /\ obj.ref = new.ref /\ obj.adopt = new.adopt /\ obj.desired = new.desired
             /\ obj.observed = old.observed /\ obj.assigned = old.assigned /\ obj.phase = old.phase
BY DEF DetectorObject

LEMMA StatusReplaced ==
  ASSUME NEW old \in DetectorObject, NEW new \in DetectorObject
  PROVE  LET obj == [old EXCEPT !.observed = new.observed, !.assigned = new.assigned,
                               !.phase = new.phase, !.message = new.message]
         IN  /\ obj \in DetectorObject
             /\ obj.ref = old.ref /\ obj.adopt = old.adopt /\ obj.desired = old.desired
             /\ obj.observed = new.observed /\ obj.assigned = new.assigned /\ obj.phase = new.phase
BY DEF DetectorObject

(* What the operator writes.                                               *)
LEMMA Written ==
  ASSUME Informed, pc \in {"spec", "status", "fail"}, run.name \in current
  PROVE  /\ run.name \in Detector /\ det[run.name] \in DetectorObject
         /\ SpecWritten \in DetectorObject /\ StatusWritten \in DetectorObject
         /\ SpecWritten.ref = run.obj.ref /\ SpecWritten.adopt = run.obj.adopt
         /\ SpecWritten.desired = run.obj.desired
         /\ SpecWritten.observed = det[run.name].observed
         /\ SpecWritten.assigned = det[run.name].assigned
         /\ StatusWritten.ref = det[run.name].ref /\ StatusWritten.adopt = det[run.name].adopt
         /\ StatusWritten.desired = det[run.name].desired
         /\ StatusWritten.observed = run.obj.observed /\ StatusWritten.assigned = run.obj.assigned
         /\ StatusWritten.phase = run.obj.phase
         /\ DecodedInto(run.obj, SpecWritten) \in DetectorObject
         /\ InStep(SpecWritten, DecodedInto(run.obj, SpecWritten)) \/ pc # "spec"
<1>1. run.name \in Detector /\ det[run.name] \in DetectorObject /\ run.obj \in DetectorObject
  BY DEF Informed, CopyCurrent, OperatorTyped, RunTyped
<1>2. pc = "spec" => Fits(det[run.name], run.obj)
  BY DEF Informed, CopyCurrent
<1>3. /\ SpecWritten \in DetectorObject
      /\ SpecWritten.ref = run.obj.ref /\ SpecWritten.adopt = run.obj.adopt
      /\ SpecWritten.desired = run.obj.desired
      /\ SpecWritten.observed = det[run.name].observed
      /\ SpecWritten.assigned = det[run.name].assigned
  BY <1>1, SpecReplaced DEF SpecWritten
<1>4. /\ StatusWritten \in DetectorObject
      /\ StatusWritten.ref = det[run.name].ref /\ StatusWritten.adopt = det[run.name].adopt
      /\ StatusWritten.desired = det[run.name].desired
      /\ StatusWritten.observed = run.obj.observed /\ StatusWritten.assigned = run.obj.assigned
      /\ StatusWritten.phase = run.obj.phase
  BY <1>1, StatusReplaced, ZenonT(60) DEF StatusWritten
<1> DEFINE new == DecodedInto(run.obj, SpecWritten)
<1>6. /\ new \in DetectorObject /\ new.desired = run.obj.desired
      /\ new.observed = IF SpecWritten.observed # None THEN SpecWritten.observed ELSE run.obj.observed
      /\ new.assigned = IF SpecWritten.assigned # None THEN SpecWritten.assigned ELSE run.obj.assigned
  BY <1>1, <1>3 DEF DecodedInto, DetectorObject
<1>7. pc = "spec" => InStep(SpecWritten, new)
  <2> HIDE DEF new
  <2> QED
    BY <1>2, <1>3, <1>6 DEF Fits, InStep
<1> QED
  BY <1>1, <1>3, <1>4, <1>6, <1>7

(***************************************************************************)
(* What an allocation enters into the copy.  The address it grants is the  *)
(* one the detector is listed with, if its informer lists it, and nobody   *)
(* else's; a reserved one only goes to a module that is there already.     *)
(***************************************************************************)
Listing(d) == d \in PoolDetectors(run.pool) /\ AssignedAddress(cache.det[d]) # None

Grants(a) ==
  /\ a \in Addr /\ a \in run.poolObj.cfg.start .. run.poolObj.cfg.end
  /\ \A d \in Detector : Listing(d) => (d = run.name <=> AssignedAddress(cache.det[d]) = a)
  /\ ~Listing(run.name) /\ a \in Range(run.poolObj.cfg.reserved) => run.obj.adopt /\ run.obj.observed = a

Entry(new) ==
  /\ new \in DetectorObject
  /\ new.ref = run.obj.ref /\ new.adopt = run.obj.adopt /\ new.observed = run.obj.observed
  /\ new.phase \in {Allocated, Failed}
  /\ \/ new.desired = run.obj.desired /\ new.assigned = run.obj.assigned
     \/ new.assigned = new.desired /\ Grants(new.desired)

Enters(new) ==
  /\ pc = "list" /\ UNCHANGED <<det, dev, pools, watch>>
  /\ \/ Ends
     \/ /\ pc' \in {"spec", "status", "pool"}
        /\ \E changed, stats : run' = Reconcile(run.name, new, run.pool, run.poolObj, changed, stats)
        /\ pc' = "status" => new.desired = run.obj.desired
        /\ UNCHANGED <<current, cache, queue>>

LEMMA Granted ==
  ASSUME NEW as \in SetToSeqs(AssignmentsOf(run.pool)), NEW n \in Nat, Len(as) = n, NEW r,
         Given(run.poolObj.cfg, as, n, run.name, run.obj, r)
  PROVE  Grants(r.addr)
<1>1. PICK m \in Nat : Enumerates(as, m, AssignmentsOf(run.pool))
  <2>1. IsFiniteSet(AssignmentsOf(run.pool))
    BY AssignmentsFinite
  <2> QED
    BY <2>1, Listed
<1>2. /\ \A i \in 1 .. n : as[i] \in AssignmentsOf(run.pool)
      /\ \A x \in AssignmentsOf(run.pool) : \E i \in 1 .. n : as[i] = x
  BY <1>1 DEF Enumerates
<1>3. ASSUME NEW d \in Detector, Listing(d)
      PROVE  \E i \in 1 .. n : as[i].owner = d /\ as[i].address = AssignedAddress(cache.det[d])
  <2>1. [owner |-> d, address |-> AssignedAddress(cache.det[d])] \in AssignmentsOf(run.pool)
    BY <1>3 DEF Listing, AssignmentsOf
  <2>2. PICK i \in 1 .. n : as[i] = [owner |-> d, address |-> AssignedAddress(cache.det[d])]
    BY <1>2, <2>1
  <2>3. as[i].owner = d /\ as[i].address = AssignedAddress(cache.det[d])
    BY <2>2
  <2> QED
    BY <2>3
<1>4. ASSUME NEW i \in 1 .. n
      PROVE  \E d \in Detector : Listing(d) /\ as[i].owner = d /\ as[i].address = AssignedAddress(cache.det[d])
  <2>1. as[i] \in AssignmentsOf(run.pool)
    BY <1>2
  <2>2. PICK d \in {x \in PoolDetectors(run.pool) : AssignedAddress(cache.det[x]) # None} :
          as[i] = [owner |-> d, address |-> AssignedAddress(cache.det[d])]
    BY <2>1 DEF AssignmentsOf
  <2>3. d \in Detector /\ Listing(d)
    BY <2>2 DEF Listing, PoolDetectors
  <2>4. as[i].owner = d /\ as[i].address = AssignedAddress(cache.det[d])
    BY <2>2
  <2> QED
    BY <2>3, <2>4
<1>5. \A d \in Detector : Listing(d) => (d = run.name <=> AssignedAddress(cache.det[d]) = r.addr)
  <2> SUFFICES ASSUME NEW d \in Detector, Listing(d)
               PROVE  d = run.name <=> AssignedAddress(cache.det[d]) = r.addr
    OBVIOUS
  <2>1. PICK i \in 1 .. n : as[i].owner = d /\ as[i].address = AssignedAddress(cache.det[d])
    BY <1>3
  <2>2. as[i].owner = run.name <=> as[i].address = r.addr
    BY DEF Given
  <2> QED
    BY <2>1, <2>2
<1>6. ~Listing(run.name) => \A i \in 1 .. n : as[i].owner # run.name
  BY <1>4
<1> QED
  BY <1>5, <1>6 DEF Grants, Given, Addr

LEMMA EnteredCopy ==
  ASSUME NEW obj \in DetectorObject, NEW r, r.phase \in {Allocated, Failed}, r.message \in Messages,
         r.phase = Allocated => r.addr \in Addr
  PROVE  LET new == Entered(obj, r)
         IN  /\ new \in DetectorObject
             /\ new.ref = obj.ref /\ new.adopt = obj.adopt /\ new.observed = obj.observed
             /\ new.phase = r.phase
             /\ IF r.phase = Allocated THEN new.desired = r.addr /\ new.assigned = r.addr
                                       ELSE new.desired = obj.desired /\ new.assigned = obj.assigned
BY DEF Entered, DetectorObject, MaybeAddress, Addr

LEMMA Allocating ==
  ASSUME OperatorTyped, ListAndAllocate
  PROVE  \E new \in DetectorObject : Entry(new) /\ Enters(new)
<1>1. /\ pc = "list" /\ run.name \in Detector /\ run.obj \in DetectorObject
      /\ run = Reconcile(run.name, run.obj, run.pool, run.poolObj, run.statusChanged, run.stats)
      /\ run.poolObj.cfg \in Configuration
  BY DEF ListAndAllocate, OperatorTyped, RunTyped, IsPool
<1> DEFINE cfg == run.poolObj.cfg
<1>2. PICK as \in SetToSeqs(AssignmentsOf(run.pool)) : \E result \in AllocationsFrom(as) :
        \E new \in {Entered(run.obj, result)} :
          LET r == [run EXCEPT !.obj = new, !.stats = result.stats,
                               !.statusChanged = StatusOf(new) # StatusOf(run.obj)]
          IN  IF SpecOf(new) # SpecOf(run.obj) THEN Goto("spec", r) /\ UNCHANGED current
              ELSE IF r.statusChanged THEN Goto("status", r) /\ UNCHANGED current
              ELSE PoolStatusOrFinish(r)
  BY DEF ListAndAllocate
<1>3. PICK result : /\ result = allocateDetectorAddress(cfg, Rebuild(New(cfg), as), run.name, run.obj)
                    /\ LET new == Entered(run.obj, result)
                           r == [run EXCEPT !.obj = new, !.stats = result.stats,
                                            !.statusChanged = StatusOf(new) # StatusOf(run.obj)]
                       IN  IF SpecOf(new) # SpecOf(run.obj) THEN Goto("spec", r) /\ UNCHANGED current
                           ELSE IF r.statusChanged THEN Goto("status", r) /\ UNCHANGED current
                           ELSE PoolStatusOrFinish(r)
  BY <1>2 DEF AllocationsFrom
<1>4. PICK n \in Nat : Len(as) = n
  <2>1. IsFiniteSet(AssignmentsOf(run.pool))
    BY AssignmentsFinite
  <2>2. PICK n \in Nat : Enumerates(as, n, AssignmentsOf(run.pool))
    BY <2>1, Listed
  <2>3. Len(as) = n
    BY <2>2 DEF Enumerates
  <2> QED
    BY <2>3, Zenon
<1> HIDE DEF cfg
<1>5. /\ result.phase \in {Allocated, Failed} /\ result.message \in Messages
      /\ result.phase = Allocated => Given(cfg, as, n, run.name, run.obj, result)
  BY <1>1, <1>3, <1>4, AllocationResult DEF cfg
<1>6. result.phase = Allocated => Grants(result.addr)
  BY <1>4, <1>5, Granted DEF cfg
<1> DEFINE new == Entered(run.obj, result)
<1>7. /\ new \in DetectorObject
      /\ new.ref = run.obj.ref /\ new.adopt = run.obj.adopt /\ new.observed = run.obj.observed
      /\ new.phase = result.phase
      /\ IF result.phase = Allocated THEN new.desired = result.addr /\ new.assigned = result.addr
                                     ELSE new.desired = run.obj.desired /\ new.assigned = run.obj.assigned
  BY <1>1, <1>5, <1>6, EnteredCopy DEF Grants
<1> DEFINE r == [run EXCEPT !.obj = new, !.stats = result.stats,
                            !.statusChanged = StatusOf(new) # StatusOf(run.obj)]
<1>8. IF SpecOf(new) # SpecOf(run.obj) THEN Goto("spec", r) /\ UNCHANGED current
      ELSE (Goto("status", r) /\ UNCHANGED current) \/ PoolStatusOrFinish(r)
  BY <1>3
<1> HIDE DEF new
<1>9. PICK changed : changed = (StatusOf(new) # StatusOf(run.obj))
  OBVIOUS
<1>10. PICK stats : stats = result.stats
  OBVIOUS
<1>11. r = Reconcile(run.name, new, run.pool, run.poolObj, changed, stats)
  <2>1. r = [run EXCEPT !.obj = new, !.stats = stats, !.statusChanged = changed]
    BY <1>9, <1>10
  <2> HIDE DEF r
  <2> DEFINE fields == {"name", "obj", "pool", "poolObj", "statusChanged", "stats"}
  <2>2. DOMAIN run = fields /\ run = [f \in fields |-> run[f]]
    BY <1>1 DEF Reconcile
  <2>3. r = [f \in fields |-> IF f = "statusChanged" THEN changed
                            ELSE IF f = "stats" THEN stats ELSE IF f = "obj" THEN new ELSE run[f]]
    BY <2>1, <2>2
  <2> QED
    BY <2>3 DEF Reconcile
<1>12. SpecOf(new) = SpecOf(run.obj) => new.desired = run.obj.desired
  BY DEF SpecOf
<1> HIDE DEF r
<1>13. Enters(new)
  <2>1. UNCHANGED <<det, dev, pools, watch>>
    BY DEF ListAndAllocate
  <2>2. CASE SpecOf(new) # SpecOf(run.obj)
    BY <1>1, <1>8, <1>11, <2>1, <2>2 DEF Enters, Goto
  <2>3. CASE SpecOf(new) = SpecOf(run.obj)
    BY <1>1, <1>8, <1>11, <1>12, <2>1, <2>3 DEF Enters, Goto, PoolStatusOrFinish, Finish, Ends
  <2> QED
    BY <2>2, <2>3
<1>14. Entry(new)
  BY <1>5, <1>6, <1>7 DEF Entry
<1> QED
  BY <1>7, <1>13, <1>14

-----------------------------------------------------------------------------
(***************************************************************************)
(* Informed is kept by every step.                                         *)
(***************************************************************************)
(* A write of a detector keeps the informers following.                    *)
LEMMA PutStreamed ==
  ASSUME StoreTyped, Streamed, NEW d \in Detector, NEW obj \in MaybeDetector,
         PutDetector(d, obj), UNCHANGED cache
  PROVE  Streamed'
<1>1. /\ det' = [x \in Detector |-> IF x = d THEN obj ELSE det[x]] /\ UNCHANGED <<dev, pools>>
      /\ watch'.dev = watch.dev
      /\ (watch' = watch /\ obj = det[d]) \/ watch'.det = Append(watch.det, Event(d, obj))
  BY DetectorPut
<1>2. ASSUME NEW x \in Detector
      PROVE  Follows(watch.det, x, cache.det[x], det[x])'
  <2>1. Follows(watch.det, x, cache.det[x], det[x]) /\ IsSeq(watch.det)
    BY DEF Streamed, StoreTyped, WatchTyped
  <2>2. CASE watch' = watch /\ obj = det[d]
    BY <1>1, <2>1, <2>2
  <2>3. CASE watch'.det = Append(watch.det, Event(d, obj))
    <3>1. Follows(Append(watch.det, Event(d, obj)), x, cache.det[x], IF d = x THEN obj ELSE det[x])
      BY <2>1, FollowsWrite
    <3>2. det'[x] = IF d = x THEN obj ELSE det[x]
      BY <1>1
    <3> QED
      BY <2>3, <3>1, <3>2
  <2> QED
    BY <1>1, <2>2, <2>3
<1> QED
  BY <1>1, <1>2 DEF Streamed

LEMMA OutsideWriteInformed ==
  ASSUME Informed, NEW d \in Detector, NEW obj \in MaybeDetector, Outside(d, obj), UNCHANGED controllerVars
  PROVE  Informed'
<1>1. PutDetector(d, obj) /\ StoreTyped
  BY DEF Outside, Informed, OperatorTyped
<1>2. /\ ObjectsTyped(det, dev, pools)' /\ WatchTyped'
      /\ det' = [x \in Detector |-> IF x = d THEN obj ELSE det[x]] /\ UNCHANGED <<dev, pools>>
      /\ \/ watch' = watch /\ obj = det[d]
         \/ obj # det[d] /\ watch'.det = Append(watch.det, Event(d, obj))
  BY <1>1, DetectorPut
<1>3. OperatorTyped'
  BY <1>1, <1>2 DEF Outside, Informed, OperatorTyped, StoreTyped, CacheTyped, RunTyped, controllerVars
<1>4. Streamed'
  BY <1>1, PutStreamed DEF Informed, controllerVars
<1>5. CopyCurrent'
  <2> SUFFICES ASSUME pc # "idle", run.name \in current'
               PROVE  CopyCurrent'
    BY DEF CopyCurrent, controllerVars
  <2>1. run.name \in current /\ run.name \in Detector
    BY DEF Outside, Informed, OperatorTyped, RunTyped
  <2>2. det'[run.name] = det[run.name]
    BY <1>2, <2>1 DEF Outside
  <2>3. (\A i \in DOMAIN watch.det : watch.det[i].name # run.name)
        => \A i \in DOMAIN watch'.det : watch'.det[i].name # run.name
    <3>1. CASE watch' = watch
      BY <3>1
    <3>2. CASE obj # det[d] /\ watch'.det = Append(watch.det, Event(d, obj))
      <4>1. d # run.name
        BY <3>2 DEF Outside
      <4>2. IsSeq(watch.det) /\ Event(d, obj).name = d
        BY <1>1 DEF StoreTyped, WatchTyped, Event
      <4> HIDE <3>2
      <4>3. /\ DOMAIN Append(watch.det, Event(d, obj)) = 1 .. (Len(watch.det) + 1)
            /\ DOMAIN watch.det = 1 .. Len(watch.det) /\ Len(watch.det) \in Nat
            /\ \A i \in DOMAIN watch.det : Append(watch.det, Event(d, obj))[i] = watch.det[i]
            /\ Append(watch.det, Event(d, obj))[Len(watch.det) + 1] = Event(d, obj)
        BY <4>2, Appended
      <4> QED
        BY <3>2, <4>1, <4>2, <4>3
    <3> QED
      BY <1>2, <3>1, <3>2
  <2> QED
    BY <2>1, <2>2, <2>3 DEF CopyCurrent, Informed, controllerVars
<1> QED
  BY <1>3, <1>4, <1>5 DEF Informed

LEMMA PoolEditedInformed ==
  ASSUME Informed, PoolEdited, UNCHANGED controllerVars
  PROVE  Informed'
<1>1. PICK p \in PoolName, cfg \in PoolEdits :
         pools[p] # Absent /\ PutPool(p, [pools[p] EXCEPT !.cfg = cfg]) /\ current' = current \ {p}
  BY DEF PoolEdited
<1> DEFINE obj == [pools[p] EXCEPT !.cfg = cfg]
<1>2. PoolTyped(p, obj)
  <2>1. PoolTyped(p, pools[p]) /\ cfg \in Configuration
    BY SystemAssumption DEF Informed, OperatorTyped, StoreTyped, ObjectsTyped
  <2> QED
    BY <1>1, <2>1 DEF PoolTyped, IsPool
<1> HIDE DEF obj
<1>3. /\ ObjectsTyped(det, dev, pools)' /\ WatchTyped'
      /\ UNCHANGED <<det, dev>> /\ watch'.det = watch.det /\ watch'.dev = watch.dev
  BY <1>1, <1>2, PoolPut DEF Informed, OperatorTyped, obj
<1>4. OperatorTyped'
  BY <1>1, <1>3 DEF Informed, OperatorTyped, StoreTyped, CacheTyped, RunTyped, controllerVars
<1>5. Streamed' /\ CopyCurrent'
  BY <1>1, <1>3 DEF Informed, Streamed, CopyCurrent, Fits, InStep, controllerVars
<1> QED
  BY <1>4, <1>5 DEF Informed

LEMMA DeviceEditedInformed ==
  ASSUME Informed, DeviceEdited, UNCHANGED controllerVars
  PROVE  Informed'
<1>1. PICK v \in Device : \E p \in DeviceEdits \ {dev[v]} : PutDevice(v, p) /\ UNCHANGED current
  BY DEF DeviceEdited
<1>2. PICK p \in DeviceEdits \ {dev[v]} : PutDevice(v, p)
  BY <1>1
<1>3. p \in PoolName \cup {Absent}
  BY SystemAssumption
<1>4. /\ ObjectsTyped(det, dev, pools)' /\ WatchTyped'
      /\ dev' = [x \in Device |-> IF x = v THEN p ELSE dev[x]] /\ UNCHANGED <<det, pools>>
      /\ watch'.det = watch.det /\ watch'.dev = Append(watch.dev, Event(v, p))
  BY <1>2, <1>3, DevicePut DEF Informed, OperatorTyped
<1>5. OperatorTyped'
  BY <1>1, <1>4 DEF Informed, OperatorTyped, StoreTyped, CacheTyped, RunTyped, controllerVars
<1>6. ASSUME NEW x \in Device
      PROVE  Follows(watch.dev, x, cache.dev[x], dev[x])'
  <2>1. Follows(watch.dev, x, cache.dev[x], dev[x]) /\ IsSeq(watch.dev)
    BY DEF Informed, Streamed, OperatorTyped, StoreTyped, WatchTyped
  <2>2. Follows(Append(watch.dev, Event(v, p)), x, cache.dev[x], IF v = x THEN p ELSE dev[x])
    BY <2>1, FollowsWrite
  <2>3. dev'[x] = IF v = x THEN p ELSE dev[x]
    BY <1>4
  <2> QED
    BY <1>4, <2>2, <2>3 DEF controllerVars
<1>7. Streamed' /\ CopyCurrent'
  BY <1>1, <1>4, <1>6 DEF Informed, Streamed, CopyCurrent, Fits, InStep, controllerVars
<1> QED
  BY <1>5, <1>7 DEF Informed

LEMMA DeliveryInformed ==
  ASSUME Informed, Delivery, queue' \subseteq Detector
  PROVE  Informed'
<1>1. PICK kind \in {"det", "dev", "pool"} :
         /\ watch[kind] # <<>>
         /\ cache' = [cache EXCEPT ![kind][Head(watch[kind]).name] = Head(watch[kind]).obj]
         /\ watch' = [watch EXCEPT ![kind] = Tail(@)]
         /\ UNCHANGED <<det, dev, pools, current, pc, run>>
  BY DEF Delivery
<1> DEFINE e == Head(watch[kind])
<1>2. /\ WatchTyped /\ StoreTyped /\ CacheTyped
      /\ \A k \in {"det", "dev", "pool"} : IsSeq(watch[k])
  BY DEF Informed, OperatorTyped, StoreTyped, WatchTyped
<1>3. /\ IsSeq(Tail(watch[kind])) /\ e = watch[kind][1] /\ 1 \in DOMAIN watch[kind]
      /\ \A i \in DOMAIN Tail(watch[kind]) : /\ i + 1 \in DOMAIN watch[kind]
                                             /\ Tail(watch[kind])[i] = watch[kind][i + 1]
  <2>1. IsSeq(watch[kind]) /\ watch[kind] # <<>>
    BY <1>1, <1>2
  <2> QED
    BY <2>1, HeadAndTail
<1>4. /\ watch'[kind] = Tail(watch[kind])
      /\ \A k \in {"det", "dev", "pool"} : k # kind => watch'[k] = watch[k]
      /\ watch' = [det |-> watch'.det, dev |-> watch'.dev, pool |-> watch'.pool]
  BY <1>1, <1>2 DEF WatchTyped
<1>5. WatchTyped'
  <2>1. \A k \in {"det", "dev", "pool"} : IsSeq(watch'[k])
    BY <1>2, <1>3, <1>4
  <2>2. \A k \in {"det", "dev", "pool"} : \A i \in DOMAIN watch'[k] :
          \E j \in DOMAIN watch[k] : watch'[k][i] = watch[k][j]
    <3>1. ASSUME NEW i \in DOMAIN watch'[kind]
          PROVE  \E j \in DOMAIN watch[kind] : watch'[kind][i] = watch[kind][j]
      <4>1. i + 1 \in DOMAIN watch[kind] /\ watch'[kind][i] = watch[kind][i + 1]
        BY <1>3, <1>4
      <4> QED
        BY <4>1
    <3>2. ASSUME NEW k \in {"det", "dev", "pool"}, k # kind, NEW i \in DOMAIN watch'[k]
          PROVE  \E j \in DOMAIN watch[k] : watch'[k][i] = watch[k][j]
      BY <1>4, <3>2
    <3> QED
      BY <3>1, <3>2
  <2>3. EventsTyped(watch')
    BY <1>2, <2>2 DEF WatchTyped, EventsTyped
  <2> QED
    BY <1>4, <2>1, <2>3 DEF WatchTyped
<1>6. /\ cache'[kind] = [cache[kind] EXCEPT ![e.name] = e.obj]
      /\ \A k \in {"det", "dev", "pool"} : k # kind => cache'[k] = cache[k]
      /\ cache' = [det |-> cache'.det, dev |-> cache'.dev, pool |-> cache'.pool]
  BY <1>1, <1>2 DEF CacheTyped
<1> HIDE DEF e
<1>7. CASE kind = "det"
  <2>1. e.name \in Detector /\ e.obj \in MaybeDetector
    BY <1>2, <1>3, <1>7 DEF WatchTyped, EventsTyped
  <2>2. cache'.det = [x \in Detector |-> IF e.name = x THEN e.obj ELSE cache.det[x]]
    BY <1>2, <1>6, <1>7 DEF CacheTyped, ObjectsTyped
  <2>3. CacheTyped'
    BY <1>2, <1>6, <1>7, <2>1, <2>2 DEF CacheTyped, ObjectsTyped
  <2>4. ASSUME NEW x \in Detector
        PROVE  Follows(watch.det, x, cache.det[x], det[x])'
    <3>1. Follows(watch.det, x, cache.det[x], det[x]) /\ IsSeq(watch.det) /\ watch.det # <<>>
      BY <1>1, <1>2, <1>7 DEF Informed, Streamed
    <3>2. Follows(Tail(watch.det), x, IF Head(watch.det).name = x THEN Head(watch.det).obj ELSE cache.det[x], det[x])
      BY <3>1, FollowsDelivery
    <3>3. cache'.det[x] = IF Head(watch.det).name = x THEN Head(watch.det).obj ELSE cache.det[x]
      BY <1>7, <2>2 DEF e
    <3> QED
      BY <1>1, <1>4, <1>7, <3>2, <3>3
  <2>5. Streamed'
    BY <1>1, <1>4, <1>6, <1>7, <2>4 DEF Informed, Streamed
  <2> QED
    BY <1>1, <1>3, <1>4, <1>5, <1>7, <2>3, <2>5
       DEF Informed, OperatorTyped, StoreTyped, RunTyped, CopyCurrent, Fits, InStep
<1>8. CASE kind = "dev"
  <2>1. e.name \in Device /\ e.obj \in PoolName \cup {Absent}
    BY <1>2, <1>3, <1>8 DEF WatchTyped, EventsTyped
  <2>2. cache'.dev = [x \in Device |-> IF e.name = x THEN e.obj ELSE cache.dev[x]]
    BY <1>2, <1>6, <1>8 DEF CacheTyped, ObjectsTyped
  <2>3. CacheTyped'
    BY <1>2, <1>6, <1>8, <2>1, <2>2 DEF CacheTyped, ObjectsTyped
  <2>4. ASSUME NEW x \in Device
        PROVE  Follows(watch.dev, x, cache.dev[x], dev[x])'
    <3>1. Follows(watch.dev, x, cache.dev[x], dev[x]) /\ IsSeq(watch.dev) /\ watch.dev # <<>>
      BY <1>1, <1>2, <1>8 DEF Informed, Streamed
    <3>2. Follows(Tail(watch.dev), x, IF Head(watch.dev).name = x THEN Head(watch.dev).obj ELSE cache.dev[x], dev[x])
      BY <3>1, FollowsDelivery
    <3>3. cache'.dev[x] = IF Head(watch.dev).name = x THEN Head(watch.dev).obj ELSE cache.dev[x]
      BY <1>8, <2>2 DEF e
    <3> QED
      BY <1>1, <1>4, <1>8, <3>2, <3>3
  <2>5. Streamed'
    BY <1>1, <1>4, <1>6, <1>8, <2>4 DEF Informed, Streamed
  <2> QED
    BY <1>1, <1>4, <1>5, <1>8, <2>3, <2>5
       DEF Informed, OperatorTyped, StoreTyped, RunTyped, CopyCurrent, Fits, InStep
<1>9. CASE kind = "pool"
  <2>1. e.name \in PoolName /\ PoolTyped(e.name, e.obj)
    BY <1>2, <1>3, <1>9 DEF WatchTyped, EventsTyped
  <2>2. CacheTyped'
    BY <1>2, <1>6, <1>9, <2>1 DEF CacheTyped, ObjectsTyped
  <2>3. Streamed'
    BY <1>1, <1>4, <1>6, <1>9 DEF Informed, Streamed
  <2> QED
    BY <1>1, <1>4, <1>5, <1>9, <2>2, <2>3
       DEF Informed, OperatorTyped, StoreTyped, RunTyped, CopyCurrent, Fits, InStep
<1> QED
  BY <1>7, <1>8, <1>9

(* An end of a reconcile, with whatever was written.                       *)
LEMMA EndTyped ==
  ASSUME RunTyped, Ends, pc # "idle"
  PROVE  RunTyped' /\ CopyCurrent' /\ current' = {}
BY DEF Ends, RunTyped, CopyCurrent

LEMMA BeginInformed ==
  ASSUME Informed, NEW d \in Detector, Begin(d)
  PROVE  Informed'
<1> DEFINE obj == cache.det[d]
           pool == cache.dev[obj.ref]
           Failing(m) == [obj EXCEPT !.phase = Failed, !.message = m]
           ToFail(m) == /\ pc' = "fail" /\ current' = {d} \ Lagging
                        /\ run' = Reconcile(d, Failing(m), None, Absent, TRUE, NoStats)
           ToIdle == pc' = "idle" /\ run' = NoRun /\ current' = {}
           ToList == /\ pc' = "list" /\ current' = {d, pool} \ Lagging
                     /\ run' = Reconcile(d, obj, pool, cache.pool[pool], FALSE, NoStats)
                     /\ obj.ref # None /\ pool # Absent /\ cache.pool[pool] # Absent
<1>1. /\ UNCHANGED <<det, dev, pools, watch, cache>> /\ queue' = queue \ {d}
      /\ ToIdle \/ (obj # Absent /\ (ToList \/ \E m \in Messages : ToFail(m)))
  BY DEF Begin, Messages
<1>2. obj \in MaybeDetector /\ StoreTyped /\ CacheTyped /\ RunTyped
  BY DEF Informed, OperatorTyped, CacheTyped, ObjectsTyped
<1>3. d \notin Lagging => det[d] = obj /\ \A i \in DOMAIN watch.det : watch.det[i].name # d
  <2> SUFFICES ASSUME d \notin Lagging
               PROVE  det[d] = obj /\ \A i \in DOMAIN watch.det : watch.det[i].name # d
    OBVIOUS
  <2>1. "det" \in DOMAIN watch
    BY <1>2 DEF StoreTyped, WatchTyped
  <2>2. \A i \in DOMAIN watch.det : watch.det[i].name # d
    BY <2>1 DEF Lagging
  <2> QED
    BY <2>2 DEF Informed, Streamed, Follows
<1>4. /\ CacheTyped' /\ Streamed' /\ queue' \subseteq Detector
      /\ current' \subseteq Detector \cup PoolName => StoreTyped'
  <2>1. UNCHANGED <<det, dev, pools, watch, cache>> /\ queue' \subseteq queue
    BY <1>1
  <2>2. CacheTyped' /\ Streamed'
    BY <1>2, <2>1 DEF CacheTyped, Streamed, Informed
  <2>3. StoreTyped' <=> (StoreTyped /\ current' \subseteq Detector \cup PoolName)
    BY <1>2, <2>1 DEF StoreTyped, WatchTyped
  <2> QED
    BY <1>2, <2>1, <2>2, <2>3 DEF RunTyped
<1> HIDE DEF obj
<1>5. CASE ToIdle
  BY <1>5, <1>4 DEF Informed, OperatorTyped, RunTyped, CopyCurrent
<1>6. ASSUME obj # Absent, NEW m \in Messages, ToFail(m)
      PROVE  Informed'
  <2>1. obj \in DetectorObject
    BY <1>2, <1>6 DEF MaybeDetector
  <2>2. Failing(m) \in DetectorObject /\ InStep(obj, Failing(m))
    BY <2>1 DEF DetectorObject, InStep
  <2>3. /\ run'.name = d /\ run'.obj = Failing(m)
        /\ run' = Reconcile(run'.name, run'.obj, run'.pool, run'.poolObj, run'.statusChanged, run'.stats)
    BY <1>6 DEF Reconcile
  <2> HIDE DEF Failing
  <2>4. RunTyped'
    BY <1>6, <1>4, <2>2, <2>3 DEF RunTyped
  <2>5. CopyCurrent'
    BY <1>1, <1>3, <1>6, <2>1, <2>2, <2>3 DEF CopyCurrent
  <2>6. current' \subseteq Detector
    BY <1>6
  <2> QED
    BY <1>4, <2>4, <2>5, <2>6 DEF Informed, OperatorTyped
<1>7. ASSUME obj # Absent, ToList
      PROVE  Informed'
  <2>1. obj \in DetectorObject /\ obj.ref \in Device
    BY <1>2, <1>7 DEF MaybeDetector, DetectorObject
  <2>2. pool \in PoolName
    BY <1>2, <1>7, <2>1 DEF CacheTyped, ObjectsTyped
  <2>3. InitialPools[pool] # Absent /\ IsPool(cache.pool[pool])
    BY <1>2, <1>7, <2>2 DEF CacheTyped, ObjectsTyped, PoolTyped
  <2> HIDE DEF pool
  <2>4. /\ run'.name = d /\ run'.obj = obj /\ run'.pool = pool /\ run'.poolObj = cache.pool[pool]
        /\ run' = Reconcile(run'.name, run'.obj, run'.pool, run'.poolObj, run'.statusChanged, run'.stats)
    BY <1>7 DEF Reconcile
  <2>5. RunTyped'
    BY <1>7, <1>4, <2>1, <2>2, <2>3, <2>4 DEF RunTyped
  <2>6. CopyCurrent'
    BY <1>1, <1>3, <1>7, <2>1, <2>4 DEF CopyCurrent
  <2>7. current' \subseteq Detector \cup PoolName
    BY <1>7, <2>2
  <2> QED
    BY <1>4, <2>5, <2>6, <2>7 DEF Informed, OperatorTyped
<1> QED
  BY <1>1, <1>5, <1>6, <1>7

(* The objects stay as they are, or their events too.                      *)
LEMMA StoreKept ==
  ASSUME Informed, UNCHANGED <<det, dev, pools, watch, cache>>, current' \subseteq current
  PROVE  StoreTyped' /\ CacheTyped' /\ Streamed'
<1>1. CacheTyped' /\ Streamed'
  BY DEF CacheTyped, Streamed, Informed, OperatorTyped
<1>2. StoreTyped'
  BY DEF StoreTyped, WatchTyped, Informed, OperatorTyped
<1> QED
  BY <1>1, <1>2

LEMMA ListInformed ==
  ASSUME Informed, ListAndAllocate
  PROVE  Informed'
<1>1. PICK new \in DetectorObject : Entry(new) /\ Enters(new)
  BY Allocating DEF Informed
<1>2. RunTyped /\ pc = "list" /\ run.name \in Detector /\ run.obj \in DetectorObject
  BY <1>1 DEF Informed, OperatorTyped, Enters, RunTyped
<1>3. CASE Ends
  <2>1. RunTyped' /\ CopyCurrent' /\ current' = {}
    BY <1>2, <1>3, EndTyped
  <2>2. StoreTyped' /\ CacheTyped' /\ Streamed'
    BY <1>1, <1>3, <2>1, StoreKept DEF Enters, Ends
  <2> QED
    BY <2>1, <2>2 DEF Informed, OperatorTyped
<1>4. CASE ~Ends
  <2>1. PICK changed, stats :
          /\ pc' \in {"spec", "status", "pool"}
          /\ run' = Reconcile(run.name, new, run.pool, run.poolObj, changed, stats)
          /\ pc' = "status" => new.desired = run.obj.desired
          /\ UNCHANGED <<det, dev, pools, watch, current, cache, queue>>
    BY <1>1, <1>4 DEF Enters
  <2>2. /\ run'.name = run.name /\ run'.obj = new /\ run'.pool = run.pool /\ run'.poolObj = run.poolObj
        /\ run' = Reconcile(run'.name, run'.obj, run'.pool, run'.poolObj, run'.statusChanged, run'.stats)
    BY <2>1 DEF Reconcile
  <2>3. new.ref = run.obj.ref /\ run.obj.ref \in Device
    BY <1>1, <1>2 DEF Entry, RunTyped
  <2>4. RunTyped'
    BY <1>2, <2>1, <2>2, <2>3 DEF RunTyped
  <2>5. CopyCurrent'
    <3> SUFFICES ASSUME run.name \in current
                 PROVE  CopyCurrent'
      BY <2>1, <2>2 DEF CopyCurrent
    <3>1. run.obj = det[run.name]
      BY <1>2 DEF Informed, CopyCurrent
    <3>2. /\ new.ref = run.obj.ref /\ new.adopt = run.obj.adopt /\ new.observed = run.obj.observed
          /\ \/ new.desired = run.obj.desired /\ new.assigned = run.obj.assigned
             \/ new.assigned = new.desired /\ new.desired \in Nat
      BY <1>1 DEF Entry, Grants, Addr
    <3>3. Fits(run.obj, new)
      BY <3>2, StoreAssumption DEF Fits
    <3>4. new.desired = run.obj.desired => InStep(run.obj, new)
      BY <3>2 DEF InStep
    <3> QED
      BY <1>2, <2>1, <2>2, <3>1, <3>3, <3>4 DEF CopyCurrent
  <2>6. StoreTyped' /\ CacheTyped' /\ Streamed'
    BY <2>1, StoreKept
  <2> QED
    BY <2>4, <2>5, <2>6 DEF Informed, OperatorTyped
<1> QED
  BY <1>3, <1>4

LEMMA WriteInformed ==
  ASSUME Informed, OperatorWrite
  PROVE  Informed'
<1>1. RunTyped /\ pc \in {"spec", "status", "fail"} /\ run.name \in current
  BY DEF OperatorWrite, Informed, OperatorTyped
<1>2. PICK new \in DetectorObject, labels \in SUBSET {"status", "pool"}, written \in DetectorObject :
        /\ PutDetector(run.name, written) /\ GoesOn(labels, new)
        /\ pc = "fail" => Ends
        /\ "status" \in labels => InStep(written, new)
  <2>1. /\ SpecWritten \in DetectorObject /\ StatusWritten \in DetectorObject
        /\ DecodedInto(run.obj, SpecWritten) \in DetectorObject
        /\ InStep(SpecWritten, DecodedInto(run.obj, SpecWritten)) \/ pc # "spec"
    BY <1>1, Written
  <2>2. run.obj \in DetectorObject
    BY <1>1 DEF RunTyped
  <2>3. {"status", "pool"} \in SUBSET {"status", "pool"} /\ {"pool"} \in SUBSET {"status", "pool"}
    OBVIOUS
  <2> QED
    BY <2>1, <2>2, <2>3 DEF OperatorWrite
<1>3. run.name \in Detector /\ written \in MaybeDetector /\ StoreTyped
  BY <1>1 DEF RunTyped, MaybeDetector, Informed, OperatorTyped
<1>4. /\ ObjectsTyped(det, dev, pools)' /\ WatchTyped'
      /\ det' = [x \in Detector |-> IF x = run.name THEN written ELSE det[x]]
  BY <1>2, <1>3, DetectorPut
<1>5. UNCHANGED cache /\ current' \subseteq current
  BY <1>2 DEF GoesOn, Ends
<1>6. Streamed'
  BY <1>2, <1>3, <1>5, PutStreamed DEF Informed
<1>7. StoreTyped' /\ CacheTyped'
  BY <1>4, <1>5 DEF StoreTyped, CacheTyped, Informed, OperatorTyped
<1>8. CASE Ends
  BY <1>1, <1>6, <1>7, <1>8, EndTyped DEF Informed, OperatorTyped
<1>9. CASE ~Ends
  <2>1. /\ pc' \in labels /\ run' = [run EXCEPT !.obj = new]
        /\ UNCHANGED <<current, cache, queue>>
    BY <1>2, <1>9 DEF GoesOn
  <2>2. /\ run'.name = run.name /\ run'.obj = new /\ run'.pool = run.pool
        /\ run' = Reconcile(run'.name, run'.obj, run'.pool, run'.poolObj, run'.statusChanged, run'.stats)
    BY <1>1, <2>1 DEF RunTyped, Reconcile
  <2>3. run.pool \in PoolName /\ InitialPools[run.pool] # Absent
    BY <1>1, <1>2, <1>9 DEF RunTyped
  <2>4. RunTyped'
    BY <1>1, <1>3, <2>1, <2>2, <2>3 DEF RunTyped
  <2>5. CopyCurrent'
    BY <1>2, <1>3, <1>4, <2>1, <2>2 DEF CopyCurrent
  <2> QED
    BY <1>6, <1>7, <2>4, <2>5 DEF Informed, OperatorTyped
<1> QED
  BY <1>8, <1>9

LEMMA EndInformed ==
  ASSUME Informed, PoolStatusWrite \/ NoWrite
  PROVE  Informed'
<1>1. Ends /\ pc # "idle" /\ RunTyped
  BY DEF PoolStatusWrite, NoWrite, Informed, OperatorTyped
<1>2. RunTyped' /\ CopyCurrent' /\ current' = {} /\ UNCHANGED cache
  BY <1>1, EndTyped DEF Ends
<1>3. CASE NoWrite
  BY <1>2, <1>3, StoreKept DEF NoWrite, Informed, OperatorTyped
<1>4. CASE PoolStatusWrite
  <2> DEFINE obj == [pools[run.pool] EXCEPT !.status = run.stats]
  <2>1. run.pool \in PoolName /\ PutPool(run.pool, obj) /\ StoreTyped
    BY <1>1, <1>4 DEF PoolStatusWrite, RunTyped, Informed, OperatorTyped
  <2>2. PoolTyped(run.pool, obj)
    <3>1. InitialPools[run.pool] # Absent
      BY <1>1, <1>4 DEF PoolStatusWrite, RunTyped
    <3>2. IsPool(pools[run.pool])
      BY <2>1, <3>1 DEF StoreTyped, ObjectsTyped, PoolTyped
    <3>3. IsPool(obj)
      BY <3>2 DEF IsPool
    <3> QED
      BY <3>1, <3>3 DEF PoolTyped
  <2> HIDE DEF obj
  <2>3. /\ ObjectsTyped(det, dev, pools)' /\ WatchTyped'
        /\ UNCHANGED <<det, dev>> /\ watch'.det = watch.det /\ watch'.dev = watch.dev
    BY <2>1, <2>2, PoolPut
  <2>4. StoreTyped' /\ CacheTyped' /\ Streamed'
    BY <1>2, <2>3 DEF StoreTyped, CacheTyped, Streamed, Informed, OperatorTyped
  <2> QED
    BY <1>2, <2>4 DEF Informed, OperatorTyped
<1> QED
  BY <1>3, <1>4

LEMMA RestartInformed ==
  ASSUME Informed, RestartOperator
  PROVE  Informed'
<1>1. /\ cache' = [det |-> det, dev |-> dev, pool |-> pools] /\ watch' = NoEvents
      /\ queue' \subseteq Detector /\ pc' = "idle" /\ run' = NoRun /\ current' = {}
      /\ UNCHANGED <<det, dev, pools>> /\ StoreTyped
  BY DEF RestartOperator, Informed, OperatorTyped
<1>2. watch' = [det |-> <<>>, dev |-> <<>>, pool |-> <<>>] /\ IsSeq(<<>>)
  BY <1>1 DEF NoEvents, IsSeq
<1>3. WatchTyped'
  BY <1>2 DEF WatchTyped, EventsTyped
<1>4. ObjectsTyped(det, dev, pools)'
  BY <1>1 DEF StoreTyped, ObjectsTyped
<1>5. StoreTyped' /\ CacheTyped' /\ RunTyped' /\ CopyCurrent'
  BY <1>1, <1>3, <1>4 DEF StoreTyped, CacheTyped, RunTyped, CopyCurrent
<1>6. Streamed'
  <2>1. \A d \in Detector : Follows(watch.det, d, cache.det[d], det[d])'
    BY <1>1, <1>2, FollowsNothing
  <2>2. \A v \in Device : Follows(watch.dev, v, cache.dev[v], dev[v])'
    BY <1>1, <1>2, FollowsNothing
  <2> QED
    BY <2>1, <2>2 DEF Streamed
<1> QED
  BY <1>5, <1>6 DEF Informed, OperatorTyped

LEMMA StepInformed ==
  ASSUME Informed, Steps
  PROVE  Informed'
<1>1. CASE OthersStep
  <2>1. CASE UNCHANGED storeVars
    <3>1. UNCHANGED <<det, dev, pools, watch, current, cache, queue, pc, run>>
      BY <1>1, <2>1 DEF OthersStep, storeVars, controllerVars
    <3>2. StoreTyped' /\ CacheTyped' /\ Streamed'
      BY <3>1, StoreKept
    <3> QED
      BY <3>1, <3>2 DEF Informed, OperatorTyped, RunTyped, CopyCurrent, Fits, InStep
  <2> QED
    BY <1>1, <2>1, OutsideWriteInformed, PoolEditedInformed, DeviceEditedInformed
       DEF OthersStep, OutsideWrite
<1> QED
  BY <1>1, DeliveryInformed, BeginInformed, ListInformed, WriteInformed, EndInformed,
     RestartInformed DEF Steps

(***************************************************************************)
(* The gateways.                                                           *)
(***************************************************************************)
LEMMA ManagerMoves ==
  ASSUME ManagerTyped, NEW v \in Device, NEW state, GatewayState(state), Becomes(v, state),
         hw' \in [Detector -> Addr], reports' \subseteq Detector \X Addr
  PROVE  ManagerTyped'
BY DEF ManagerTyped, Becomes

LEMMA IdleState == GatewayState(Idle)
BY DEF Idle, GatewayState

LEMMA ContinueMoves ==
  ASSUME ManagerTyped, NEW v \in Device, NEW left, Lists(left), Continue(v, left),
         hw' \in [Detector -> Addr], reports' \subseteq Detector \X Addr
  PROVE  ManagerTyped'
<1>1. GatewayState([pc |-> "pass", left |-> left])
  BY DEF GatewayState
<1> QED
  BY <1>1, IdleState, ManagerMoves DEF Continue

LEMMA UpsertedTyped ==
  ASSUME AllTyped, NEW d \in Detector
  PROVE  Upserted(DeviceOf[d], d) \in DetectorObject
<1>1. DeviceOf[d] \in Device
  BY StoreAssumption
<1>2. CASE det[d] = Absent
  BY <1>1, <1>2, NewDetectorTyped DEF Upserted
<1>3. CASE det[d] # Absent
  <2>1. det[d] \in DetectorObject
    BY <1>3 DEF AllTyped, OperatorTyped, StoreTyped, ObjectsTyped, MaybeDetector
  <2> QED
    BY <1>1, <1>3, <2>1 DEF Upserted, DetectorObject
<1> QED
  BY <1>2, <1>3

LEMMA ManagerStepTyped ==
  ASSUME AllTyped, NEW v \in Device, ManagerStep(v)
  PROVE  ManagerTyped'
<1>1. /\ ManagerTyped /\ GatewayState(gw[v])
      /\ hw \in [Detector -> Addr] /\ reports \subseteq Detector \X Addr
  BY DEF AllTyped, ManagerTyped
<1>2. CASE PatchObserved(v)
  BY <1>1, <1>2, IdleState, ManagerMoves DEF PatchObserved
<1>3. ASSUME gw[v].pc = "pass", NEW d \in DOMAIN gw[v].left, MarkApplied(v, d)
      PROVE  ManagerTyped'
  <2>1. Lists(Unbind(gw[v].left, d))
    BY <1>1, <1>3 DEF GatewayState, Lists, Unbind
  <2>2. UNCHANGED <<hw, reports>> /\ (Becomes(v, Idle) \/ Continue(v, Unbind(gw[v].left, d)))
    BY <1>3 DEF MarkApplied
  <2> QED
    BY <1>1, <2>1, <2>2, IdleState, ManagerMoves, ContinueMoves
<1>4. ASSUME gw[v].pc = "pass", NEW d \in DOMAIN gw[v].left, SetModuleAddress(v, d)
      PROVE  ManagerTyped'
  <2>1. d \in Detector /\ gw[v].left[d].desired \in Addr
    BY <1>1, <1>4 DEF GatewayState, Lists, DetectorObject, MaybeAddress, Addr
  <2>2. hw' \in [Detector -> Addr]
    BY <1>1, <1>4, <2>1 DEF SetModuleAddress
  <2>3. GatewayState([pc |-> "poll", name |-> d, left |-> gw[v].left])
    BY <1>1, <1>4 DEF GatewayState
  <2> QED
    BY <1>1, <1>4, <2>2, <2>3, ManagerMoves DEF SetModuleAddress
<1>5. ASSUME NEW addr, PatchPolled(v, addr)
      PROVE  ManagerTyped'
  <2>1. gw[v].pc = "poll" /\ Lists(gw[v].left)
    BY <1>1, <1>5 DEF PatchPolled, GatewayState
  <2>2. Lists(Unbind(gw[v].left, gw[v].name))
    BY <2>1 DEF Lists, Unbind
  <2>3. hw' = hw /\ reports' \subseteq reports
    BY <1>5 DEF PatchPolled
  <2>4. Becomes(v, Idle) \/ Continue(v, Unbind(gw[v].left, gw[v].name))
    BY <1>5 DEF PatchPolled
  <2> QED
    BY <1>1, <2>2, <2>3, <2>4, IdleState, ManagerMoves, ContinueMoves
<1> QED
  BY <1>2, <1>3, <1>4, <1>5 DEF ManagerStep, ReconcileOne

LEMMA ManagerKept ==
  ASSUME AllTyped, [Next]_vars
  PROVE  ManagerTyped'
<1>1. ManagerTyped
  BY DEF AllTyped
<1>2. UNCHANGED managerVars => ManagerTyped'
  BY <1>1 DEF ManagerTyped, managerVars
<1>3. ASSUME NEW d \in Detector, Reports(d)
      PROVE  ManagerTyped'
  BY <1>1, <1>3 DEF Reports, ModuleReports, ManagerTyped
<1>4. ASSUME NEW d \in Detector, Discovers(d)
      PROVE  ManagerTyped'
  <2>1. PICK r \in reports : UpsertDiscovered(d, r[2])
    BY <1>4 DEF Discovers
  <2>2. r[2] \in Addr /\ Upserted(DeviceOf[d], d) \in DetectorObject /\ DeviceOf[d] \in Device
    BY <1>1, UpsertedTyped, StoreAssumption DEF ManagerTyped
  <2>3. GatewayState([pc |-> "observe", name |-> d, addr |-> r[2], base |-> Upserted(DeviceOf[d], d)])
    BY <2>2 DEF GatewayState
  <2>4. hw' \in [Detector -> Addr] /\ reports' \subseteq Detector \X Addr
    BY <1>1, <2>1 DEF UpsertDiscovered, ManagerTyped
  <2>5. \/ Becomes(DeviceOf[d], Idle)
        \/ Becomes(DeviceOf[d], [pc |-> "observe", name |-> d, addr |-> r[2], base |-> Upserted(DeviceOf[d], d)])
    BY <2>1 DEF UpsertDiscovered
  <2> QED
    BY <1>1, <2>2, <2>3, <2>4, <2>5, IdleState, ManagerMoves
<1>5. ASSUME NEW v \in Device, StartsPass(v)
      PROVE  ManagerTyped'
  <2>1. Lists([d \in ListedOf(v) |-> det[d]])
    BY DEF Lists, ListedOf, AllTyped, OperatorTyped, StoreTyped, ObjectsTyped, MaybeDetector
  <2>2. GatewayState([pc |-> "pass", left |-> [d \in ListedOf(v) |-> det[d]]])
    BY <2>1 DEF GatewayState
  <2>3. hw' \in [Detector -> Addr] /\ reports' \subseteq Detector \X Addr
    BY <1>1, <1>5 DEF StartsPass, ReconcileAddresses, ManagerTyped
  <2> QED
    BY <1>1, <1>5, <2>2, <2>3, ManagerMoves DEF StartsPass, ReconcileAddresses
<1>6. ASSUME NEW v \in Device, GatewayFails(v)
      PROVE  ManagerTyped'
  <2>1. hw' \in [Detector -> Addr] /\ reports' \subseteq Detector \X Addr
    BY <1>1, <1>6 DEF GatewayFails, ManagerTyped
  <2> QED
    BY <1>1, <1>6, <2>1, IdleState, ManagerMoves DEF GatewayFails
<1> QED
  BY <1>2, <1>3, <1>4, <1>5, <1>6, ManagerStepTyped
     DEF Next, UserEdits, Informers, StartReconcile, StepReconcile, Gateway, Faults, vars, managerVars

LEMMA InitInformed ==
  ASSUME Init
  PROVE  Informed /\ ManagerTyped
<1>1. /\ det = [d \in Detector |-> Absent] /\ dev = InitialDevices /\ pools = InitialPools
      /\ watch = [det |-> <<>>, dev |-> <<>>, pool |-> <<>>] /\ current = {}
      /\ cache = [det |-> det, dev |-> dev, pool |-> pools]
      /\ queue \subseteq Detector /\ pc = "idle" /\ run = NoRun
      /\ IsSeq(<<>>)
  BY DEF Init, ControllerInit, NoEvents, IsSeq
<1>2. ObjectsTyped(det, dev, pools)
  <2>1. ObjectsTyped([d \in Detector |-> Absent], InitialDevices, InitialPools)
    BY SystemAssumption DEF ObjectsTyped, MaybeDetector, PoolTyped, IsPool
  <2> QED
    BY <1>1, <2>1
<1>3. WatchTyped
  BY <1>1 DEF WatchTyped, EventsTyped
<1>4. OperatorTyped /\ CopyCurrent
  BY <1>1, <1>2, <1>3 DEF OperatorTyped, StoreTyped, CacheTyped, RunTyped, CopyCurrent
<1>5. Streamed
  <2>1. \A d \in Detector : Follows(watch.det, d, cache.det[d], det[d])
    BY <1>1, FollowsNothing
  <2>2. \A v \in Device : Follows(watch.dev, v, cache.dev[v], dev[v])
    BY <1>1, FollowsNothing
  <2> QED
    BY <2>1, <2>2 DEF Streamed
<1>6. ManagerTyped
  BY ManagerAssumption, IdleState DEF Init, ManagerInit, ManagerTyped, Addr
<1> QED
  BY <1>4, <1>5, <1>6 DEF Informed

(* The inductive invariant behind all the theorems.                        *)
LEMMA InformedStep ==
  ASSUME Informed, ManagerTyped, [Next]_vars
  PROVE  Informed' /\ ManagerTyped' /\ Steps
<1>1. AllTyped
  BY DEF AllTyped, Informed
<1> QED
  BY <1>1, NextSteps, StepInformed, ManagerKept

LEMMA TypesOfAll ==
  ASSUME Informed, ManagerTyped
  PROVE  TypeOK
<1>1. run.name \in Detector => run # NoRun
  BY StoreAssumption DEF NoRun, Reconcile
<1>2. pools = [p \in PoolName |-> pools[p]]
  BY DEF Informed, OperatorTyped, StoreTyped, ObjectsTyped
<1>3. DOMAIN pools = PoolName
  BY <1>2
<1> QED
  BY <1>1, <1>3 DEF TypeOK, Informed, OperatorTyped, StoreTyped, CacheTyped, ObjectsTyped,
                    RunTyped, ManagerTyped, GatewayState, Addr

(* Objects, caches, the queue, the running reconcile and the gateways only *)
(* hold what candetector_controller.go and the gateway's manager.go can    *)
(* put into them, whatever users, faults and lags do; in particular no     *)
(* write from a copy of an object that has gone brings it back.            *)
THEOREM AddressingTypes == Spec => []TypeOK
<1>1. Init => Informed /\ ManagerTyped
  BY InitInformed
<1>2. Informed /\ ManagerTyped /\ [Next]_vars => (Informed /\ ManagerTyped)'
  BY InformedStep
<1>3. Informed /\ ManagerTyped => TypeOK
  BY TypesOfAll
<1> QED
  BY <1>1, <1>2, <1>3, PTL DEF Spec

-----------------------------------------------------------------------------
(***************************************************************************)
(* An address is not taken away.  The condition: between the Get of a      *)
(* detector's device and the list of the pool's detectors the informer     *)
(* does not learn of another pool of that device, because then the list    *)
(* would miss the very detector that is reconciled, and a second address   *)
(* would be allocated to it.                                               *)
(***************************************************************************)
SameDevice == pc = "list" /\ pc' = "list" => cache'.dev[run.obj.ref] = cache.dev[run.obj.ref]

ListPlaced == pc = "list" => cache.dev[run.obj.ref] = run.pool

(* The spec about to be written has the address the object has, if any.    *)
KeptAddress ==
  pc = "spec" /\ run.name \in current => AssignedAddress(det[run.name]) \in {None, run.obj.desired}

Held == AssignedIsDesired /\ ListPlaced /\ KeptAddress

(* The operator's own writes.                                              *)
OwnWrite(obj) ==
  /\ run.name \in Detector /\ det[run.name] \in DetectorObject
  /\ PutDetector(run.name, obj)
  /\ obj.ref = det[run.name].ref /\ obj.adopt = det[run.name].adopt
  /\ obj.observed = det[run.name].observed
  /\ obj.assigned # None => obj.desired = obj.assigned
  /\ \/ AssignedAddress(obj) = AssignedAddress(det[run.name])
     \/ /\ pc = "spec" /\ run.name \in current /\ AssignedAddress(det[run.name]) = None
        /\ AssignedAddress(obj) = run.obj.desired

LEMMA WriteHeld ==
  ASSUME Informed, Held, OperatorWrite
  PROVE  \E obj \in DetectorObject : OwnWrite(obj)
<1>1. pc \in {"spec", "status", "fail"} /\ run.name \in current
  BY DEF OperatorWrite
<1> DEFINE old == det[run.name]
<1>2. /\ run.name \in Detector /\ old \in DetectorObject
      /\ SpecWritten \in DetectorObject /\ StatusWritten \in DetectorObject
      /\ SpecWritten.ref = run.obj.ref /\ SpecWritten.adopt = run.obj.adopt
      /\ SpecWritten.desired = run.obj.desired /\ SpecWritten.assigned = old.assigned
      /\ SpecWritten.observed = old.observed
      /\ StatusWritten.ref = old.ref /\ StatusWritten.adopt = old.adopt
      /\ StatusWritten.desired = old.desired /\ StatusWritten.assigned = run.obj.assigned
      /\ StatusWritten.observed = run.obj.observed
  BY <1>1, Written
<1>3. old.assigned # None => old.desired = old.assigned
  BY <1>2, SystemAssumption DEF Held, AssignedIsDesired
<1>4. CASE pc = "spec"
  <2>1. AssignedAddress(old) \in {None, run.obj.desired}
    BY <1>1, <1>4 DEF Held, KeptAddress
  <2>2. PutDetector(run.name, SpecWritten)
    BY <1>4 DEF OperatorWrite
  <2>3. run.obj.ref = old.ref /\ run.obj.adopt = old.adopt
    BY <1>1, <1>4 DEF Informed, CopyCurrent, Fits
  <2>4. /\ SpecWritten.assigned # None => SpecWritten.desired = SpecWritten.assigned
        /\ \/ AssignedAddress(SpecWritten) = AssignedAddress(old)
           \/ AssignedAddress(old) = None /\ AssignedAddress(SpecWritten) = run.obj.desired
    BY <1>2, <2>1 DEF AssignedAddress
  <2> QED
    BY <1>1, <1>2, <1>4, <2>2, <2>3, <2>4 DEF OwnWrite
<1>5. CASE pc \in {"status", "fail"}
  <2>1. PutDetector(run.name, StatusWritten)
    BY <1>5 DEF OperatorWrite
  <2>2. run.obj.assigned \in {old.assigned, old.desired} /\ run.obj.observed = old.observed
    BY <1>1, <1>5 DEF Informed, CopyCurrent, InStep
  <2>3. /\ StatusWritten.assigned # None => StatusWritten.desired = StatusWritten.assigned
        /\ AssignedAddress(StatusWritten) = AssignedAddress(old)
    BY <1>2, <1>3, <2>2 DEF AssignedAddress
  <2> QED
    BY <1>2, <2>1, <2>2, <2>3 DEF OwnWrite
<1> QED
  BY <1>1, <1>4, <1>5

(* What a step does to one detector's address and its two copies in the    *)
(* object.                                                                 *)
KeepsAddress(old, new) ==
  (new # Absent /\ old # Absent /\ AssignedAddress(old) # None)
  => AssignedAddress(new) = AssignedAddress(old)

DesiredFirst(obj) == (obj # Absent /\ obj.assigned # None) => obj.desired = obj.assigned

LEMMA AddressesKept ==
  ASSUME Informed, Held, Steps, NEW d \in Detector
  PROVE  DesiredFirst(det'[d]) /\ KeepsAddress(det[d], det'[d])
<1>1. DesiredFirst(det[d])
  BY DEF Held, AssignedIsDesired, DesiredFirst
<1>2. ASSUME det' = det
      PROVE  DesiredFirst(det'[d]) /\ KeepsAddress(det[d], det'[d])
  BY <1>1, <1>2 DEF KeepsAddress
<1>3. StoreTyped /\ RunTyped
  BY DEF Informed, OperatorTyped
<1>4. CASE OthersStep
  <2>1. CASE OutsideWrite
    <3>1. PICK e \in Detector, obj \in MaybeDetector : Outside(e, obj) /\ Allowed(e, obj)
      BY <2>1 DEF OutsideWrite
    <3>2. det' = [x \in Detector |-> IF x = e THEN obj ELSE det[x]]
      BY <1>3, <3>1, DetectorPut DEF Outside
    <3>3. CASE d = e
      <4>1. det'[d] = obj
        BY <3>2, <3>3
      <4>2. CASE obj = Absent
        BY <4>1, <4>2 DEF DesiredFirst, KeepsAddress
      <4>3. CASE det[d] = Absent /\ obj.assigned = None
        BY <4>1, <4>3 DEF DesiredFirst, KeepsAddress
      <4>4. CASE det[d] # Absent /\ obj.desired = det[d].desired /\ obj.assigned = det[d].assigned
        BY <1>1, <4>1, <4>4 DEF DesiredFirst, KeepsAddress, AssignedAddress
      <4>5. obj = Absent \/ (det[d] = Absent /\ obj.assigned = None)
            \/ (det[d] # Absent /\ obj.desired = det[d].desired /\ obj.assigned = det[d].assigned)
        BY <3>1, <3>3 DEF Allowed, NewDetector
      <4> QED
        BY <4>2, <4>3, <4>4, <4>5
    <3>4. CASE d # e
      <4>1. det'[d] = det[d]
        BY <3>2, <3>4
      <4> QED
        BY <1>1, <4>1 DEF KeepsAddress
    <3> QED
      BY <3>3, <3>4
  <2>2. CASE PoolEdited \/ DeviceEdited \/ UNCHANGED storeVars
    <3>1. det' = det
      BY <2>2 DEF PoolEdited, DeviceEdited, PutPool, PutDevice, storeVars
    <3> QED
      BY <1>2, <3>1
  <2> QED
    BY <1>4, <2>1, <2>2 DEF OthersStep
<1>5. CASE OperatorWrite
  <2>1. PICK obj \in DetectorObject : OwnWrite(obj)
    BY <1>5, WriteHeld
  <2>2. det' = [x \in Detector |-> IF x = run.name THEN obj ELSE det[x]]
    BY <1>3, <2>1, DetectorPut DEF OwnWrite, MaybeDetector
  <2>3. det'[d] = IF d = run.name THEN obj ELSE det[d]
    BY <2>2
  <2> QED
    BY <1>1, <2>1, <2>3 DEF OwnWrite, DesiredFirst, KeepsAddress
<1>6. CASE Delivery \/ (\E x \in Detector : Begin(x)) \/ ListAndAllocate
           \/ PoolStatusWrite \/ NoWrite \/ RestartOperator
  <2>1. det' = det
    BY <1>6 DEF Delivery, Begin, ListAndAllocate, PoolStatusWrite, PutPool, NoWrite, RestartOperator
  <2> QED
    BY <1>2, <2>1
<1> QED
  BY <1>4, <1>5, <1>6 DEF Steps

(* At the list an address the detector has is in the list, and is granted  *)
(* again.                                                                  *)
LEMMA ListKeeps ==
  ASSUME Informed, Held, NEW new, Entry(new), pc = "list", run.name \in current
  PROVE  AssignedAddress(det[run.name]) \in {None, new.desired}
<1>1. /\ run.name \in Detector /\ run.obj \in DetectorObject /\ run.obj.ref \in Device
      /\ run.obj = det[run.name]
      /\ \A i \in DOMAIN watch.det : watch.det[i].name # run.name
  BY DEF Informed, OperatorTyped, RunTyped, CopyCurrent
<1>2. cache.det[run.name] = run.obj
  BY <1>1 DEF Informed, Streamed, Follows
<1>3. run.obj # Absent /\ run.obj.ref # None
  BY <1>1, SystemAssumption, StoreAssumption
<1>4. cache.dev[run.obj.ref] = run.pool
  BY DEF Held, ListPlaced
<1>5. AssignedAddress(run.obj) # None => Listing(run.name)
  BY <1>1, <1>2, <1>3, <1>4 DEF Listing, PoolDetectors
<1>6. CASE new.desired = run.obj.desired
  BY <1>1, <1>3, <1>6 DEF Held, AssignedIsDesired, AssignedAddress
<1>7. CASE Grants(new.desired)
  BY <1>1, <1>2, <1>5, <1>7 DEF Grants
<1> QED
  BY <1>1, <1>6, <1>7 DEF Entry

LEMMA StepHeld ==
  ASSUME Informed, Held, Steps, SameDevice
  PROVE  Held'
<1>1. AssignedIsDesired'
  BY AddressesKept DEF AssignedIsDesired, DesiredFirst
<1>2. ListPlaced' /\ KeptAddress'
  <2>1. CASE OthersStep
    <3>1. UNCHANGED <<cache, pc, run>> /\ current' \subseteq current \cup (current' \ current)
      BY <2>1 DEF OthersStep, controllerVars
    <3>2. ListPlaced'
      BY <3>1 DEF Held, ListPlaced
    <3>3. CASE OutsideWrite
      <4>1. PICK e \in Detector, obj \in MaybeDetector : Outside(e, obj)
        BY <3>3 DEF OutsideWrite
      <4>2. det' = [x \in Detector |-> IF x = e THEN obj ELSE det[x]]
        BY <4>1, DetectorPut DEF Outside, Informed, OperatorTyped
      <4>3. run.name \in current' /\ pc = "spec" => run.name \in current /\ det'[run.name] = det[run.name]
        BY <4>1, <4>2 DEF Outside, Informed, OperatorTyped, RunTyped
      <4> QED
        BY <3>1, <3>2, <4>3 DEF Held, KeptAddress
    <3>4. CASE PoolEdited \/ DeviceEdited \/ UNCHANGED storeVars
      <4>1. det' = det /\ current' \subseteq current
        BY <3>4 DEF PoolEdited, DeviceEdited, PutPool, PutDevice, storeVars
      <4> QED
        BY <3>1, <3>2, <4>1 DEF Held, KeptAddress
    <3> QED
      BY <2>1, <3>3, <3>4 DEF OthersStep
  <2>2. CASE Delivery
    <3>1. UNCHANGED <<det, current, pc, run>>
      BY <2>2 DEF Delivery
    <3> QED
      BY <3>1 DEF SameDevice, Held, ListPlaced, KeptAddress
  <2>3. ASSUME NEW d \in Detector, Begin(d)
        PROVE  ListPlaced' /\ KeptAddress'
    <3>1. pc' # "spec" /\ UNCHANGED cache
      BY <2>3 DEF Begin
    <3>2. pc' = "list" => /\ run'.obj = cache.det[d] /\ run'.pool = cache.dev[cache.det[d].ref]
      BY <2>3 DEF Begin, Reconcile
    <3> QED
      BY <3>1, <3>2 DEF ListPlaced, KeptAddress
  <2>4. CASE ListAndAllocate
    <3>1. PICK new \in DetectorObject : Entry(new) /\ Enters(new)
      BY <2>4, Allocating DEF Informed
    <3>2. pc = "list" /\ pc' # "list" /\ det' = det
      BY <3>1 DEF Enters, Ends
    <3>3. pc' = "spec" => run'.name = run.name /\ run'.obj = new /\ current' = current
      BY <3>1 DEF Enters, Ends, Reconcile
    <3> QED
      BY <3>1, <3>2, <3>3, ListKeeps DEF ListPlaced, KeptAddress
  <2>5. CASE OperatorWrite \/ PoolStatusWrite \/ NoWrite \/ RestartOperator
    <3>1. pc' # "list" /\ pc' # "spec"
      BY <2>5 DEF OperatorWrite, PoolStatusWrite, NoWrite, RestartOperator, GoesOn, Ends
    <3> QED
      BY <3>1 DEF ListPlaced, KeptAddress
  <2> QED
    BY <2>1, <2>2, <2>3, <2>4, <2>5 DEF Steps
<1> QED
  BY <1>1, <1>2 DEF Held

LEMMA InitHeld == Init => Held
BY DEF Init, ControllerInit, Held, AssignedIsDesired, ListPlaced, KeptAddress

(* status.assignedAddress is never ahead of spec.desiredAddress, although  *)
(* they are written by two requests with a crash, a conflict or a lost     *)
(* answer possible between them.                                           *)
THEOREM AssignedAlwaysDesired == Spec /\ [][SameDevice]_vars => []AssignedIsDesired
<1> DEFINE Inv == Informed /\ ManagerTyped /\ Held
<1>1. Init => Inv
  BY InitInformed, InitHeld
<1>2. Inv /\ [Next]_vars /\ [SameDevice]_vars => Inv'
  <2> SUFFICES ASSUME Inv, [Next]_vars, [SameDevice]_vars
               PROVE  Inv'
    OBVIOUS
  <2>1. SameDevice
    BY DEF SameDevice, vars, controllerVars
  <2> QED
    BY <2>1, InformedStep, StepHeld
<1>3. Inv => AssignedIsDesired
  BY DEF Held
<1> QED
  BY <1>1, <1>2, <1>3, PTL DEF Spec

(* An address that a detector's object has, in its spec or in its status,  *)
(* stays that detector's until the object is deleted: no reconcile from an *)
(* old copy, no restart of the operator and no write of a gateway or user  *)
(* moves it.                                                               *)
THEOREM AddressStaysAssigned == Spec /\ [][SameDevice]_vars => AssignmentStable
<1> DEFINE Inv == Informed /\ ManagerTyped /\ Held
           Kept == \A d \in Detector :
                     det[d] # Absent /\ det'[d] # Absent /\ AssignedAddress(det[d]) # None
                     => AssignedAddress(det'[d]) = AssignedAddress(det[d])
<1>1. Init => Inv
  BY InitInformed, InitHeld
<1>2. Inv /\ [Next]_vars /\ [SameDevice]_vars => Inv' /\ [Kept]_vars
  <2> SUFFICES ASSUME Inv, [Next]_vars, [SameDevice]_vars
               PROVE  Inv' /\ Kept
    OBVIOUS
  <2>1. SameDevice
    BY DEF SameDevice, vars, controllerVars
  <2>2. Informed' /\ ManagerTyped' /\ Steps
    BY InformedStep
  <2>3. Held'
    BY <2>1, <2>2, StepHeld
  <2>4. Kept
    BY <2>2, AddressesKept DEF KeepsAddress
  <2> QED
    BY <2>2, <2>3, <2>4
<1> QED
  BY <1>1, <1>2, PTL DEF Spec, AssignmentStable

-----------------------------------------------------------------------------
(***************************************************************************)
(* Devices that stay with their pool.  What the operator knows of devices  *)
(* is then true, if perhaps not all there is to know, and an address is    *)
(* held in the pool it was allocated from.                                 *)
(***************************************************************************)
DevicesStay == \A v \in Device : dev[v] # Absent => dev'[v] = dev[v]

Known ==
  /\ \A v \in Device : cache.dev[v] # Absent => cache.dev[v] = dev[v]
  /\ \A i \in DOMAIN watch.dev :
        watch.dev[i].obj # Absent /\ watch.dev[i].obj = dev[watch.dev[i].name]

Placed == pc \in {"list", "spec"} => dev[run.obj.ref] = run.pool

Bound == \A d \in Detector : HeldBy(d) # None => det[d].ref # None /\ dev[det[d].ref] # Absent

Settled == Known /\ Placed /\ Bound

(* What a step can do to the address a detector holds.                     *)
Receives(d) ==
  /\ HeldBy(d) = None /\ HeldBy(d)' = run.obj.desired
  /\ OperatorWrite /\ pc = "spec" /\ d = run.name /\ d \in current
  /\ det[d] \in DetectorObject /\ det'[d] \in DetectorObject
  /\ det'[d].ref = det[d].ref /\ det'[d].adopt = det[d].adopt /\ det'[d].observed = det[d].observed
  /\ det' = [x \in Detector |-> IF x = d THEN det'[d] ELSE det[x]]
  /\ UNCHANGED <<dev, pools>>

Retains(d) ==
  /\ HeldBy(d) # None /\ HeldBy(d)' = HeldBy(d) /\ det'[d].ref = det[d].ref

LEMMA AddressMoves ==
  ASSUME Informed, Held, Bound, Steps, NEW d \in Detector
  PROVE  HeldBy(d)' = None \/ Retains(d) \/ Receives(d)
<1>1. StoreTyped /\ (det[d] = Absent \/ det[d] \in DetectorObject)
  BY DEF Informed, OperatorTyped, StoreTyped, ObjectsTyped, MaybeDetector
<1>2. ASSUME det'[d] = det[d]
      PROVE  HeldBy(d)' = None \/ Retains(d)
  BY <1>2 DEF HeldBy, Retains
<1>3. CASE OthersStep /\ OutsideWrite
  <2>1. PICK e \in Detector, obj \in MaybeDetector : Outside(e, obj) /\ Allowed(e, obj)
    BY <1>3 DEF OutsideWrite
  <2>2. det' = [x \in Detector |-> IF x = e THEN obj ELSE det[x]]
    BY <1>1, <2>1, DetectorPut DEF Outside
  <2>3. CASE d # e
    BY <1>2, <2>2, <2>3
  <2>4. CASE d = e
    <3>1. det'[d] = obj
      BY <2>2, <2>4
    <3>2. CASE obj = Absent
      BY <3>1, <3>2 DEF HeldBy
    <3>3. CASE obj.desired = None /\ obj.assigned = None
      BY <3>1, <3>3 DEF HeldBy, AssignedAddress
    <3>4. CASE /\ det[d] # Absent /\ obj \in DetectorObject
               /\ det[d].ref # None => obj.ref = det[d].ref
               /\ obj.desired = det[d].desired /\ obj.assigned = det[d].assigned
      <4>1. HeldBy(d) # None => det[d].ref # None
        BY DEF Bound
      <4>2. HeldBy(d)' = HeldBy(d)
        BY <3>1, <3>4, SystemAssumption DEF HeldBy, AssignedAddress
      <4> QED
        BY <3>1, <3>4, <4>1, <4>2 DEF Retains
    <3> QED
      BY <2>1, <2>4, <3>2, <3>3, <3>4 DEF Allowed, NewDetector
  <2> QED
    BY <2>3, <2>4
<1>4. CASE OperatorWrite
  <2>1. PICK obj \in DetectorObject : OwnWrite(obj)
    BY <1>4, WriteHeld
  <2>2. det' = [x \in Detector |-> IF x = run.name THEN obj ELSE det[x]] /\ UNCHANGED <<dev, pools>>
    BY <1>1, <2>1, DetectorPut DEF OwnWrite, MaybeDetector
  <2>3. CASE d # run.name
    BY <1>2, <2>2, <2>3
  <2>4. CASE d = run.name
    <3>1. det'[d] = obj /\ det' = [x \in Detector |-> IF x = d THEN det'[d] ELSE det[x]]
      BY <2>2, <2>4
    <3>2. det[d] \in DetectorObject /\ det[d] # Absent /\ obj # Absent
      BY <2>1, <2>4, SystemAssumption DEF OwnWrite
    <3>3. HeldBy(d) = AssignedAddress(det[d]) /\ HeldBy(d)' = AssignedAddress(obj)
      BY <3>1, <3>2 DEF HeldBy
    <3>4. /\ obj.ref = det[d].ref /\ obj.adopt = det[d].adopt /\ obj.observed = det[d].observed
          /\ \/ AssignedAddress(obj) = AssignedAddress(det[d])
             \/ /\ pc = "spec" /\ d \in current /\ AssignedAddress(det[d]) = None
                /\ AssignedAddress(obj) = run.obj.desired
      BY <2>1, <2>4 DEF OwnWrite
    <3> QED
      BY <1>4, <2>2, <2>4, <3>1, <3>2, <3>3, <3>4 DEF Retains, Receives
  <2> QED
    BY <2>3, <2>4
<1>5. ASSUME det' = det
      PROVE  HeldBy(d)' = None \/ Retains(d)
  BY <1>2, <1>5
<1>6. CASE OthersStep /\ (PoolEdited \/ DeviceEdited \/ UNCHANGED storeVars)
  BY <1>5, <1>6 DEF PoolEdited, DeviceEdited, PutPool, PutDevice, storeVars
<1>7. CASE Delivery \/ (\E x \in Detector : Begin(x)) \/ ListAndAllocate
           \/ PoolStatusWrite \/ NoWrite \/ RestartOperator
  <2>1. det' = det
    BY <1>7 DEF Delivery, Begin, ListAndAllocate, PoolStatusWrite, PutPool, NoWrite, RestartOperator
  <2> QED
    BY <1>5, <2>1
<1> QED
  BY <1>3, <1>4, <1>6, <1>7 DEF Steps, OthersStep

(* A device that stays does so in every copy.                              *)
LEMMA StepKnown ==
  ASSUME Informed, Known, Steps, DevicesStay
  PROVE  Known'
<1>1. /\ dev \in [Device -> PoolName \cup {Absent}] /\ cache.dev \in [Device -> PoolName \cup {Absent}]
      /\ StoreTyped /\ CacheTyped /\ IsSeq(watch.dev)
      /\ \A i \in DOMAIN watch.dev : watch.dev[i].name \in Device
  BY DEF Informed, OperatorTyped, StoreTyped, CacheTyped, ObjectsTyped, WatchTyped, EventsTyped
<1>2. ASSUME UNCHANGED <<dev, cache>>, watch'.dev = watch.dev
      PROVE  Known'
  BY <1>2 DEF Known
<1>3. CASE OthersStep
  <2>1. UNCHANGED cache
    BY <1>3 DEF OthersStep, controllerVars
  <2>2. CASE OutsideWrite
    BY <1>1, <1>2, <2>1, <2>2, DetectorPut DEF OutsideWrite, Outside
  <2>3. CASE PoolEdited
    <3>1. Informed /\ PoolEdited /\ UNCHANGED dev /\ watch'.dev = watch.dev
      <4>1. PICK p \in PoolName, cfg \in PoolEdits :
              pools[p] # Absent /\ PutPool(p, [pools[p] EXCEPT !.cfg = cfg])
        BY <2>3 DEF PoolEdited
      <4>2. dev' = dev /\ watch'.dev = watch.dev
        BY <1>1, <4>1 DEF PutPool, Publish, StoreTyped, WatchTyped
      <4> QED
        BY <2>3, <4>2
    <3> QED
      BY <1>2, <2>1, <3>1
  <2>4. CASE DeviceEdited
    <3>1. PICK v \in Device : \E p \in DeviceEdits \ {dev[v]} : PutDevice(v, p)
      BY <2>4 DEF DeviceEdited
    <3>2. PICK p \in DeviceEdits \ {dev[v]} : PutDevice(v, p)
      BY <3>1
    <3>3. p \in PoolName \cup {Absent}
      BY SystemAssumption
    <3>4. /\ dev' = [x \in Device |-> IF x = v THEN p ELSE dev[x]]
          /\ watch'.dev = Append(watch.dev, Event(v, p))
      BY <1>1, <3>2, <3>3, DevicePut
    <3>5. dev[v] = Absent /\ p # Absent
      BY <3>2, <3>4 DEF DevicesStay
    <3>6. \A x \in Device : dev[x] # Absent => dev'[x] = dev[x]
      BY <3>4, <3>5
    <3>7. /\ DOMAIN Append(watch.dev, Event(v, p)) = 1 .. (Len(watch.dev) + 1)
          /\ DOMAIN watch.dev = 1 .. Len(watch.dev) /\ Len(watch.dev) \in Nat
          /\ \A i \in DOMAIN watch.dev : Append(watch.dev, Event(v, p))[i] = watch.dev[i]
          /\ Append(watch.dev, Event(v, p))[Len(watch.dev) + 1] = Event(v, p)
      BY <1>1, Appended
    <3>8. Event(v, p).name = v /\ Event(v, p).obj = p /\ dev'[v] = p
      BY <3>4 DEF Event
    <3>9. \A i \in DOMAIN watch'.dev : watch'.dev[i] = Event(v, p) \/ (i \in DOMAIN watch.dev /\ watch'.dev[i] = watch.dev[i])
      BY <3>4, <3>7
    <3>10. \A i \in DOMAIN watch'.dev :
             watch'.dev[i].obj # Absent /\ watch'.dev[i].obj = dev'[watch'.dev[i].name]
      BY <1>1, <3>5, <3>6, <3>8, <3>9 DEF Known
    <3>11. \A x \in Device : cache'.dev[x] # Absent => cache'.dev[x] = dev'[x]
      BY <2>1, <3>6 DEF Known
    <3> QED
      BY <3>10, <3>11 DEF Known
  <2>5. CASE UNCHANGED storeVars
    BY <1>2, <2>1, <2>5 DEF storeVars
  <2> QED
    BY <1>3, <2>2, <2>3, <2>4, <2>5 DEF OthersStep
<1>4. CASE Delivery
  <2>1. PICK kind \in {"det", "dev", "pool"} :
          /\ watch[kind] # <<>>
          /\ cache' = [cache EXCEPT ![kind][Head(watch[kind]).name] = Head(watch[kind]).obj]
          /\ watch' = [watch EXCEPT ![kind] = Tail(@)]
          /\ UNCHANGED dev
    BY <1>4 DEF Delivery
  <2>2. CASE kind # "dev"
    <3>1. watch'.dev = watch.dev /\ cache'.dev = cache.dev
      BY <1>1, <2>1, <2>2 DEF StoreTyped, WatchTyped, CacheTyped
    <3> QED
      BY <2>1, <3>1 DEF Known
  <2>3. CASE kind = "dev"
    <3>1. /\ Head(watch.dev) = watch.dev[1] /\ 1 \in DOMAIN watch.dev
          /\ \A i \in DOMAIN Tail(watch.dev) : /\ i + 1 \in DOMAIN watch.dev
                                               /\ Tail(watch.dev)[i] = watch.dev[i + 1]
      BY <1>1, <2>1, <2>3, HeadAndTail
    <3>2. watch'.dev = Tail(watch.dev)
      BY <1>1, <2>1, <2>3 DEF StoreTyped, WatchTyped
    <3>3. cache'.dev = [cache.dev EXCEPT ![Head(watch.dev).name] = Head(watch.dev).obj]
      BY <1>1, <2>1, <2>3 DEF CacheTyped
    <3>4. Head(watch.dev).obj = dev[Head(watch.dev).name] /\ Head(watch.dev).name \in Device
      BY <1>1, <3>1 DEF Known
    <3>5. \A x \in Device : cache'.dev[x] # Absent => cache'.dev[x] = dev'[x]
      BY <1>1, <2>1, <3>3, <3>4 DEF Known
    <3>6. \A i \in DOMAIN watch'.dev :
             watch'.dev[i].obj # Absent /\ watch'.dev[i].obj = dev'[watch'.dev[i].name]
      BY <2>1, <3>1, <3>2 DEF Known
    <3> QED
      BY <3>5, <3>6 DEF Known
  <2> QED
    BY <2>2, <2>3
<1>5. CASE (\E x \in Detector : Begin(x)) \/ ListAndAllocate \/ NoWrite
  <2>1. UNCHANGED <<dev, watch, cache>>
    <3>1. ASSUME ListAndAllocate
          PROVE  UNCHANGED <<dev, watch, cache>>
      <4>1. PICK new \in DetectorObject : Enters(new)
        BY <3>1, Allocating DEF Informed
      <4> QED
        BY <4>1 DEF Enters, Ends
    <3> QED
      BY <1>5, <3>1 DEF Begin, NoWrite, Ends
  <2> QED
    BY <1>2, <2>1
<1>6. CASE OperatorWrite
  <2>1. PICK obj \in DetectorObject : PutDetector(run.name, obj) /\ run.name \in Detector
    <3>1. pc \in {"spec", "status", "fail"} /\ run.name \in current
      BY <1>6 DEF OperatorWrite
    <3> QED
      BY <1>6, <3>1, Written DEF OperatorWrite
  <2>2. dev' = dev /\ watch'.dev = watch.dev
    BY <1>1, <2>1, DetectorPut DEF MaybeDetector
  <2>3. UNCHANGED cache
    BY <1>6 DEF OperatorWrite, GoesOn, Ends
  <2> QED
    BY <1>2, <2>2, <2>3
<1>7. CASE PoolStatusWrite
  <2>1. UNCHANGED <<dev, cache>> /\ watch'.dev = watch.dev
    BY <1>1, <1>7 DEF PoolStatusWrite, PutPool, Publish, Ends, StoreTyped, WatchTyped
  <2> QED
    BY <1>2, <2>1
<1>8. CASE RestartOperator
  <2>1. cache'.dev = dev /\ dev' = dev /\ watch'.dev = <<>>
    BY <1>8 DEF RestartOperator, NoEvents
  <2> QED
    BY <2>1 DEF Known
<1> QED
  BY <1>3, <1>4, <1>5, <1>6, <1>7, <1>8 DEF Steps

LEMMA StaysSame ==
  ASSUME Informed, Held, Settled, Steps, DevicesStay
  PROVE  SameDevice /\ Known'
<1>1. Known'
  BY StepKnown DEF Settled
<1>2. SameDevice
  <2> SUFFICES ASSUME pc = "list", pc' = "list"
               PROVE  cache'.dev[run.obj.ref] = cache.dev[run.obj.ref]
    BY DEF SameDevice
  <2>1. CASE Delivery
    <3>1. run.obj.ref \in Device /\ run.pool \in PoolName
      BY DEF Informed, OperatorTyped, RunTyped
    <3>2. cache.dev[run.obj.ref] = run.pool /\ dev[run.obj.ref] = run.pool
      BY DEF Held, ListPlaced, Settled, Placed
    <3>3. PICK kind \in {"det", "dev", "pool"} :
            /\ watch[kind] # <<>>
            /\ cache' = [cache EXCEPT ![kind][Head(watch[kind]).name] = Head(watch[kind]).obj]
      BY <2>1 DEF Delivery
    <3>4. CASE kind # "dev"
      BY <3>3, <3>4 DEF Informed, OperatorTyped, CacheTyped
    <3>5. CASE kind = "dev"
      <4>1. IsSeq(watch.dev) /\ watch.dev # <<>>
        BY <3>3, <3>5 DEF Informed, OperatorTyped, StoreTyped, WatchTyped
      <4>2. Head(watch.dev) = watch.dev[1] /\ 1 \in DOMAIN watch.dev
        BY <4>1, HeadAndTail
      <4>3. Head(watch.dev).obj = dev[Head(watch.dev).name]
        BY <4>2 DEF Settled, Known
      <4>4. cache'.dev = [cache.dev EXCEPT ![Head(watch.dev).name] = Head(watch.dev).obj]
        BY <3>3, <3>5 DEF Informed, OperatorTyped, CacheTyped
      <4>5. cache.dev \in [Device -> PoolName \cup {Absent}]
        BY DEF Informed, OperatorTyped, CacheTyped, ObjectsTyped
      <4> QED
        BY <3>1, <3>2, <4>3, <4>4, <4>5
    <3> QED
      BY <3>4, <3>5
  <2>2. CASE OthersStep
    BY <2>2 DEF OthersStep, controllerVars
  <2>3. CASE ListAndAllocate
    <3>1. pc' # "list"
      BY <2>3, Allocating DEF Informed, Enters, Ends
    <3> QED
      BY <3>1
  <2>4. CASE (\E d \in Detector : Begin(d)) \/ OperatorWrite \/ PoolStatusWrite \/ NoWrite \/ RestartOperator
    BY <2>4 DEF Begin, OperatorWrite, PoolStatusWrite, NoWrite, RestartOperator, GoesOn, Ends
  <2> QED
    BY <2>1, <2>2, <2>3, <2>4 DEF Steps
<1> QED
  BY <1>1, <1>2

(* While a reconcile runs, others may change its object only at the price  *)
(* of outdating its copy.                                                  *)
LEMMA OthersLeave ==
  ASSUME Informed, OthersStep, pc # "idle"
  PROVE  /\ UNCHANGED <<pc, run>> /\ current' \subseteq current
         /\ run.name \in current' => det'[run.name] = det[run.name]
<1>1. UNCHANGED <<pc, run>>
  BY DEF OthersStep, controllerVars
<1>2. current' \subseteq current
  BY DEF OthersStep, OutsideWrite, Outside, PoolEdited, DeviceEdited, storeVars
<1>3. run.name \in current' => det'[run.name] = det[run.name]
  <2>1. CASE OutsideWrite
    <3>1. PICK e \in Detector, obj \in MaybeDetector : Outside(e, obj)
      BY <2>1 DEF OutsideWrite
    <3>2. det' = [x \in Detector |-> IF x = e THEN obj ELSE det[x]]
      BY <3>1, DetectorPut DEF Outside, Informed, OperatorTyped
    <3>3. run.name \in Detector
      BY DEF Informed, OperatorTyped, RunTyped
    <3> QED
      BY <3>1, <3>2, <3>3 DEF Outside
  <2>2. CASE PoolEdited \/ DeviceEdited \/ UNCHANGED storeVars
    BY <2>2 DEF PoolEdited, DeviceEdited, PutPool, PutDevice, storeVars
  <2> QED
    BY <2>1, <2>2 DEF OthersStep
<1> QED
  BY <1>1, <1>2, <1>3

(* Where the run goes on after the list, with what it has read.            *)
LEMMA RunGoesOn ==
  ASSUME Informed, Steps, pc' = "spec"
  PROVE  \/ /\ pc = "spec" /\ run' = run /\ current' \subseteq current
            /\ run.name \in current' => det'[run.name] = det[run.name]
         \/ \E new \in DetectorObject :
              /\ ListAndAllocate /\ Entry(new) /\ Enters(new) /\ current' = current
              /\ run'.name = run.name /\ run'.obj = new
              /\ run'.pool = run.pool /\ run'.poolObj = run.poolObj
<1>1. CASE OthersStep
  BY <1>1, OthersLeave DEF OthersStep, controllerVars
<1>2. CASE ListAndAllocate
  <2>1. PICK new \in DetectorObject : Entry(new) /\ Enters(new)
    BY <1>2, Allocating DEF Informed
  <2> QED
    BY <1>2, <2>1 DEF Enters, Ends, Reconcile
<1>3. CASE Delivery
  BY <1>3 DEF Delivery
<1>4. CASE (\E d \in Detector : Begin(d)) \/ OperatorWrite \/ PoolStatusWrite \/ NoWrite \/ RestartOperator
  BY <1>4 DEF Begin, OperatorWrite, PoolStatusWrite, NoWrite, RestartOperator, GoesOn, Ends
<1> QED
  BY <1>1, <1>2, <1>3, <1>4 DEF Steps

LEMMA StepSettled ==
  ASSUME Informed, Held, Settled, Steps, DevicesStay
  PROVE  Held' /\ Settled'
<1>1. SameDevice /\ Known'
  BY StaysSame
<1>2. Held'
  BY <1>1, StepHeld
<1>3. Bound'
  <2> SUFFICES ASSUME NEW d \in Detector, HeldBy(d)' # None
               PROVE  det'[d].ref # None /\ dev'[det'[d].ref] # Absent
    BY DEF Bound
  <2>1. HeldBy(d)' = None \/ Retains(d) \/ Receives(d)
    BY AddressMoves DEF Settled
  <2>2. ASSUME det'[d].ref = det[d].ref, det[d].ref \in Device, dev[det[d].ref] # Absent
        PROVE  det'[d].ref # None /\ dev'[det'[d].ref] # Absent
    BY <2>2, StoreAssumption DEF DevicesStay
  <2>3. CASE Retains(d)
    <3>1. det[d].ref # None /\ dev[det[d].ref] # Absent
      BY <2>3 DEF Retains, Settled, Bound
    <3>2. det[d] \in DetectorObject
      BY <2>3 DEF Retains, HeldBy, Informed, OperatorTyped, StoreTyped, ObjectsTyped, MaybeDetector
    <3>3. det[d].ref \in Device
      BY <3>1, <3>2 DEF DetectorObject
    <3> QED
      BY <2>2, <2>3, <3>1, <3>3 DEF Retains
  <2>4. CASE Receives(d)
    <3>1. pc = "spec" /\ d = run.name /\ d \in current /\ det'[d].ref = det[d].ref
      BY <2>4 DEF Receives
    <3>2. run.obj.ref = det[d].ref /\ run.obj.ref \in Device /\ run.pool \in PoolName
      BY <3>1 DEF Informed, CopyCurrent, Fits, OperatorTyped, RunTyped
    <3>3. dev[run.obj.ref] = run.pool
      BY <3>1 DEF Settled, Placed
    <3> QED
      BY <2>2, <3>1, <3>2, <3>3, SystemAssumption
  <2> QED
    BY <2>1, <2>3, <2>4
<1>4. Placed'
  <2>1. ASSUME pc \in {"list", "spec"}
        PROVE  dev'[run.obj.ref] = run.pool
    <3>1. run.obj.ref \in Device /\ run.pool \in PoolName /\ dev[run.obj.ref] = run.pool
      BY <2>1 DEF Settled, Placed, Informed, OperatorTyped, RunTyped
    <3> QED
      BY <3>1, SystemAssumption DEF DevicesStay
  <2>2. CASE pc' = "spec"
    <3>1. CASE pc = "spec" /\ run' = run
      BY <2>1, <2>2, <3>1 DEF Placed
    <3>2. ASSUME NEW new \in DetectorObject, Entry(new), Enters(new), run'.obj = new, run'.pool = run.pool
          PROVE  Placed'
      BY <2>1, <3>2 DEF Placed, Entry, Enters
    <3> QED
      BY <2>2, <3>1, <3>2, RunGoesOn
  <2>3. CASE pc' = "list"
    <3>1. CASE OthersStep \/ Delivery
      <4>1. UNCHANGED <<pc, run>>
        BY <3>1 DEF OthersStep, Delivery, controllerVars
      <4> QED
        BY <2>1, <2>3, <4>1 DEF Placed
    <3>2. ASSUME NEW d \in Detector, Begin(d)
          PROVE  Placed'
      <4>1. /\ run'.obj = cache.det[d] /\ run'.pool = cache.dev[cache.det[d].ref]
            /\ cache.dev[cache.det[d].ref] # Absent /\ cache.det[d].ref # None /\ cache.det[d] # Absent
            /\ dev' = dev
        BY <2>3, <3>2, SMTT(30) DEF Begin, Reconcile
      <4>2. cache.det[d].ref \in Device
        BY <4>1 DEF Informed, OperatorTyped, CacheTyped, ObjectsTyped, MaybeDetector, DetectorObject
      <4> QED
        BY <4>1, <4>2 DEF Settled, Known, Placed
    <3>3. CASE ListAndAllocate
      BY <2>3, <3>3, Allocating DEF Informed, Enters, Ends
    <3>4. CASE OperatorWrite \/ PoolStatusWrite \/ NoWrite \/ RestartOperator
      BY <2>3, <3>4 DEF OperatorWrite, PoolStatusWrite, NoWrite, RestartOperator, GoesOn, Ends
    <3> QED
      BY <3>1, <3>2, <3>3, <3>4 DEF Steps
  <2>4. CASE pc' \notin {"list", "spec"}
    BY <2>4 DEF Placed
  <2> QED
    BY <2>2, <2>3, <2>4
<1> QED
  BY <1>1, <1>2, <1>3, <1>4 DEF Settled

LEMMA InitSettled ==
  ASSUME Init
  PROVE  Held /\ Settled
<1>1. /\ det = [d \in Detector |-> Absent] /\ cache.dev = dev /\ watch.dev = <<>> /\ pc = "idle"
  BY DEF Init, ControllerInit, NoEvents
<1>2. Known /\ Placed
  BY <1>1 DEF Known, Placed
<1>3. Bound
  BY <1>1 DEF Bound, HeldBy
<1> QED
  BY <1>2, <1>3, InitHeld DEF Settled

-----------------------------------------------------------------------------
(***************************************************************************)
(* Unique addresses, when the list a reconcile works from misses no event  *)
(* of another detector.  What it read before, and what it knows of devices *)
(* and pools, may be old.                                                  *)
(***************************************************************************)
UniqueHeld ==
  \A d, e \in Detector :
    d # e /\ HeldBy(d) # None /\ HeldBy(d) = HeldBy(e) => dev[det[d].ref] # dev[det[e].ref]

(* The address a reconcile is about to write is still nobody else's.       *)
FreshUnique ==
  pc = "spec" /\ run.name \in current /\ run.obj.desired # None =>
    \A e \in Detector :
      e # run.name /\ HeldBy(e) = run.obj.desired => dev[det[e].ref] # run.pool

ListComplete == \A i \in DOMAIN watch.det : watch.det[i].name = run.name

ListsComplete == pc = "list" /\ pc' # "list" => ListComplete

(* The cache has the device of whoever holds an address, because the       *)
(* operator found it there when it gave the address.                       *)
Acquainted ==
  /\ \A d \in Detector : HeldBy(d) # None => cache.dev[det[d].ref] # Absent
  /\ pc \in {"list", "spec"} => cache.dev[run.obj.ref] # Absent

(* What the cache knows of a device is not forgotten.                      *)
LEMMA DevicesKnown ==
  ASSUME Informed, Settled, Steps, NEW v \in Device, cache.dev[v] # Absent
  PROVE  cache'.dev[v] # Absent
<1>1. cache.dev[v] = dev[v] /\ StoreTyped /\ CacheTyped
  BY DEF Settled, Known, Informed, OperatorTyped
<1>2. CASE Delivery
  <2>1. PICK kind \in {"det", "dev", "pool"} :
          /\ watch[kind] # <<>>
          /\ cache' = [cache EXCEPT ![kind][Head(watch[kind]).name] = Head(watch[kind]).obj]
    BY <1>2 DEF Delivery
  <2>2. CASE kind # "dev"
    <3>1. cache'.dev = cache.dev
      BY <1>1, <2>1, <2>2 DEF CacheTyped
    <3> QED
      BY <3>1
  <2>3. CASE kind = "dev"
    <3>1. watch.dev # <<>> /\ IsSeq(watch.dev)
      BY <1>1, <2>1, <2>3 DEF StoreTyped, WatchTyped
    <3>2. PICK e : e = Head(watch.dev) /\ e.obj # Absent
      BY <3>1, HeadAndTail DEF Settled, Known
    <3>3. cache'.dev = [cache.dev EXCEPT ![e.name] = e.obj]
      BY <1>1, <2>1, <2>3, <3>2 DEF CacheTyped
    <3>4. cache.dev = [x \in Device |-> cache.dev[x]]
      BY <1>1 DEF CacheTyped, ObjectsTyped
    <3> QED
      BY <3>2, <3>3, <3>4
  <2> QED
    BY <2>2, <2>3
<1>3. CASE RestartOperator
  BY <1>1, <1>3 DEF RestartOperator
<1>4. CASE UNCHANGED cache
  BY <1>4
<1>5. Delivery \/ RestartOperator \/ UNCHANGED cache
  BY DEF Steps, OthersStep, controllerVars, Begin, ListAndAllocate, PoolStatusOrFinish, Goto, Finish,
         OperatorWrite, PoolStatusWrite, NoWrite, GoesOn, Ends
<1> QED
  BY <1>2, <1>3, <1>4, <1>5

LEMMA StepAcquainted ==
  ASSUME Informed, Held, Settled, Acquainted, Steps
  PROVE  Acquainted'
<1>1. ASSUME NEW d \in Detector, HeldBy(d)' # None
      PROVE  cache'.dev[det'[d].ref] # Absent
  <2>1. CASE Retains(d)
    <3>1. HeldBy(d) # None /\ det'[d].ref = det[d].ref /\ det[d].ref # None
      BY <1>1, <2>1 DEF Retains, Settled, Bound
    <3>2. det[d] \in DetectorObject
      BY <3>1 DEF HeldBy, Informed, OperatorTyped, StoreTyped, ObjectsTyped, MaybeDetector
    <3>3. det[d].ref \in Device
      BY <3>1, <3>2 DEF DetectorObject
    <3> QED
      BY <3>1, <3>3, DevicesKnown DEF Acquainted
  <2>2. CASE Receives(d)
    <3>1. /\ d = run.name /\ pc = "spec" /\ d \in current /\ det'[d].ref = det[d].ref
      BY <2>2 DEF Receives
    <3>2. det[d].ref = run.obj.ref /\ run.obj.ref \in Device
      BY <3>1 DEF Informed, CopyCurrent, Fits, OperatorTyped, RunTyped
    <3> QED
      BY <3>1, <3>2, DevicesKnown DEF Acquainted
  <2> QED
    BY <1>1, <2>1, <2>2, AddressMoves DEF Settled
<1>2. ASSUME pc' \in {"list", "spec"}
      PROVE  cache'.dev[run'.obj.ref] # Absent
  <2>1. CASE pc \in {"list", "spec"} /\ run'.obj.ref = run.obj.ref
    <3>1. run.obj.ref \in Device
      BY <2>1 DEF Informed, OperatorTyped, RunTyped
    <3> QED
      BY <2>1, <3>1, DevicesKnown DEF Acquainted
  <2>2. ASSUME NEW d \in Detector, Begin(d)
        PROVE  cache'.dev[run'.obj.ref] # Absent
    <3>1. PICK obj : obj = cache.det[d]
      OBVIOUS
    <3>2. /\ cache.dev[obj.ref] # Absent /\ cache' = cache
          /\ \E pool : run' = Reconcile(d, obj, pool, cache.pool[pool], FALSE, NoStats)
      BY <1>2, <2>2, <3>1, ZenonT(60) DEF Begin
    <3>3. run'.obj = obj
      BY <3>2 DEF Reconcile
    <3> QED
      BY <3>2, <3>3
  <2>3. CASE ListAndAllocate
    <3>1. PICK new \in DetectorObject : Entry(new) /\ Enters(new)
      BY <2>3, Allocating DEF Informed
    <3>2. pc = "list" /\ run'.obj = new /\ new.ref = run.obj.ref
      BY <1>2, <3>1 DEF Entry, Enters, Ends, Reconcile
    <3> QED
      BY <2>1, <3>2
  <2>4. CASE OthersStep \/ Delivery
    BY <1>2, <2>1, <2>4 DEF OthersStep, Delivery, controllerVars
  <2>5. CASE OperatorWrite \/ PoolStatusWrite \/ NoWrite \/ RestartOperator
    BY <1>2, <2>5 DEF OperatorWrite, PoolStatusWrite, NoWrite, RestartOperator, GoesOn, Ends
  <2> QED
    BY <2>2, <2>3, <2>4, <2>5 DEF Steps
<1> QED
  BY <1>1, <1>2 DEF Acquainted

(* The list has everybody else who holds an address.                       *)
LEMMA ListHasHolders ==
  ASSUME Informed, Settled, Acquainted, ListComplete, NEW e \in Detector, e # run.name, HeldBy(e) # None
  PROVE  /\ cache.det[e] = det[e] /\ det[e].ref \in Device
         /\ cache.dev[det[e].ref] = dev[det[e].ref]
<1>1. cache.det[e] = det[e]
  BY DEF ListComplete, Informed, Streamed, Follows
<1>2. det[e] \in DetectorObject /\ det[e].ref # None
  BY DEF HeldBy, Informed, OperatorTyped, StoreTyped, ObjectsTyped, MaybeDetector, Settled, Bound
<1>3. det[e].ref \in Device
  BY <1>2 DEF DetectorObject
<1> QED
  BY <1>1, <1>3 DEF Acquainted, Settled, Known

(* What the list grants nobody of the pool holds.                          *)
LEMMA GrantedUnique ==
  ASSUME Informed, Held, Settled, UniqueHeld, Acquainted, ListComplete, pc = "list",
         NEW new, Entry(new), run.name \in current, new.desired # None,
         NEW e \in Detector, e # run.name, HeldBy(e) = new.desired
  PROVE  dev[det[e].ref] # run.pool
<1>1. /\ run.name \in Detector /\ run.obj \in DetectorObject /\ run.obj.ref \in Device
      /\ run.obj = det[run.name] /\ run.obj # Absent /\ run.pool \in PoolName
  BY SystemAssumption DEF Informed, OperatorTyped, RunTyped, CopyCurrent
<1>2. /\ cache.det[e] = det[e] /\ det[e].ref \in Device
      /\ cache.dev[det[e].ref] = dev[det[e].ref]
  BY ListHasHolders
<1>3. det[e] # Absent /\ AssignedAddress(det[e]) = new.desired
  BY DEF HeldBy
<1>4. det[e].ref # None
  BY <1>2, StoreAssumption
<1>5. CASE Grants(new.desired)
  <2> SUFFICES ASSUME dev[det[e].ref] = run.pool
               PROVE  FALSE
    OBVIOUS
  <2>1. Listing(e)
    BY <1>2, <1>3, <1>4 DEF Listing, PoolDetectors
  <2> QED
    BY <1>2, <1>3, <1>5, <2>1 DEF Grants
<1>6. CASE new.desired = run.obj.desired
  <2>1. HeldBy(run.name) = new.desired
    BY <1>1, <1>6 DEF HeldBy, AssignedAddress, Held, AssignedIsDesired
  <2>2. dev[det[run.name].ref] # dev[det[e].ref]
    BY <1>1, <2>1 DEF UniqueHeld
  <2>3. dev[det[run.name].ref] = run.pool
    BY <1>1 DEF Settled, Placed
  <2> QED
    BY <2>2, <2>3
<1> QED
  BY <1>5, <1>6 DEF Entry

LEMMA StepUnique ==
  ASSUME Informed, Held, Settled, UniqueHeld, FreshUnique, Acquainted, Steps, DevicesStay, ListsComplete
  PROVE  UniqueHeld' /\ FreshUnique'
<1>1. ASSUME NEW d \in Detector, Retains(d)
      PROVE  /\ det'[d].ref = det[d].ref /\ dev'[det'[d].ref] = dev[det[d].ref]
             /\ HeldBy(d) # None /\ HeldBy(d)' = HeldBy(d)
  <2>1. /\ HeldBy(d) # None /\ HeldBy(d)' = HeldBy(d) /\ det'[d].ref = det[d].ref
        /\ det[d].ref # None /\ dev[det[d].ref] # Absent
    BY <1>1 DEF Retains, Settled, Bound
  <2>2. det[d] \in DetectorObject
    BY <2>1 DEF HeldBy, Informed, OperatorTyped, StoreTyped, ObjectsTyped, MaybeDetector
  <2>3. det[d].ref \in Device
    BY <2>1, <2>2 DEF DetectorObject
  <2> QED
    BY <2>1, <2>3 DEF DevicesStay
<1>2. ASSUME NEW d \in Detector, Receives(d)
      PROVE  /\ d = run.name /\ HeldBy(d)' = run.obj.desired
             /\ pc = "spec" /\ run.name \in current /\ pc' # "spec"
             /\ dev'[det'[d].ref] = run.pool
  <2>1. /\ d = run.name /\ HeldBy(d)' = run.obj.desired /\ pc = "spec" /\ d \in current
        /\ det'[d].ref = det[d].ref /\ dev' = dev /\ OperatorWrite
    BY <1>2 DEF Receives
  <2>2. det[d].ref = run.obj.ref
    BY <2>1 DEF Informed, CopyCurrent, Fits
  <2>3. dev[run.obj.ref] = run.pool
    BY <2>1 DEF Settled, Placed
  <2>4. pc' # "spec"
    BY <2>1 DEF OperatorWrite, GoesOn, Ends
  <2> QED
    BY <2>1, <2>2, <2>3, <2>4
<1>3. \A d \in Detector : HeldBy(d)' = None \/ Retains(d) \/ Receives(d)
  BY AddressMoves DEF Settled
<1>4. UniqueHeld'
  <2> SUFFICES ASSUME NEW d \in Detector, NEW e \in Detector, d # e,
                      HeldBy(d)' # None, HeldBy(d)' = HeldBy(e)'
               PROVE  dev'[det'[d].ref] # dev'[det'[e].ref]
    BY DEF UniqueHeld
  <2>1. CASE Retains(d) /\ Retains(e)
    BY <1>1, <2>1 DEF UniqueHeld
  <2>2. CASE Receives(d) /\ Retains(e)
    <3>1. HeldBy(e) = run.obj.desired /\ e # run.name /\ run.obj.desired # None
      BY <1>1, <1>2, <2>2
    <3> QED
      BY <1>1, <1>2, <2>2, <3>1 DEF FreshUnique
  <2>3. CASE Retains(d) /\ Receives(e)
    <3>1. HeldBy(d) = run.obj.desired /\ d # run.name /\ run.obj.desired # None
      BY <1>1, <1>2, <2>3
    <3> QED
      BY <1>1, <1>2, <2>3, <3>1 DEF FreshUnique
  <2>4. CASE Receives(d) /\ Receives(e)
    BY <1>2, <2>4
  <2> QED
    BY <1>3, <2>1, <2>2, <2>3, <2>4
<1>5. FreshUnique'
  <2> SUFFICES ASSUME pc' = "spec", run'.name \in current', run'.obj.desired # None,
                      NEW e \in Detector, e # run'.name, HeldBy(e)' = run'.obj.desired
               PROVE  dev'[det'[e].ref] # run'.pool
    BY DEF FreshUnique
  <2>1. Retains(e)
    <3>1. ~Receives(e)
      BY <1>2
    <3> QED
      BY <1>3, <3>1
  <2>2. CASE pc = "spec" /\ run' = run /\ current' \subseteq current
    <3>1. HeldBy(e) = run.obj.desired /\ e # run.name /\ run.name \in current /\ run.obj.desired # None
      BY <1>1, <2>1, <2>2
    <3> QED
      BY <1>1, <2>1, <2>2, <3>1 DEF FreshUnique
  <2>3. ASSUME NEW new \in DetectorObject, Entry(new), Enters(new), current' = current,
               run'.name = run.name, run'.obj = new, run'.pool = run.pool
        PROVE  dev'[det'[e].ref] # run'.pool
    <3>1. pc = "list" /\ ListComplete
      BY <2>3 DEF Enters, ListsComplete
    <3>2. HeldBy(e) = new.desired /\ e # run.name /\ run.name \in current /\ new.desired # None
      BY <1>1, <2>1, <2>3
    <3>3. dev[det[e].ref] # run.pool
      BY <2>3, <3>1, <3>2, GrantedUnique
    <3> QED
      BY <1>1, <2>1, <2>3, <3>3
  <2> QED
    BY <2>2, <2>3, RunGoesOn
<1> QED
  BY <1>4, <1>5

LEMMA InitUnique ==
  ASSUME Init
  PROVE  UniqueHeld /\ FreshUnique /\ Acquainted
BY DEF Init, ControllerInit, UniqueHeld, FreshUnique, Acquainted, HeldBy

(* Two detectors of one pool never have the same address assigned, through *)
(* crashes, conflicts, lost answers and copies that are out of date, as    *)
(* long as devices stay with their pool and each list of the pool's        *)
(* detectors misses no event of another detector.  Nothing else needs to   *)
(* have reached the operator.                                              *)
THEOREM CompleteListsSuffice ==
  Spec /\ [][DevicesStay]_vars /\ [][ListsComplete]_vars => []UniqueAddress
<1> DEFINE Inv == /\ Informed /\ ManagerTyped /\ Held /\ Settled
                  /\ UniqueHeld /\ FreshUnique /\ Acquainted
<1>1. Init => Inv
  BY InitInformed, InitSettled, InitUnique
<1>2. Inv /\ [Next]_vars /\ [DevicesStay]_vars /\ [ListsComplete]_vars => Inv'
  <2> SUFFICES ASSUME Inv, [Next]_vars, [DevicesStay]_vars, [ListsComplete]_vars
               PROVE  Inv'
    OBVIOUS
  <2>1. DevicesStay /\ ListsComplete
    BY DEF DevicesStay, ListsComplete, vars, storeVars, controllerVars
  <2> QED
    BY <2>1, InformedStep, StepSettled, StepUnique, StepAcquainted
<1>3. Inv => UniqueAddress
  <2> SUFFICES ASSUME Inv, NEW d \in Detector, NEW e \in Detector,
                      det[d] # Absent, det[e] # Absent, d # e,
                      det[d].assigned # None, det[e].assigned # None,
                      dev[det[d].ref] = dev[det[e].ref]
               PROVE  det[d].assigned # det[e].assigned
    BY DEF UniqueAddress
  <2>1. HeldBy(d) = det[d].assigned /\ HeldBy(e) = det[e].assigned
    BY DEF HeldBy, AssignedAddress
  <2> QED
    BY <2>1 DEF UniqueHeld
<1> QED
  BY <1>1, <1>2, <1>3, PTL DEF Spec

(* In particular when the informers have caught up with everything as a    *)
(* reconcile reads.                                                        *)
LEMMA SyncedLists ==
  ASSUME Informed, [Next /\ (Reads => Lagging = {})]_vars
  PROVE  [Next]_vars /\ ListsComplete
<1> SUFFICES ASSUME pc = "list", pc' # "list"
             PROVE  ListComplete
  BY DEF ListsComplete
<1>1. Lagging = {}
  BY DEF Reads, vars, controllerVars
<1>2. "det" \in DOMAIN watch
  BY DEF Informed, OperatorTyped, StoreTyped, WatchTyped
<1>3. \A i \in DOMAIN watch.det : watch.det[i].name \in Lagging
  BY <1>2 DEF Lagging
<1> QED
  BY <1>1, <1>3 DEF ListComplete

THEOREM SyncedIsComplete == SyncedSpec => Spec /\ [][ListsComplete]_vars
<1>1. Init => Informed /\ ManagerTyped
  BY InitInformed
<1>2. Informed /\ ManagerTyped /\ [Next /\ (Reads => Lagging = {})]_vars
      => Informed' /\ ManagerTyped' /\ [Next]_vars /\ [ListsComplete]_vars
  BY SyncedLists, InformedStep
<1> QED
  BY <1>1, <1>2, PTL DEF SyncedSpec, Spec

(* So addresses are unique when the informers have caught up.              *)
THEOREM AddressAlwaysUnique == SyncedSpec /\ [][DevicesStay]_vars => []UniqueAddress
BY SyncedIsComplete, CompleteListsSuffice, PTL

-----------------------------------------------------------------------------
(***************************************************************************)
(* Reserved addresses, while nobody edits the configuration of a pool.     *)
(***************************************************************************)
ConfigStays == \A p \in PoolName : pools'[p].cfg = pools[p].cfg

ConfigKnown ==
  /\ \A p \in PoolName : InitialPools[p] # Absent => cache.pool[p].cfg = pools[p].cfg
  /\ \A i \in DOMAIN watch.pool : watch.pool[i].obj.cfg = pools[watch.pool[i].name].cfg
  /\ pc \in {"list", "spec"} => run.poolObj.cfg = pools[run.pool].cfg

(* An address about to be written is one the configuration lets this       *)
(* detector have.                                                          *)
MayHave(cfg, obj, a) ==
  a \in cfg.start .. cfg.end /\ (a \in Range(cfg.reserved) => obj.adopt /\ obj.observed = a)

FreshAllowed ==
  pc = "spec" /\ run.name \in current /\ HeldBy(run.name) = None /\ run.obj.desired # None =>
    MayHave(pools[run.pool].cfg, det[run.name], run.obj.desired)

LEMMA PoolEventsKept ==
  ASSUME StoreTyped, ConfigKnown, ConfigStays, NEW p \in PoolName, NEW obj, PoolTyped(p, obj),
         PutPool(p, obj), UNCHANGED cache
  PROVE  /\ \A q \in PoolName : InitialPools[q] # Absent => cache'.pool[q].cfg = pools'[q].cfg
         /\ \A i \in DOMAIN watch'.pool : watch'.pool[i].obj.cfg = pools'[watch'.pool[i].name].cfg
<1>1. /\ pools' = [x \in PoolName |-> IF x = p THEN obj ELSE pools[x]]
      /\ watch' = watch \/ watch'.pool = Append(watch.pool, Event(p, obj))
  BY PoolPut
<1>2. IsSeq(watch.pool) /\ \A i \in DOMAIN watch.pool : watch.pool[i].name \in PoolName
  BY DEF StoreTyped, WatchTyped, EventsTyped
<1>3. \A i \in DOMAIN watch.pool : watch.pool[i].obj.cfg = pools'[watch.pool[i].name].cfg
  BY <1>2 DEF ConfigKnown, ConfigStays
<1>4. \A i \in DOMAIN watch'.pool :
         (i \in DOMAIN watch.pool /\ watch'.pool[i] = watch.pool[i]) \/ watch'.pool[i] = Event(p, obj)
  <2>1. /\ DOMAIN Append(watch.pool, Event(p, obj)) = 1 .. (Len(watch.pool) + 1)
        /\ DOMAIN watch.pool = 1 .. Len(watch.pool) /\ Len(watch.pool) \in Nat
        /\ \A i \in DOMAIN watch.pool : Append(watch.pool, Event(p, obj))[i] = watch.pool[i]
        /\ Append(watch.pool, Event(p, obj))[Len(watch.pool) + 1] = Event(p, obj)
    BY <1>2, Appended
  <2> QED
    BY <1>1, <2>1
<1>5. Event(p, obj).obj.cfg = pools'[Event(p, obj).name].cfg
  BY <1>1 DEF Event
<1>6. \A q \in PoolName : InitialPools[q] # Absent => cache'.pool[q].cfg = pools'[q].cfg
  BY DEF ConfigKnown, ConfigStays
<1> QED
  BY <1>3, <1>4, <1>5, <1>6

LEMMA StepConfig ==
  ASSUME Informed, ConfigKnown, Steps, ConfigStays
  PROVE  ConfigKnown'
<1> DEFINE Followed == /\ \A q \in PoolName : InitialPools[q] # Absent => cache.pool[q].cfg = pools[q].cfg
                       /\ \A i \in DOMAIN watch.pool :
                            watch.pool[i].obj.cfg = pools[watch.pool[i].name].cfg
           Read == pc \in {"list", "spec"} => run.poolObj.cfg = pools[run.pool].cfg
<1>1. /\ StoreTyped /\ CacheTyped /\ RunTyped /\ IsSeq(watch.pool)
      /\ \A i \in DOMAIN watch.pool : watch.pool[i].name \in PoolName
  BY DEF Informed, OperatorTyped, StoreTyped, WatchTyped, EventsTyped
<1>2. ASSUME UNCHANGED cache, watch'.pool = watch.pool
      PROVE  Followed'
  BY <1>1, <1>2 DEF ConfigKnown, ConfigStays
<1>3. ASSUME pc \in {"list", "spec"}
      PROVE  run.poolObj.cfg = pools'[run.pool].cfg
  BY <1>1, <1>3 DEF ConfigKnown, ConfigStays, RunTyped
<1>4. Followed' /\ Read' => ConfigKnown'
  BY DEF ConfigKnown
<1>5. CASE OthersStep
  <2>1. UNCHANGED <<cache, pc, run>>
    BY <1>5 DEF OthersStep, controllerVars
  <2>2. Read'
    BY <1>3, <2>1
  <2>3. Followed'
    <3>1. CASE OutsideWrite
      BY <1>1, <1>2, <2>1, <3>1, DetectorPut DEF OutsideWrite, Outside
    <3>2. CASE PoolEdited
      <4>1. PICK p \in PoolName, cfg \in PoolEdits :
              pools[p] # Absent /\ PutPool(p, [pools[p] EXCEPT !.cfg = cfg])
        BY <3>2 DEF PoolEdited
      <4>2. PoolTyped(p, [pools[p] EXCEPT !.cfg = cfg])
        <5>1. PoolTyped(p, pools[p]) /\ cfg \in Configuration
          BY <1>1, SystemAssumption DEF StoreTyped, ObjectsTyped
        <5> QED
          BY <4>1, <5>1 DEF PoolTyped, IsPool
      <4> QED
        BY <1>1, <2>1, <4>1, <4>2, PoolEventsKept
    <3>3. CASE DeviceEdited
      <4>1. PICK v \in Device : \E p \in DeviceEdits \ {dev[v]} : PutDevice(v, p)
        BY <3>3 DEF DeviceEdited
      <4>2. watch'.pool = watch.pool
        BY <1>1, <4>1 DEF PutDevice, Publish, StoreTyped, WatchTyped
      <4> QED
        BY <1>2, <2>1, <4>2
    <3>4. CASE UNCHANGED storeVars
      BY <1>2, <2>1, <3>4 DEF storeVars
    <3> QED
      BY <1>5, <3>1, <3>2, <3>3, <3>4 DEF OthersStep
  <2> QED
    BY <1>4, <2>2, <2>3
<1>6. CASE Delivery
  <2>1. PICK kind \in {"det", "dev", "pool"} :
          /\ watch[kind] # <<>>
          /\ cache' = [cache EXCEPT ![kind][Head(watch[kind]).name] = Head(watch[kind]).obj]
          /\ watch' = [watch EXCEPT ![kind] = Tail(@)]
          /\ UNCHANGED <<pools, pc, run>>
    BY <1>6 DEF Delivery
  <2>2. Read'
    BY <1>3, <2>1
  <2>3. CASE kind # "pool"
    <3>1. watch'.pool = watch.pool /\ cache'.pool = cache.pool
      BY <1>1, <2>1, <2>3 DEF StoreTyped, WatchTyped, CacheTyped
    <3> QED
      BY <1>4, <2>1, <2>2, <3>1 DEF ConfigKnown
  <2>4. CASE kind = "pool"
    <3>1. /\ Head(watch.pool) = watch.pool[1] /\ 1 \in DOMAIN watch.pool
          /\ \A i \in DOMAIN Tail(watch.pool) : /\ i + 1 \in DOMAIN watch.pool
                                                /\ Tail(watch.pool)[i] = watch.pool[i + 1]
      BY <1>1, <2>1, <2>4, HeadAndTail
    <3>2. watch'.pool = Tail(watch.pool)
      BY <1>1, <2>1, <2>4 DEF StoreTyped, WatchTyped
    <3>3. cache'.pool = [cache.pool EXCEPT ![Head(watch.pool).name] = Head(watch.pool).obj]
      BY <1>1, <2>1, <2>4 DEF CacheTyped
    <3>4. cache.pool = [p \in PoolName |-> cache.pool[p]]
      BY <1>1 DEF CacheTyped, ObjectsTyped
    <3>5. Head(watch.pool).obj.cfg = pools[Head(watch.pool).name].cfg
      BY <3>1 DEF ConfigKnown
    <3>6. \A q \in PoolName : cache'.pool[q] = IF q = Head(watch.pool).name THEN Head(watch.pool).obj ELSE cache.pool[q]
      BY <3>3, <3>4
    <3>7. \A q \in PoolName : InitialPools[q] # Absent => cache'.pool[q].cfg = pools'[q].cfg
      BY <2>1, <3>5, <3>6 DEF ConfigKnown
    <3>8. \A i \in DOMAIN watch'.pool : watch'.pool[i].obj.cfg = pools'[watch'.pool[i].name].cfg
      BY <2>1, <3>1, <3>2 DEF ConfigKnown
    <3> QED
      BY <1>4, <2>2, <3>7, <3>8
  <2> QED
    BY <2>3, <2>4
<1>7. ASSUME NEW d \in Detector, Begin(d)
      PROVE  ConfigKnown'
  <2>1. UNCHANGED <<cache, watch, pools>> /\ pc' # "spec"
    BY <1>7 DEF Begin
  <2>2. pc' = "list" => \E p : p = cache.dev[cache.det[d].ref] /\ run'.pool = p /\ run'.poolObj = cache.pool[p]
    BY <1>7 DEF Begin, Reconcile
  <2>3. pc' = "list" => run'.pool \in PoolName /\ InitialPools[run'.pool] # Absent
    <3>1. Informed'
      BY <1>7, BeginInformed
    <3> QED
      BY <3>1 DEF Informed, OperatorTyped, RunTyped
  <2>4. Read'
    BY <2>1, <2>2, <2>3 DEF ConfigKnown
  <2> QED
    BY <1>2, <1>4, <2>1, <2>4
<1>8. CASE ListAndAllocate
  <2>1. PICK new \in DetectorObject : Enters(new)
    BY <1>8, Allocating DEF Informed
  <2>2. UNCHANGED <<cache, watch>> /\ pc = "list"
    BY <2>1 DEF Enters, Ends
  <2>3. pc' \in {"list", "spec"} => run'.pool = run.pool /\ run'.poolObj = run.poolObj
    BY <2>1 DEF Enters, Ends, Reconcile
  <2>4. Read'
    BY <1>3, <2>2, <2>3
  <2> QED
    BY <1>2, <1>4, <2>2, <2>4
<1>9. CASE OperatorWrite
  <2>1. PICK obj \in DetectorObject : PutDetector(run.name, obj) /\ run.name \in Detector
    <3>1. pc \in {"spec", "status", "fail"} /\ run.name \in current
      BY <1>9 DEF OperatorWrite
    <3> QED
      BY <1>9, <3>1, Written DEF OperatorWrite
  <2>2. watch'.pool = watch.pool
    BY <1>1, <2>1, DetectorPut DEF MaybeDetector
  <2>3. UNCHANGED cache /\ pc' \notin {"list", "spec"}
    BY <1>9 DEF OperatorWrite, GoesOn, Ends
  <2> QED
    BY <1>2, <1>4, <2>2, <2>3
<1>10. CASE PoolStatusWrite
  <2>1. /\ UNCHANGED cache /\ pc' \notin {"list", "spec"} /\ run.pool \in PoolName
        /\ InitialPools[run.pool] # Absent
        /\ PutPool(run.pool, [pools[run.pool] EXCEPT !.status = run.stats])
    BY <1>1, <1>10 DEF PoolStatusWrite, Ends, RunTyped
  <2>2. PoolTyped(run.pool, [pools[run.pool] EXCEPT !.status = run.stats])
    BY <1>1, <2>1 DEF StoreTyped, ObjectsTyped, PoolTyped, IsPool
  <2>3. Followed'
    BY <1>1, <2>1, <2>2, PoolEventsKept
  <2> QED
    BY <1>4, <2>1, <2>3
<1>11. CASE NoWrite
  BY <1>2, <1>4, <1>11 DEF NoWrite, Ends
<1>12. CASE RestartOperator
  <2>1. /\ cache'.pool = pools /\ pools' = pools /\ watch'.pool = <<>> /\ pc' = "idle"
    BY <1>12 DEF RestartOperator, NoEvents
  <2> QED
    BY <2>1 DEF ConfigKnown
<1> QED
  BY <1>5, <1>6, <1>7, <1>8, <1>9, <1>10, <1>11, <1>12 DEF Steps

LEMMA StepAllowed ==
  ASSUME Informed, ConfigKnown, FreshAllowed, Steps, ConfigStays
  PROVE  FreshAllowed'
<1> SUFFICES ASSUME NEW name, name = run'.name, pc' = "spec", name \in current', HeldBy(name)' = None,
                    run'.obj.desired # None
             PROVE  MayHave(pools[run'.pool].cfg, det'[name], run'.obj.desired)
  <2>1. pc' = "spec" => run'.pool \in PoolName
    BY StepInformed DEF Informed, OperatorTyped, RunTyped
  <2>2. FreshAllowed' <=>
          (pc' = "spec" /\ run'.name \in current' /\ run'.obj.desired # None
           /\ (\E name : name = run'.name /\ HeldBy(name)' = None) =>
             MayHave(pools'[run'.pool].cfg, det'[run'.name], run'.obj.desired))
    BY DEF FreshAllowed, HeldBy
  <2> QED
    BY <2>1, <2>2 DEF ConfigStays, MayHave
<1>1. CASE /\ pc = "spec" /\ run' = run /\ current' \subseteq current
           /\ run.name \in current' => det'[run.name] = det[run.name]
  BY <1>1 DEF FreshAllowed, HeldBy
<1>2. ASSUME NEW new \in DetectorObject, Entry(new), Enters(new), current' = current,
             run'.name = run.name, run'.obj = new, run'.pool = run.pool
      PROVE  MayHave(pools[run'.pool].cfg, det'[name], run'.obj.desired)
  <2>1. /\ pc = "list" /\ det' = det /\ run.name \in current /\ run.name \in Detector
        /\ run.obj = det[run.name] /\ run.obj # Absent
        /\ \A i \in DOMAIN watch.det : watch.det[i].name # run.name
    BY <1>2, SystemAssumption DEF Enters, Informed, CopyCurrent, OperatorTyped, RunTyped
  <2>2. run.poolObj.cfg = pools[run.pool].cfg
    BY <2>1 DEF ConfigKnown
  <2>3. cache.det[run.name] = det[run.name]
    BY <2>1 DEF Informed, Streamed, Follows
  <2>4. AssignedAddress(det[run.name]) = None
    BY <1>2, <2>1 DEF HeldBy
  <2>5. new.desired # run.obj.desired
    BY <1>2, <2>1, <2>4 DEF AssignedAddress
  <2>6. Grants(new.desired) /\ ~Listing(run.name)
    BY <1>2, <2>3, <2>4, <2>5 DEF Entry, Listing
  <2> QED
    BY <1>2, <2>1, <2>2, <2>6 DEF Grants, MayHave
<1> QED
  BY <1>1, <1>2, RunGoesOn

LEMMA InitAllowed ==
  ASSUME Init
  PROVE  ConfigKnown /\ FreshAllowed
<1>1. cache.pool = pools /\ watch.pool = <<>> /\ pc = "idle"
  BY DEF Init, ControllerInit, NoEvents
<1> QED
  BY <1>1 DEF ConfigKnown, FreshAllowed

(* What a step gives is an address the configuration lets the detector     *)
(* have.                                                                   *)
LEMMA AllowedToReceive ==
  ASSUME Informed, Settled, FreshAllowed, NEW d \in Detector, Receives(d), HeldBy(d)' # None
  PROVE  /\ det[d].ref \in Device /\ dev[det[d].ref] = run.pool /\ run.pool \in PoolName
         /\ MayHave(pools[run.pool].cfg, det[d], HeldBy(d)')
<1>1. /\ pc = "spec" /\ d = run.name /\ d \in current /\ HeldBy(d) = None
      /\ HeldBy(d)' = run.obj.desired
  BY DEF Receives
<1>2. det[d].ref = run.obj.ref /\ run.obj.ref \in Device /\ run.pool \in PoolName
  BY <1>1 DEF Informed, CopyCurrent, Fits, OperatorTyped, RunTyped
<1>3. dev[run.obj.ref] = run.pool
  BY <1>1 DEF Settled, Placed
<1>4. MayHave(pools[run.pool].cfg, det[d], run.obj.desired)
  BY <1>1 DEF FreshAllowed
<1> QED
  BY <1>1, <1>2, <1>3, <1>4

(* A reserved address of the pool is only ever given to the detector whose *)
(* module already reports it, and only if its object asks to adopt it,     *)
(* whatever the caches miss, as long as devices stay with their pools and  *)
(* nobody edits a pool's configuration.                                    *)
THEOREM ReservedNeverTaken ==
  Spec /\ [][DevicesStay]_vars /\ [][ConfigStays]_vars => ReservedOnlyAdopted
<1> DEFINE Inv == Informed /\ ManagerTyped /\ Held /\ Settled /\ ConfigKnown /\ FreshAllowed
           Adopted == \A d \in Detector :
                       /\ det[d] # Absent /\ det'[d] # Absent
                       /\ AssignedAddress(det[d]) = None /\ AssignedAddress(det'[d]) # None
                       => LET a == AssignedAddress(det'[d])
                              p == dev[det[d].ref]
                          IN  a \in Range(pools[p].cfg.reserved) => det[d].adopt /\ det[d].observed = a
<1>1. Init => Inv
  BY InitInformed, InitSettled, InitAllowed
<1>2. Inv /\ [Next]_vars /\ [DevicesStay]_vars /\ [ConfigStays]_vars => Inv' /\ [Adopted]_vars
  <2> SUFFICES ASSUME Inv, [Next]_vars, [DevicesStay]_vars, [ConfigStays]_vars
               PROVE  Inv' /\ Adopted
    OBVIOUS
  <2>1. DevicesStay /\ ConfigStays
    BY DEF DevicesStay, ConfigStays, vars, storeVars
  <2>2. Informed' /\ ManagerTyped' /\ Steps
    BY InformedStep
  <2>3. Inv'
    BY <2>1, <2>2, StepSettled, StepConfig, StepAllowed
  <2>4. Adopted
    <3> SUFFICES ASSUME NEW d \in Detector, det[d] # Absent, det'[d] # Absent,
                        AssignedAddress(det[d]) = None, AssignedAddress(det'[d]) # None,
                        AssignedAddress(det'[d]) \in Range(pools[dev[det[d].ref]].cfg.reserved)
                 PROVE  det[d].adopt /\ det[d].observed = AssignedAddress(det'[d])
      OBVIOUS
    <3>1. HeldBy(d) = None /\ HeldBy(d)' # None /\ HeldBy(d)' = AssignedAddress(det'[d])
      BY DEF HeldBy
    <3>2. Receives(d)
      BY <2>2, <3>1, AddressMoves DEF Retains, Settled
    <3>3. dev[det[d].ref] = run.pool /\ MayHave(pools[run.pool].cfg, det[d], HeldBy(d)')
      BY <3>1, <3>2, AllowedToReceive
    <3> QED
      BY <3>1, <3>3 DEF MayHave
  <2> QED
    BY <2>3, <2>4
<1> QED
  BY <1>1, <1>2, PTL DEF Spec, ReservedOnlyAdopted

-----------------------------------------------------------------------------
(***************************************************************************)
(* The abstract allocation, implemented by the operator over one pool when *)
(* its caches have caught up as it reads them.                             *)
(***************************************************************************)
Wants(d) == IF det[d] # Absent /\ det[d].adopt THEN det[d].observed ELSE None

Others(d) == \A e \in Detector : e # d => det'[e] = det[e]

(* A step that leaves a detector's address alone is a wish, whatever else  *)
(* it changes of the object; a deletion forgets it.                        *)
LEMMA WishesOrForgets ==
  ASSUME NEW d \in Detector, Others(d)
  PROVE  /\ HeldBy(d)' = HeldBy(d) => Allocation!Wish(d)
         /\ det'[d] = Absent => Allocation!Forget(d)
<1>1. \A e \in Detector : e # d => HeldBy(e)' = HeldBy(e) /\ Wants(e)' = Wants(e)
  BY DEF Others, HeldBy, Wants
<1>2. det'[d] = Absent => HeldBy(d)' = None /\ Wants(d)' = None
  BY DEF HeldBy, Wants
<1> HIDE DEF HeldBy
<1>3. HeldBy(d)' = HeldBy(d) => Allocation!Wish(d)
  BY <1>1 DEF Allocation!Wish, Wants
<1>4. det'[d] = Absent => Allocation!Forget(d)
  BY <1>1, <1>2 DEF Allocation!Forget, Wants
<1> QED
  BY <1>3, <1>4

(* An address that is given is free, in range, and not reserved for others. *)
LEMMA Gives ==
  ASSUME Informed, Settled, FreshUnique, FreshAllowed, PoolName = {OnePool},
         NEW d \in Detector, Receives(d), HeldBy(d)' # None
  PROVE  Allocation!Give(d)
<1>1. /\ pc = "spec" /\ d = run.name /\ d \in current /\ HeldBy(d) = None
      /\ HeldBy(d)' = run.obj.desired
      /\ det[d] \in DetectorObject /\ det'[d] \in DetectorObject
      /\ det'[d].adopt = det[d].adopt /\ det'[d].observed = det[d].observed
      /\ det' = [x \in Detector |-> IF x = d THEN det'[d] ELSE det[x]]
  BY DEF Receives
<1>2. run.pool = OnePool /\ MayHave(pools[OnePool].cfg, det[d], HeldBy(d)')
  BY AllowedToReceive
<1>3. ASSUME NEW e \in Detector, HeldBy(e) = HeldBy(d)'
      PROVE  FALSE
  <2>1. e # run.name
    BY <1>1, <1>3
  <2>2. dev[det[e].ref] # OnePool
    BY <1>1, <1>2, <1>3, <2>1 DEF FreshUnique
  <2>3. det[e].ref # None /\ dev[det[e].ref] # Absent
    BY <1>3 DEF Settled, Bound
  <2>4. det[e] \in DetectorObject
    BY <1>3 DEF HeldBy, Informed, OperatorTyped, StoreTyped, ObjectsTyped, MaybeDetector
  <2>5. det[e].ref \in Device
    BY <2>3, <2>4 DEF DetectorObject
  <2>6. dev[det[e].ref] \in PoolName
    BY <2>3, <2>5 DEF Informed, OperatorTyped, StoreTyped, ObjectsTyped
  <2> QED
    BY <2>2, <2>6
<1>4. Others(d)
  BY <1>1 DEF Others
<1>5. \A e \in Detector : e # d => HeldBy(e)' = HeldBy(e)
  BY <1>4 DEF Others, HeldBy
<1>6. \A e \in Detector : Wants(e)' = Wants(e)
  BY <1>1, <1>4, SystemAssumption DEF Others, Wants
<1>7. HeldBy(d)' \in Range(pools[OnePool].cfg.reserved) => Wants(d) = HeldBy(d)'
  BY <1>1, <1>2, SystemAssumption DEF MayHave, Wants
<1>8. HeldBy(d)' \in pools[OnePool].cfg.start .. pools[OnePool].cfg.end
  BY <1>2 DEF MayHave
<1> DEFINE held == [x \in Detector |-> HeldBy(x)]
           wants == [x \in Detector |-> Wants(x)]
           a == HeldBy(d)'
<1>9. held[d] = None /\ held' = [held EXCEPT ![d] = a] /\ UNCHANGED wants
  <2> HIDE DEF HeldBy, Wants
  <2> QED
    BY <1>1, <1>5, <1>6
<1>10. a \notin {held[x] : x \in Detector} \ {None}
  BY <1>3
<1> QED
  BY <1>7, <1>8, <1>9, <1>10 DEF Allocation!Give, Allocation!Taken, Wants

LEMMA AllocationStep ==
  ASSUME Informed, Held, Settled, FreshUnique, FreshAllowed, PoolName = {OnePool},
         Steps, DevicesStay, ConfigStays
  PROVE  [Allocation!Next]_(Allocation!allocVars)
<1>1. pools'[OnePool].cfg = pools[OnePool].cfg
  BY DEF ConfigStays
<1>2. ASSUME det' = det
      PROVE  UNCHANGED Allocation!allocVars
  BY <1>1, <1>2 DEF Allocation!allocVars, HeldBy
<1>3. ASSUME NEW d \in Detector, Allocation!Give(d) \/ Allocation!Forget(d) \/ Allocation!Wish(d)
      PROVE  Allocation!Next
  BY <1>1, <1>3 DEF Allocation!Next
<1>4. StoreTyped
  BY DEF Informed, OperatorTyped
<1>5. CASE OthersStep /\ OutsideWrite
  <2>1. PICK e \in Detector, obj \in MaybeDetector : Outside(e, obj) /\ Allowed(e, obj)
    BY <1>5 DEF OutsideWrite
  <2>2. det' = [x \in Detector |-> IF x = e THEN obj ELSE det[x]]
    BY <1>4, <2>1, DetectorPut DEF Outside
  <2>3. Others(e) /\ det'[e] = obj
    BY <2>2 DEF Others
  <2>4. obj = Absent \/ HeldBy(e)' = HeldBy(e)
    <3>1. CASE /\ det[e] = Absent
               /\ \E ref \in Device \cup {None}, labelled \in BOOLEAN, adopt \in BOOLEAN :
                     obj = NewDetector(ref, labelled, adopt)
      BY <2>3, <3>1 DEF NewDetector, HeldBy, AssignedAddress
    <3>2. CASE /\ det[e] # Absent /\ obj \in DetectorObject
               /\ obj.desired = det[e].desired /\ obj.assigned = det[e].assigned
      BY <2>3, <3>2, SystemAssumption DEF HeldBy, AssignedAddress
    <3> QED
      BY <2>1, <3>1, <3>2 DEF Allowed
  <2> QED
    BY <1>3, <2>3, <2>4, WishesOrForgets
<1>6. CASE OperatorWrite
  <2>1. PICK obj \in DetectorObject, d \in Detector : OwnWrite(obj) /\ d = run.name
    <3>1. PICK obj \in DetectorObject : OwnWrite(obj)
      BY <1>6, WriteHeld
    <3> QED
      BY <3>1 DEF OwnWrite
  <2>2. det' = [x \in Detector |-> IF x = d THEN obj ELSE det[x]]
    BY <1>4, <2>1, DetectorPut DEF OwnWrite, MaybeDetector
  <2>3. Others(d)
    BY <2>2 DEF Others
  <2>4. HeldBy(d)' = HeldBy(d) => Allocation!Wish(d)
    BY <2>3, WishesOrForgets
  <2>5. HeldBy(d)' = None \/ Retains(d) \/ Receives(d)
    BY AddressMoves DEF Settled
  <2>6. HeldBy(d)' = None => HeldBy(d) = None
    <3>1. /\ det'[d] = obj /\ obj # Absent /\ det[d] # Absent
          /\ \/ AssignedAddress(obj) = AssignedAddress(det[d])
             \/ AssignedAddress(det[d]) = None
      BY <2>1, <2>2, SystemAssumption DEF OwnWrite
    <3> QED
      BY <3>1 DEF HeldBy
  <2>7. HeldBy(d)' = HeldBy(d) \/ (Receives(d) /\ HeldBy(d)' # None)
    BY <2>5, <2>6 DEF Retains
  <2> QED
    BY <1>3, <2>4, <2>7, Gives
<1>7. CASE OthersStep /\ (PoolEdited \/ DeviceEdited \/ UNCHANGED storeVars)
  BY <1>2, <1>7 DEF PoolEdited, DeviceEdited, PutPool, PutDevice, storeVars
<1>8. CASE Delivery \/ (\E x \in Detector : Begin(x)) \/ ListAndAllocate
           \/ PoolStatusWrite \/ NoWrite \/ RestartOperator
  <2>1. det' = det
    BY <1>8 DEF Delivery, Begin, ListAndAllocate, PoolStatusWrite, PutPool, NoWrite, RestartOperator
  <2> QED
    BY <1>2, <2>1
<1> QED
  BY <1>5, <1>6, <1>7, <1>8 DEF Steps, OthersStep

(* With one pool that is not edited, devices that stay with it and lists   *)
(* that miss no event of another detector, everything operator, gateways   *)
(* and users do to the detectors, crashes and conflicts included, is the   *)
(* abstract allocation: an address is given once, free, in range, and kept *)
(* until the detector is deleted.                                          *)
THEOREM CompleteListsImplement ==
  ASSUME PoolName = {OnePool}
  PROVE  Spec /\ [][DevicesStay]_vars /\ [][ConfigStays]_vars /\ [][ListsComplete]_vars
         => ImplementsAllocation
<1> DEFINE Inv == /\ Informed /\ ManagerTyped /\ Held /\ Settled
                  /\ UniqueHeld /\ FreshUnique /\ Acquainted
                  /\ ConfigKnown /\ FreshAllowed
<1>1. Init => Inv /\ Allocation!Init
  <2>1. Init => Allocation!Init
    BY DEF Init, Allocation!Init, HeldBy
  <2> QED
    BY <2>1, InitInformed, InitSettled, InitUnique, InitAllowed
<1>2. Inv /\ [Next]_vars /\ [DevicesStay]_vars /\ [ConfigStays]_vars /\ [ListsComplete]_vars
      => Inv' /\ [Allocation!Next]_(Allocation!allocVars)
  <2> SUFFICES ASSUME Inv, [Next]_vars, [DevicesStay]_vars, [ConfigStays]_vars, [ListsComplete]_vars
               PROVE  Inv' /\ [Allocation!Next]_(Allocation!allocVars)
    OBVIOUS
  <2>1. DevicesStay /\ ConfigStays /\ ListsComplete
    BY DEF DevicesStay, ConfigStays, ListsComplete, vars, storeVars, controllerVars
  <2>2. Informed' /\ ManagerTyped' /\ Steps
    BY InformedStep
  <2>3. Inv'
    BY <2>1, <2>2, StepSettled, StepUnique, StepAcquainted, StepConfig, StepAllowed
  <2>4. [Allocation!Next]_(Allocation!allocVars)
    BY <2>1, <2>2, AllocationStep
  <2> QED
    BY <2>3, <2>4
<1> QED
  BY <1>1, <1>2, PTL DEF Spec, ImplementsAllocation, Allocation!Spec

(* In particular with caches that have caught up as a reconcile reads.     *)
THEOREM AllocationImplemented ==
  ASSUME PoolName = {OnePool}
  PROVE  SyncedSpec /\ [][DevicesStay]_vars /\ [][ConfigStays]_vars => ImplementsAllocation
BY SyncedIsComplete, CompleteListsImplement, PTL

(* The abstract allocation never gives an address to two detectors.        *)
THEOREM AllocationUnique == Allocation!Spec => []Allocation!Unique
<1>1. Allocation!Init => Allocation!Unique
  BY DEF Allocation!Init, Allocation!Unique
<1>2. Allocation!Unique /\ [Allocation!Next]_(Allocation!allocVars) => Allocation!Unique'
  <2> SUFFICES ASSUME Allocation!Unique, [Allocation!Next]_(Allocation!allocVars)
               PROVE  Allocation!Unique'
    OBVIOUS
  <2>1. ASSUME NEW d \in Detector, Allocation!Give(d) PROVE Allocation!Unique'
    <3>1. PICK a \in (pools[OnePool].cfg.start .. pools[OnePool].cfg.end) \ Allocation!Taken :
            [x \in Detector |-> HeldBy(x)]' = [[x \in Detector |-> HeldBy(x)] EXCEPT ![d] = a]
      BY <2>1 DEF Allocation!Give
    <3>2. \A x \in Detector : HeldBy(x)' = IF x = d THEN a ELSE HeldBy(x)
      BY <3>1
    <3>3. \A x \in Detector : HeldBy(x) # None => HeldBy(x) # a
      BY <3>1 DEF Allocation!Taken
    <3> QED
      BY <3>2, <3>3 DEF Allocation!Unique
  <2>2. ASSUME NEW d \in Detector, Allocation!Forget(d) PROVE Allocation!Unique'
    <3>1. \A x \in Detector : HeldBy(x)' = IF x = d THEN None ELSE HeldBy(x)
      BY <2>2 DEF Allocation!Forget
    <3> QED
      BY <3>1 DEF Allocation!Unique
  <2>3. CASE UNCHANGED [x \in Detector |-> HeldBy(x)]
    <3>1. \A x \in Detector : HeldBy(x)' = HeldBy(x)
      BY <2>3
    <3> QED
      BY <3>1 DEF Allocation!Unique
  <2> QED
    BY <2>1, <2>2, <2>3 DEF Allocation!Next, Allocation!Wish, Allocation!allocVars
<1> QED
  BY <1>1, <1>2, PTL DEF Allocation!Spec

-----------------------------------------------------------------------------
(***************************************************************************)
(* What the gateways say of the modules.  A report, or a copy of an        *)
(* object, may be older than what the module is configured with now, but   *)
(* only once that is what it should be.  Objects are only deleted when     *)
(* nothing older is left: no report under way, and about to be written, of *)
(* another address than the module's, and no gateway at work from a list   *)
(* with the object.                                                        *)
(***************************************************************************)
LeftAlone(g, d) ==
  /\ g.pc = "observe" /\ g.name = d => g.addr = hw[d]
  /\ g.pc \in {"pass", "poll"} => d \notin DOMAIN g.left

AtRest(d) ==
  /\ \A r \in reports : r[1] = d => r[2] = hw[d]
  /\ \A v \in Device : LeftAlone(gw[v], d)

DeletedAtRest == \A d \in Detector : det[d] # Absent /\ det'[d] = Absent => AtRest(d)

(* Of the object o and the address h that its module is configured with.   *)
Done(o, h) == o # Absent /\ o.desired = h

Seen(o, h, a) == a = h \/ Done(o, h)

Marked(o, h, obj) ==
  /\ obj.observed # None => Seen(o, h, obj.observed)
  /\ obj.phase = Applied => Done(o, h)

Copied(o, h, obj) == o # Absent /\ o.desired = obj.desired /\ Marked(o, h, obj)

GatewayTrue(ds, hs, g) ==
  /\ g.pc = "observe" => Seen(ds[g.name], hs[g.name], g.addr)
  /\ g.pc \in {"pass", "poll"} => \A d \in DOMAIN g.left : Copied(ds[d], hs[d], g.left[d])

PhaseTrue ==
  /\ pc = "spec" => run.obj.phase # Applied
  /\ (pc \in {"status", "fail"} /\ run.name \in current /\ run.obj.phase = Applied)
     => det[run.name].phase = Applied

Truthful ==
  /\ \A r \in reports : Seen(det[r[1]], hw[r[1]], r[2])
  /\ \A d \in Detector : det[d] # Absent => Marked(det[d], hw[d], det[d])
  /\ \A v \in Device : GatewayTrue(det, hw, gw[v])
  /\ PhaseTrue

(* The address a detector should have stays, once there is one.            *)
LEMMA DesiredStays ==
  ASSUME Informed, Held, Steps, NEW d \in Detector, det[d] # Absent, det'[d] # Absent, det[d].desired # None
  PROVE  det'[d].desired = det[d].desired
<1>1. DesiredFirst(det'[d]) /\ KeepsAddress(det[d], det'[d]) /\ DesiredFirst(det[d])
  BY AddressesKept DEF Held, AssignedIsDesired, DesiredFirst
<1> QED
  BY <1>1 DEF DesiredFirst, KeepsAddress, AssignedAddress

(* A module is only ever sent the address its object has.                  *)
LEMMA ModuleMoves ==
  ASSUME ManagerTyped, Truthful, [Next]_vars, NEW d \in Detector
  PROVE  hw'[d] = hw[d] \/ (det' = det /\ Done(det[d], hw'[d]))
<1>1. ASSUME NEW v \in Device, NEW e, gw[v].pc = "pass", e \in DOMAIN gw[v].left, SetModuleAddress(v, e)
      PROVE  hw'[d] = hw[d] \/ (det' = det /\ Done(det[d], hw'[d]))
  <2>1. det' = det /\ (hw' = hw \/ hw' = [hw EXCEPT ![e] = gw[v].left[e].desired])
    BY <1>1 DEF SetModuleAddress, storeVars
  <2>2. hw = [x \in Detector |-> hw[x]]
    BY DEF ManagerTyped
  <2>3. Done(det[e], gw[v].left[e].desired)
    BY <1>1 DEF Truthful, GatewayTrue, Copied, Done
  <2> QED
    BY <2>1, <2>2, <2>3
<1>2. ASSUME NEW v \in Device, Gateway(v)
      PROVE  hw'[d] = hw[d] \/ (det' = det /\ Done(det[d], hw'[d]))
  BY <1>1, <1>2 DEF Gateway, ManagerStep, PatchObserved, ReconcileOne, MarkApplied, PatchPolled
<1> QED
  BY <1>2 DEF Next, UserEdits, Informers, StartReconcile, StepReconcile, Reports, ModuleReports, Discovers,
     UpsertDiscovered, StartsPass, ReconcileAddresses, Faults, GatewayFails, vars, managerVars

Persists(d) ==
  /\ det[d] # Absent => det'[d] # Absent
  /\ Done(det[d], hw[d]) => Done(det'[d], hw'[d])
  /\ hw'[d] = hw[d] \/ Done(det'[d], hw'[d])

Goes(d) == det[d] # Absent /\ det'[d] = Absent /\ hw'[d] = hw[d] /\ AtRest(d)

LEMMA SeenPersists ==
  ASSUME Informed, ManagerTyped, Held, Truthful, [Next]_vars, Steps, DeletedAtRest
  PROVE  \A d \in Detector : Persists(d) \/ Goes(d)
<1> SUFFICES ASSUME NEW d \in Detector
             PROVE  Persists(d) \/ Goes(d)
  OBVIOUS
<1>1. hw[d] # None
  BY StoreAssumption DEF ManagerTyped, Addr
<1>2. hw'[d] = hw[d] \/ (det' = det /\ Done(det[d], hw'[d]))
  BY ModuleMoves
<1>3. CASE det[d] # Absent /\ det'[d] = Absent
  BY <1>2, <1>3 DEF Goes, DeletedAtRest
<1>4. CASE det[d] # Absent => det'[d] # Absent
  <2>1. Done(det[d], hw[d]) => Done(det'[d], hw[d])
    BY <1>1, <1>4, DesiredStays DEF Done
  <2> QED
    BY <1>2, <1>4, <2>1 DEF Persists
<1> QED
  BY <1>3, <1>4

LEMMA MarkedPersists ==
  ASSUME NEW d, Persists(d), NEW obj, Marked(det[d], hw[d], obj)
  PROVE  Marked(det'[d], hw'[d], obj)
BY DEF Marked, Seen, Persists

LEMMA CopiedPersists ==
  ASSUME Informed, Held, Steps, NEW d \in Detector, Persists(d),
         NEW obj, obj.desired # None, Copied(det[d], hw[d], obj)
  PROVE  Copied(det'[d], hw'[d], obj)
<1>1. det'[d] # Absent /\ det'[d].desired = obj.desired
  BY DesiredStays DEF Copied, Persists
<1>2. Marked(det'[d], hw'[d], obj)
  BY MarkedPersists DEF Copied
<1> QED
  BY <1>1, <1>2 DEF Copied

(* What is written of a module is true of it.                              *)
Marks == \A d \in Detector : det'[d] = det[d] \/ det'[d] = Absent \/ Marked(det[d], hw[d], det'[d])

LEMMA PutMarks ==
  ASSUME StoreTyped, NEW d \in Detector, NEW obj, PutDetector(d, obj),
         obj = det[d] \/ obj = Absent \/ Marked(det[d], hw[d], obj)
  PROVE  Marks
<1>1. \A e \in Detector : det'[e] = IF e = d THEN obj ELSE det[e]
  BY DEF PutDetector, StoreTyped, ObjectsTyped
<1> QED
  BY <1>1 DEF Marks

LEMMA PatchMarks ==
  ASSUME Informed, Truthful, NEW d \in Detector,
         NEW base \in DetectorObject, NEW new \in DetectorObject,
         SpecKept(base, new), PatchStatus(d, base, new),
         new.observed # base.observed => Seen(det[d], hw[d], new.observed),
         (new.phase # base.phase /\ new.phase = Applied /\ det[d] # Absent) => Done(det[d], hw[d])
  PROVE  Marks
<1>1. CASE det[d] = Absent
  BY <1>1 DEF PatchStatus, storeVars, Marks
<1>2. CASE det[d] # Absent
  <2> DEFINE obj == MergePatch(det[d], base, new)
  <2>1. det[d] \in DetectorObject /\ StoreTyped
    BY <1>2 DEF Informed, OperatorTyped, StoreTyped, ObjectsTyped, MaybeDetector
  <2>2. \A f \in {"observed", "phase", "message"} :
           obj[f] = IF new[f] # base[f] THEN new[f] ELSE det[d][f]
    BY <2>1, PatchedObject, ZenonT(60)
  <2>3. PutDetector(d, obj)
    BY <1>2 DEF PatchStatus
  <2> HIDE DEF obj
  <2>4. Marked(det[d], hw[d], det[d])
    BY <1>2 DEF Truthful
  <2>5. Marked(det[d], hw[d], obj)
    BY <1>2, <2>2, <2>4 DEF Marked
  <2> QED
    BY <2>1, <2>3, <2>5, PutMarks
<1> QED
  BY <1>1, <1>2

LEMMA GatewayMarks ==
  ASSUME Informed, ManagerTyped, Truthful, NEW v \in Device, ManagerStep(v)
  PROVE  Marks
<1>1. GatewayState(gw[v]) /\ GatewayTrue(det, hw, gw[v]) /\ 1 \in Addr
  BY DEF ManagerTyped, Truthful, Addr
<1>2. CASE UNCHANGED storeVars
  BY <1>2 DEF storeVars, Marks
<1>3. CASE PatchObserved(v)
  <2> DEFINE d == gw[v].name  base == gw[v].base  addr == gw[v].addr
             new == Observed(base, addr)
  <2>1. d \in Detector /\ base \in DetectorObject /\ addr \in Addr /\ Seen(det[d], hw[d], addr)
    BY <1>1, <1>3 DEF PatchObserved, GatewayState, GatewayTrue
  <2>2. PatchStatus(d, base, new)
    BY <1>3 DEF PatchObserved
  <2> HIDE DEF d, base, addr
  <2>3. new \in DetectorObject /\ SpecKept(base, new)
    BY <2>1, Patches
  <2>4. new.observed = addr /\ (new.phase # base.phase => new.phase = Pending)
    BY <2>1 DEF Observed, DetectorObject
  <2>5. Pending # Applied
    BY DEF Pending, Applied
  <2> HIDE DEF new
  <2> QED
    BY <2>1, <2>2, <2>3, <2>4, <2>5, PatchMarks
<1>4. ASSUME gw[v].pc = "pass", NEW d \in DOMAIN gw[v].left, MarkApplied(v, d)
      PROVE  Marks
  <2> DEFINE base == gw[v].left[d]
             new == [base EXCEPT !.phase = Applied, !.message = NoMessage]
  <2>1. /\ d \in Detector /\ base \in DetectorObject /\ base.desired # None
        /\ Copied(det[d], hw[d], base) /\ base.observed = base.desired
    BY <1>1, <1>4 DEF GatewayState, Lists, GatewayTrue, MarkApplied
  <2>2. UNCHANGED storeVars \/ PatchStatus(d, base, new)
    BY <1>4 DEF MarkApplied
  <2> HIDE DEF base
  <2>3. new \in DetectorObject /\ SpecKept(base, new) /\ new.observed = base.observed
    BY <1>1, <2>1, Patches DEF DetectorObject
  <2> HIDE DEF new
  <2>4. Done(det[d], hw[d])
    BY <2>1 DEF Copied, Marked, Seen, Done
  <2>5. CASE PatchStatus(d, base, new)
    BY <2>1, <2>3, <2>4, <2>5, PatchMarks
  <2> QED
    BY <1>2, <2>2, <2>5
<1>5. ASSUME NEW addr \in {hw[d] : d \in Detector} \cup {r[2] : r \in reports}, PatchPolled(v, addr)
      PROVE  Marks
  <2> DEFINE d == gw[v].name  base == gw[v].left[d]  new == Polled(base, addr)
  <2>1. /\ d \in Detector /\ base \in DetectorObject /\ Copied(det[d], hw[d], base)
    BY <1>1, <1>5 DEF PatchPolled, GatewayState, Lists, GatewayTrue
  <2>2. addr \in Addr
    BY DEF ManagerTyped
  <2>3. addr = hw[d] \/ <<d, addr>> \in reports
    BY <1>5 DEF PatchPolled
  <2>4. PatchStatus(d, base, new)
    BY <1>5 DEF PatchPolled
  <2> HIDE DEF d, base
  <2>5. Seen(det[d], hw[d], addr)
    <3>1. CASE addr = hw[d]
      BY <3>1 DEF Seen
    <3>2. CASE <<d, addr>> \in reports
      <4>1. <<d, addr>>[1] = d /\ <<d, addr>>[2] = addr
        OBVIOUS
      <4> QED
        BY <3>2, <4>1 DEF Truthful
    <3> QED
      BY <2>3, <3>1, <3>2
  <2>6. new \in DetectorObject /\ SpecKept(base, new)
    BY <2>1, <2>2, Patches
  <2>7. new.observed = addr /\ (new.phase = Applied => addr = base.desired)
    BY <2>1 DEF Polled, DetectorObject, Applied, Allocated
  <2>8. new.phase = Applied => Done(det[d], hw[d])
    BY <2>1, <2>5, <2>7 DEF Copied, Seen, Done
  <2> HIDE DEF new
  <2> QED
    BY <2>1, <2>4, <2>5, <2>6, <2>7, <2>8, PatchMarks
<1>6. ASSUME NEW d, SetModuleAddress(v, d)
      PROVE  Marks
  BY <1>2, <1>6 DEF SetModuleAddress
<1> QED
  BY <1>3, <1>4, <1>5, <1>6 DEF ManagerStep, ReconcileOne

LEMMA NewMarked ==
  ASSUME NEW ref, NEW labelled, NEW adopt, NEW o, NEW h
  PROVE  Marked(o, h, NewDetector(ref, labelled, adopt))
BY DEF Marked, NewDetector, NoPhase, Applied

LEMMA UpsertMarks ==
  ASSUME Informed, Truthful, NEW d \in Detector, NEW addr, UpsertDiscovered(d, addr)
  PROVE  Marks
<1> DEFINE obj == Upserted(DeviceOf[d], d)
<1>1. PutDetector(d, obj) /\ StoreTyped
  BY DEF UpsertDiscovered, Informed, OperatorTyped
<1>2. CASE det[d] = Absent
  <2>1. Marked(det[d], hw[d], obj)
    BY <1>2, NewMarked DEF Upserted
  <2> HIDE DEF obj
  <2> QED
    BY <1>1, <2>1, PutMarks
<1>3. CASE det[d] # Absent
  <2>1. det[d] \in DetectorObject /\ Marked(det[d], hw[d], det[d])
    BY <1>1, <1>3 DEF StoreTyped, ObjectsTyped, MaybeDetector, Truthful
  <2>2. obj.observed = det[d].observed /\ obj.phase = det[d].phase
    BY <1>3, <2>1 DEF Upserted, DetectorObject
  <2> HIDE DEF obj
  <2>3. Marked(det[d], hw[d], obj)
    BY <2>1, <2>2 DEF Marked
  <2> QED
    BY <1>1, <2>3, PutMarks
<1> QED
  BY <1>2, <1>3

(* The operator writes no phase Applied of its own.                        *)
LEMMA OperatorMarks ==
  ASSUME Informed, Held, Truthful, OperatorWrite
  PROVE  Marks
<1>1. pc \in {"spec", "status", "fail"} /\ run.name \in current
  BY DEF OperatorWrite
<1>2. /\ run.name \in Detector /\ det[run.name] \in DetectorObject /\ StoreTyped
      /\ SpecWritten.observed = det[run.name].observed
      /\ StatusWritten.observed = run.obj.observed /\ StatusWritten.phase = run.obj.phase
  BY <1>1, Written DEF Informed, OperatorTyped
<1>3. SpecWritten.phase = det[run.name].phase
  BY <1>2 DEF SpecWritten, DetectorObject
<1>4. Marked(det[run.name], hw[run.name], det[run.name])
  BY <1>2, SystemAssumption DEF Truthful
<1>5. CASE pc = "spec"
  <2>1. Marked(det[run.name], hw[run.name], SpecWritten)
    BY <1>2, <1>3, <1>4 DEF Marked
  <2>2. PutDetector(run.name, SpecWritten)
    BY <1>5 DEF OperatorWrite
  <2> QED
    BY <1>2, <2>1, <2>2, PutMarks
<1>6. CASE pc \in {"status", "fail"}
  <2>1. run.obj.observed = det[run.name].observed
    BY <1>1, <1>6 DEF Informed, CopyCurrent, InStep
  <2>2. run.obj.phase = Applied => det[run.name].phase = Applied
    BY <1>1, <1>6 DEF Truthful, PhaseTrue
  <2>3. Marked(det[run.name], hw[run.name], StatusWritten)
    BY <1>2, <1>4, <2>1, <2>2 DEF Marked
  <2>4. PutDetector(run.name, StatusWritten)
    BY <1>6 DEF OperatorWrite
  <2> QED
    BY <1>2, <2>3, <2>4, PutMarks
<1> QED
  BY <1>1, <1>5, <1>6

LEMMA StepMarks ==
  ASSUME Informed, ManagerTyped, Held, Truthful, [Next]_vars
  PROVE  Marks
<1>1. ASSUME det' = det
      PROVE  Marks
  BY <1>1 DEF Marks
<1>2. StoreTyped /\ AllTyped
  BY DEF Informed, OperatorTyped, AllTyped
<1>3. CASE UserEdits
  <2>1. ASSUME NEW d \in Detector, CreateDetector(d)
        PROVE  Marks
    <3>1. PICK ref \in {None, DeviceOf[d]}, adopt \in BOOLEAN : PutDetector(d, NewDetector(ref, FALSE, adopt))
      BY <2>1 DEF CreateDetector
    <3>2. Marked(det[d], hw[d], NewDetector(ref, FALSE, adopt))
      BY NewMarked
    <3> QED
      BY <1>2, <3>1, <3>2, PutMarks
  <2>2. ASSUME NEW d \in Detector, DeleteDetector(d)
        PROVE  Marks
    BY <1>2, <2>2, PutMarks DEF DeleteDetector
  <2> QED
    BY <1>1, <1>3, <2>1, <2>2 DEF UserEdits, EditPool, EditDevice, PutPool, PutDevice
<1>4. CASE OperatorWrite
  BY <1>4, OperatorMarks
<1>5. CASE StepReconcile
  <2>1. ListAndAllocate \/ OperatorWrite \/ PoolStatusWrite \/ NoWrite
    BY <1>2, <1>5, ReconcileSteps DEF StepReconcile
  <2> QED
    BY <1>1, <1>4, <2>1 DEF ListAndAllocate, PoolStatusWrite, PutPool, NoWrite
<1>6. CASE Faults
  <2>1. CASE WriteRefused \/ AnswerLost
    BY <1>1, <1>2, <1>4, <2>1, FaultSteps DEF NoWrite
  <2>2. CASE RestartOperator \/ \E v \in Device : GatewayFails(v)
    BY <1>1, <2>2 DEF RestartOperator, GatewayFails, storeVars
  <2> QED
    BY <1>6, <2>1, <2>2 DEF Faults
<1>7. ASSUME NEW d \in Detector, Discovers(d)
      PROVE  Marks
  BY <1>7, UpsertMarks DEF Discovers
<1>8. ASSUME NEW v \in Device, Gateway(v)
      PROVE  Marks
  BY <1>8, GatewayMarks DEF Gateway
<1>9. ASSUME NEW d \in Detector, StartReconcile(d) \/ Reports(d)
      PROVE  Marks
  BY <1>1, <1>9 DEF StartReconcile, Begin, Reports, ModuleReports, storeVars
<1>10. ASSUME NEW v \in Device, StartsPass(v)
       PROVE  Marks
  BY <1>1, <1>10 DEF StartsPass, ReconcileAddresses, storeVars
<1>11. CASE Informers \/ UNCHANGED vars
  BY <1>1, <1>11 DEF Informers, DeliverDetector, mapDeviceToDetectors, mapPoolToDetectors, Deliver, vars, storeVars
<1> QED
  BY <1>3, <1>5, <1>6, <1>7, <1>8, <1>9, <1>10, <1>11 DEF Next

LEMMA GatewayPersists ==
  ASSUME Informed, Held, Steps, NEW g, GatewayState(g), GatewayTrue(det, hw, g),
         \A d \in Detector : Persists(d) \/ (hw'[d] = hw[d] /\ LeftAlone(g, d))
  PROVE  GatewayTrue(det', hw', g)
<1>1. ASSUME g.pc = "observe"
      PROVE  Seen(det'[g.name], hw'[g.name], g.addr)
  <2>1. g.name \in Detector
    BY <1>1 DEF GatewayState
  <2> QED
    BY <1>1, <2>1 DEF GatewayTrue, Seen, Persists, LeftAlone
<1>2. ASSUME g.pc \in {"pass", "poll"}, NEW d \in DOMAIN g.left
      PROVE  Copied(det'[d], hw'[d], g.left[d])
  <2>1. d \in Detector /\ g.left[d].desired # None
    BY <1>2 DEF GatewayState, Lists
  <2>2. Copied(det[d], hw[d], g.left[d])
    BY <1>2 DEF GatewayTrue
  <2>3. Persists(d)
    BY <1>2, <2>1 DEF LeftAlone
  <2> QED
    BY <2>1, <2>2, <2>3, CopiedPersists
<1> QED
  BY <1>1, <1>2 DEF GatewayTrue

LEMMA ReportsPersist ==
  ASSUME ManagerTyped, Truthful, \A d \in Detector : Persists(d) \/ Goes(d), NEW r \in reports
  PROVE  Seen(det'[r[1]], hw'[r[1]], r[2])
<1>1. r[1] \in Detector
  BY DEF ManagerTyped
<1>2. CASE Persists(r[1])
  BY <1>2 DEF Truthful, Seen, Persists
<1>3. CASE Goes(r[1])
  BY <1>3 DEF Goes, AtRest, Seen
<1> QED
  BY <1>1, <1>2, <1>3

(* What a gateway goes on with is true of the modules.                     *)
LEMMA GatewaysTrue ==
  ASSUME Informed, ManagerTyped, Held, Truthful, [Next]_vars, Steps,
         \A d \in Detector : Persists(d) \/ Goes(d)
  PROVE  \A v \in Device : GatewayTrue(det', hw', gw'[v])
<1>1. /\ gw = [v \in Device |-> gw[v]] /\ \A v \in Device : GatewayState(gw[v])
      /\ \A v \in Device : GatewayTrue(det, hw, gw[v])
      /\ \A v \in Device : GatewayTrue(det', hw', gw[v])
  BY GatewayPersists DEF ManagerTyped, Truthful, Goes, AtRest
<1>2. ASSUME UNCHANGED gw
      PROVE  \A v \in Device : GatewayTrue(det', hw', gw'[v])
  BY <1>1, <1>2
<1>3. ASSUME NEW v \in Device, NEW state, Becomes(v, state), GatewayTrue(det', hw', state)
      PROVE  \A x \in Device : GatewayTrue(det', hw', gw'[x])
  BY <1>1, <1>3 DEF Becomes
<1>4. GatewayTrue(det', hw', Idle)
  BY DEF GatewayTrue, Idle
<1>5. ASSUME NEW v \in Device, NEW left, Continue(v, left),
             \A d \in DOMAIN left : Copied(det'[d], hw'[d], left[d])
      PROVE  \A x \in Device : GatewayTrue(det', hw', gw'[x])
  <2>1. GatewayTrue(det', hw', [pc |-> "pass", left |-> left])
    BY <1>5 DEF GatewayTrue
  <2> QED
    BY <1>3, <1>4, <1>5, <2>1 DEF Continue
<1>6. ASSUME NEW v \in Device, gw[v].pc \in {"pass", "poll"}, NEW d
      PROVE  /\ \A x \in DOMAIN gw[v].left : Copied(det'[x], hw'[x], gw[v].left[x])
             /\ \A x \in DOMAIN Unbind(gw[v].left, d) : Copied(det'[x], hw'[x], Unbind(gw[v].left, d)[x])
  BY <1>1, <1>6 DEF GatewayTrue, Unbind
<1>7. ASSUME NEW v \in Device, Gateway(v)
      PROVE  \A x \in Device : GatewayTrue(det', hw', gw'[x])
  <2>1. CASE PatchObserved(v)
    BY <1>3, <1>4, <2>1 DEF PatchObserved
  <2>2. ASSUME gw[v].pc = "pass", NEW d \in DOMAIN gw[v].left, MarkApplied(v, d)
        PROVE  \A x \in Device : GatewayTrue(det', hw', gw'[x])
    <3>1. Becomes(v, Idle) \/ Continue(v, Unbind(gw[v].left, d))
      BY <2>2 DEF MarkApplied
    <3> QED
      BY <1>3, <1>4, <1>5, <1>6, <2>2, <3>1
  <2>3. ASSUME gw[v].pc = "pass", NEW d, SetModuleAddress(v, d)
        PROVE  \A x \in Device : GatewayTrue(det', hw', gw'[x])
    <3>1. Becomes(v, [pc |-> "poll", name |-> d, left |-> gw[v].left])
      BY <2>3 DEF SetModuleAddress
    <3>2. GatewayTrue(det', hw', [pc |-> "poll", name |-> d, left |-> gw[v].left])
      BY <1>6, <2>3 DEF GatewayTrue
    <3> QED
      BY <1>3, <3>1, <3>2
  <2>4. ASSUME NEW addr, PatchPolled(v, addr)
        PROVE  \A x \in Device : GatewayTrue(det', hw', gw'[x])
    <3>1. gw[v].pc = "poll" /\ (Becomes(v, Idle) \/ Continue(v, Unbind(gw[v].left, gw[v].name)))
      BY <2>4 DEF PatchPolled
    <3> QED
      BY <1>3, <1>4, <1>5, <1>6, <3>1
  <2> QED
    BY <1>7, <2>1, <2>2, <2>3, <2>4 DEF Gateway, ManagerStep, ReconcileOne
<1>8. ASSUME NEW d \in Detector, Discovers(d)
      PROVE  \A x \in Device : GatewayTrue(det', hw', gw'[x])
  <2>1. PICK r \in reports : r[1] = d /\ UpsertDiscovered(d, r[2])
    BY <1>8 DEF Discovers
  <2>2. DeviceOf[d] \in Device
    BY StoreAssumption
  <2>3. Seen(det'[d], hw'[d], r[2])
    BY <2>1, ReportsPersist
  <2> DEFINE base == Upserted(DeviceOf[d], d)
  <2>4. \/ Becomes(DeviceOf[d], Idle)
        \/ Becomes(DeviceOf[d], [pc |-> "observe", name |-> d, addr |-> r[2], base |-> base])
    BY <2>1 DEF UpsertDiscovered
  <2> HIDE DEF base
  <2>5. GatewayTrue(det', hw', [pc |-> "observe", name |-> d, addr |-> r[2], base |-> base])
    BY <2>3 DEF GatewayTrue
  <2> QED
    BY <1>3, <1>4, <2>2, <2>4, <2>5
<1>9. ASSUME NEW v \in Device, StartsPass(v)
      PROVE  \A x \in Device : GatewayTrue(det', hw', gw'[x])
  <2>1. Becomes(v, [pc |-> "pass", left |-> [d \in ListedOf(v) |-> det[d]]]) /\ UNCHANGED <<det, hw>>
    BY <1>9 DEF StartsPass, ReconcileAddresses, storeVars
  <2>2. \A d \in ListedOf(v) : Copied(det[d], hw[d], det[d])
    BY DEF ListedOf, Copied, Truthful
  <2>3. GatewayTrue(det', hw', [pc |-> "pass", left |-> [d \in ListedOf(v) |-> det[d]]])
    BY <2>1, <2>2 DEF GatewayTrue
  <2> QED
    BY <1>3, <2>1, <2>3
<1>10. CASE Faults
  BY <1>2, <1>3, <1>4, <1>10 DEF Faults, GatewayFails, managerVars
<1>11. ASSUME NEW d \in Detector, StartReconcile(d) \/ Reports(d)
       PROVE  UNCHANGED gw
  BY <1>11 DEF StartReconcile, Reports, ModuleReports, managerVars
<1>12. CASE UserEdits \/ Informers \/ StepReconcile \/ UNCHANGED vars
  BY <1>2, <1>12 DEF UserEdits, Informers, StepReconcile, vars, managerVars
<1> QED
  BY <1>2, <1>7, <1>8, <1>9, <1>10, <1>11, <1>12 DEF Next

LEMMA ReportsTrue ==
  ASSUME ManagerTyped, Truthful, [Next]_vars, \A d \in Detector : Persists(d) \/ Goes(d)
  PROVE  \A r \in reports' : Seen(det'[r[1]], hw'[r[1]], r[2])
<1>1. \A r \in reports : Seen(det'[r[1]], hw'[r[1]], r[2])
  BY ReportsPersist
<1>2. ASSUME NEW d \in Detector, Reports(d), NEW r \in reports'
      PROVE  Seen(det'[r[1]], hw'[r[1]], r[2])
  <2>1. r \in reports \/ (r = <<d, hw[d]>> /\ hw' = hw)
    BY <1>2 DEF Reports, ModuleReports
  <2> QED
    BY <1>1, <2>1 DEF Seen
<1>3. (\E d \in Detector : Reports(d)) \/ reports' \subseteq reports
  BY DEF Next, UserEdits, Informers, StartReconcile, StepReconcile, Discovers, UpsertDiscovered,
     Gateway, ManagerStep, PatchObserved, ReconcileOne, MarkApplied, SetModuleAddress, PatchPolled,
     StartsPass, ReconcileAddresses, Faults, GatewayFails, vars, managerVars
<1> QED
  BY <1>1, <1>2, <1>3

LEMMA StepPhase ==
  ASSUME Informed, Truthful, Steps
  PROVE  PhaseTrue'
<1>1. Allocated # Applied /\ Failed # Applied /\ NoPhase # Applied
  BY DEF Allocated, Applied, Failed, NoPhase
<1>2. CASE pc' \notin {"spec", "status", "fail"}
  BY <1>2 DEF PhaseTrue
<1>3. CASE OthersStep /\ pc # "idle"
  BY <1>3, OthersLeave DEF PhaseTrue, Truthful
<1>4. CASE OthersStep /\ pc = "idle"
  BY <1>2, <1>4 DEF OthersStep, controllerVars
<1>5. CASE Delivery
  BY <1>5 DEF Delivery, PhaseTrue, Truthful
<1>6. ASSUME NEW d \in Detector, Begin(d)
      PROVE  PhaseTrue'
  <2>1. pc' \in {"idle", "list", "fail"}
    BY <1>6 DEF Begin
  <2>2. ASSUME pc' = "fail"
        PROVE  run'.obj.phase = Failed
    <3> DEFINE With(message) == [cache.det[d] EXCEPT !.phase = Failed, !.message = message]
    <3>1. run'.obj \in {With(NoDeviceRef), With(NoDevice), With(NoPool)}
      BY <1>6, <2>2 DEF Begin, Reconcile
    <3>2. cache.det[d] \in DetectorObject
      BY <1>6, <2>2 DEF Begin, Informed, OperatorTyped, CacheTyped, ObjectsTyped, MaybeDetector
    <3> QED
      BY <3>1, <3>2 DEF DetectorObject
  <2> QED
    BY <1>1, <2>1, <2>2 DEF PhaseTrue
<1>7. CASE ListAndAllocate
  <2>1. PICK new \in DetectorObject : Entry(new) /\ Enters(new)
    BY <1>7, Allocating DEF Informed
  <2>2. pc' \in {"idle", "pool"} \/ run'.obj = new
    BY <2>1 DEF Enters, Ends, Reconcile
  <2>3. new.phase # Applied
    BY <1>1, <2>1 DEF Entry
  <2> QED
    BY <2>2, <2>3 DEF PhaseTrue
<1>8. CASE OperatorWrite
  <2>1. CASE pc' = "status"
    <3>1. /\ pc = "spec" /\ run.name \in current /\ PutDetector(run.name, SpecWritten)
          /\ run' = [run EXCEPT !.obj = DecodedInto(run.obj, SpecWritten)]
      BY <1>8, <2>1 DEF OperatorWrite, GoesOn, Ends
    <3>2. /\ run.name \in Detector /\ run.obj \in DetectorObject /\ SpecWritten \in DetectorObject
          /\ StoreTyped /\ det[run.name] \in DetectorObject
      BY <3>1, Written DEF Informed, OperatorTyped, RunTyped
    <3>3. run'.name = run.name /\ run'.obj = DecodedInto(run.obj, SpecWritten)
      BY <3>1 DEF Informed, OperatorTyped, RunTyped, Reconcile
    <3>4. det'[run.name] = SpecWritten
      BY <3>1, <3>2 DEF PutDetector, StoreTyped, ObjectsTyped
    <3> DEFINE local == run.obj  server == SpecWritten
    <3>5. DecodedInto(local, server).phase = IF server.phase # NoPhase THEN server.phase ELSE local.phase
      BY <3>2 DEF DecodedInto, DetectorObject
    <3>6. local.phase # Applied
      BY <3>1 DEF Truthful, PhaseTrue
    <3> QED
      BY <1>1, <2>1, <3>3, <3>4, <3>5, <3>6 DEF PhaseTrue
  <2> QED
    BY <1>2, <1>8, <2>1 DEF OperatorWrite, GoesOn, Ends
<1>9. CASE PoolStatusWrite \/ NoWrite \/ RestartOperator
  BY <1>2, <1>9 DEF PoolStatusWrite, NoWrite, RestartOperator, Ends
<1> QED
  BY <1>3, <1>4, <1>5, <1>6, <1>7, <1>8, <1>9 DEF Steps

LEMMA StepTruthful ==
  ASSUME Informed, ManagerTyped, Held, Truthful, [Next]_vars, Steps, DeletedAtRest
  PROVE  Truthful'
<1>1. \A d \in Detector : Persists(d) \/ Goes(d)
  BY SeenPersists
<1>2. Marks
  BY StepMarks
<1>3. ASSUME NEW d \in Detector, det'[d] # Absent
      PROVE  Marked(det'[d], hw'[d], det'[d])
  <2>1. Marked(det[d], hw[d], det'[d])
    BY <1>2, <1>3 DEF Marks, Truthful
  <2>2. Persists(d)
    BY <1>1, <1>3 DEF Goes
  <2> QED
    BY <2>1, <2>2, MarkedPersists
<1>4. \A v \in Device : GatewayTrue(det', hw', gw'[v])
  BY <1>1, GatewaysTrue
<1>5. \A r \in reports' : Seen(det'[r[1]], hw'[r[1]], r[2])
  BY <1>1, ReportsTrue
<1>6. PhaseTrue'
  BY StepPhase
<1> QED
  BY <1>3, <1>4, <1>5, <1>6 DEF Truthful

LEMMA InitTruthful ==
  ASSUME Init
  PROVE  Truthful
<1>1. /\ det = [d \in Detector |-> Absent] /\ reports = {} /\ pc = "idle"
      /\ \A v \in Device : gw[v] = Idle
  BY DEF Init, ControllerInit, ManagerInit
<1> QED
  BY <1>1 DEF Truthful, GatewayTrue, Idle, PhaseTrue

(* Phase Applied means that the module is configured with the desired      *)
(* address, although the gateway says so from an object it listed earlier  *)
(* and from reports that may be old, and the operator writes phases from   *)
(* copies of its own; as long as a detector is only deleted while no       *)
(* gateway is at work on it and no older report of its module is under     *)
(* way.                                                                    *)
THEOREM AppliedAlwaysConfigured ==
  Spec /\ [][SameDevice]_vars /\ [][DeletedAtRest]_vars => []AppliedIsConfigured
<1> DEFINE Inv == Informed /\ ManagerTyped /\ Held /\ Truthful
<1>1. Init => Inv
  BY InitInformed, InitHeld, InitTruthful
<1>2. Inv /\ [Next]_vars /\ [SameDevice]_vars /\ [DeletedAtRest]_vars => Inv'
  <2> SUFFICES ASSUME Inv, [Next]_vars, [SameDevice]_vars, [DeletedAtRest]_vars
               PROVE  Inv'
    OBVIOUS
  <2>1. SameDevice /\ DeletedAtRest
    BY DEF SameDevice, DeletedAtRest, vars, controllerVars, storeVars
  <2> QED
    BY <2>1, InformedStep, StepHeld, StepTruthful
<1>3. Inv => AppliedIsConfigured
  BY DEF Truthful, Marked, Done, AppliedIsConfigured
<1> QED
  BY <1>1, <1>2, <1>3, PTL DEF Spec

-----------------------------------------------------------------------------
(***************************************************************************)
(* The count in the status of a pool.  First, what an allocation counts:   *)
(* of a list without duplicates there are as many addresses as owners.     *)
(***************************************************************************)
AddressesOf(as, n) == {as[i].address : i \in 1 .. n}
OwnersOf(as, n)    == {as[i].owner : i \in 1 .. n}

LEMMA OwnersAndAddresses ==
  ASSUME NEW n \in Nat, NEW as, Distinct(as, 1 .. n)
  PROVE  /\ IsFiniteSet(AddressesOf(as, n)) /\ IsFiniteSet(OwnersOf(as, n))
         /\ Cardinality(AddressesOf(as, n)) = Cardinality(OwnersOf(as, n))
<1>1. IsFiniteSet(1 .. n)
  <2>1. 1 \in Int /\ n \in Int
    OBVIOUS
  <2> QED
    BY <2>1, FS_Interval
<1> DEFINE A == {as[i].address : i \in 1 .. n}
           O == {as[i].owner : i \in 1 .. n}
           f == [i \in 1 .. n |-> as[i].address]
           g == [i \in 1 .. n |-> as[i].owner]
<1>2. /\ f \in [1 .. n -> A] /\ \A y \in A : \E i \in 1 .. n : f[i] = y
      /\ \A i, j \in 1 .. n : f[i] = f[j] => i = j
  BY DEF Distinct
<1>3. /\ g \in [1 .. n -> O] /\ \A y \in O : \E i \in 1 .. n : g[i] = y
      /\ \A i, j \in 1 .. n : g[i] = g[j] => i = j
  BY DEF Distinct
<1> HIDE DEF A, O, f, g
<1>4. ExistsBijection(1 .. n, A)
  <2>1. f \in Bijection(1 .. n, A)
    BY <1>2 DEF Bijection, Injection, Surjection, IsInjective
  <2> QED
    BY <2>1 DEF ExistsBijection
<1>5. ExistsBijection(1 .. n, O)
  <2>1. g \in Bijection(1 .. n, O)
    BY <1>3 DEF Bijection, Injection, Surjection, IsInjective
  <2> QED
    BY <2>1 DEF ExistsBijection
<1>6. IsFiniteSet(A) /\ Cardinality(A) = Cardinality(1 .. n)
  BY <1>1, <1>4, FS_Bijection
<1>7. IsFiniteSet(O) /\ Cardinality(O) = Cardinality(1 .. n)
  BY <1>1, <1>5, FS_Bijection
<1>8. A = AddressesOf(as, n) /\ O = OwnersOf(as, n)
  BY DEF A, O, AddressesOf, OwnersOf
<1> QED
  BY <1>6, <1>7, <1>8

(* A result with an address counts the listed owners and the detector.     *)
Counts(as, n, d, r) ==
  /\ r.stats # NoStats
  /\ r.stats.allocated = Cardinality({as[i].owner : i \in 1 .. n} \cup {d})

LEMMA AllocationCounts ==
  ASSUME NEW cfg \in Configuration, NEW as, NEW n \in Nat, Len(as) = n,
         NEW d \in Detector, NEW obj \in DetectorObject,
         NEW r, r = allocateDetectorAddress(cfg, Rebuild(New(cfg), as), d, obj)
  PROVE  /\ r.phase = Allocated => Counts(as, n, d, r)
         /\ r.phase # Allocated => r.stats = NoStats
<1> DEFINE rebuilt == Rebuild(New(cfg), as)
           p == rebuilt.pool
           owners == {as[i].owner : i \in 1 .. n}
<1>1. ASSUME NEW err, r = Failure(err)
      PROVE  r.phase # Allocated /\ r.stats = NoStats
  BY <1>1 DEF Failure, Failed, Allocated
<1>2. CASE ~Validate(cfg) \/ rebuilt.err # OK
  <2>1. r = Failure(ErrInvalidConfig) \/ r = Failure(rebuilt.err)
    BY <1>2 DEF allocateDetectorAddress
  <2> QED
    BY <1>1, <2>1
<1>3. CASE Validate(cfg) /\ rebuilt.err = OK
  <2>1. /\ Distinct(as, 1 .. n)
        /\ Holds(p, cfg, as, 1 .. n)
    <3>1. New(cfg).cfg = cfg
      BY DEF New
    <3> QED
      BY <1>3, <3>1, RebuiltWhole
  <2> HIDE DEF rebuilt, p
  <2>2. /\ p.cfg = cfg /\ DOMAIN p.addrByOwner = owners
        /\ DOMAIN p.ownerByAddr = {as[i].address : i \in 1 .. n}
    BY <2>1 DEF Holds
  <2>3. /\ IsFiniteSet(DOMAIN p.ownerByAddr) /\ IsFiniteSet(owners)
        /\ Cardinality(DOMAIN p.ownerByAddr) = Cardinality(owners)
    <3>1. Distinct(as, 1 .. n)
      BY <2>1
    <3>2. /\ IsFiniteSet(AddressesOf(as, n)) /\ IsFiniteSet(OwnersOf(as, n))
          /\ Cardinality(AddressesOf(as, n)) = Cardinality(OwnersOf(as, n))
      BY <3>1, OwnersAndAddresses
    <3>3. DOMAIN p.ownerByAddr = AddressesOf(as, n) /\ owners = OwnersOf(as, n)
      BY <2>2 DEF AddressesOf, OwnersOf
    <3> QED
      BY <3>2, <3>3
  <2> HIDE DEF owners
  <2>4. ASSUME NEW q, NEW a, r = Success(q, a), q.cfg = cfg,
               Cardinality(DOMAIN q.ownerByAddr) = Cardinality(owners \cup {d})
        PROVE  r.phase = Allocated /\ Counts(as, n, d, r)
    <3>1. r.phase = Allocated /\ r.stats = Stats(q)
      BY <2>4 DEF Success
    <3>2. Stats(q).allocated = Cardinality(owners \cup {d}) /\ Stats(q).rangeSize = cfg.end - cfg.start + 1
      BY <2>4 DEF Stats
    <3>3. cfg.end - cfg.start + 1 # 0
      BY <1>3 DEF Configuration, Validate
    <3>4. NoStats.rangeSize = 0
      BY DEF NoStats
    <3>5. Stats(q) # NoStats
      BY <3>2, <3>3, <3>4
    <3> QED
      BY <3>1, <3>2, <3>5 DEF Counts, owners
  <2>5. ASSUME NEW a, a \notin DOMAIN p.ownerByAddr, d \notin owners, r = Success(Bind(p, d, a), a)
        PROVE  r.phase = Allocated /\ Counts(as, n, d, r)
    <3>1. Bind(p, d, a).cfg = cfg /\ DOMAIN Bind(p, d, a).ownerByAddr = DOMAIN p.ownerByAddr \cup {a}
      BY <2>2 DEF Bind, Put
    <3>2. Cardinality(DOMAIN p.ownerByAddr \cup {a}) = Cardinality(DOMAIN p.ownerByAddr) + 1
      BY <2>3, <2>5, FS_AddElement
    <3>3. Cardinality(owners \cup {d}) = Cardinality(owners) + 1
      BY <2>3, <2>5, FS_AddElement
    <3>4. Cardinality(DOMAIN Bind(p, d, a).ownerByAddr) = Cardinality(owners \cup {d})
      BY <2>3, <3>1, <3>2, <3>3
    <3> QED
      BY <2>4, <2>5, <3>1, <3>4
  <2>6. CASE d \in owners
    <3>1. r = Success(p, p.addrByOwner[d])
      BY <1>3, <2>2, <2>6 DEF allocateDetectorAddress, rebuilt, p
    <3>2. owners \cup {d} = owners
      BY <2>6
    <3> QED
      BY <2>2, <2>3, <2>4, <3>1, <3>2
  <2>7. CASE d \notin owners
    <3>1. CASE obj.adopt /\ obj.observed # None /\ IsAvailable(p, obj.observed)
      <4>1. \/ r = Failure(Claim(p, d, obj.observed).err)
            \/ Claim(p, d, obj.observed).err = OK /\ r = Success(Claim(p, d, obj.observed).pool, obj.observed)
        BY <1>3, <2>2, <2>7, <3>1 DEF allocateDetectorAddress, rebuilt, p
      <4>2. Claim(p, d, obj.observed).err = OK => Claim(p, d, obj.observed).pool = Bind(p, d, obj.observed)
        BY DEF Claim
      <4>3. obj.observed \notin DOMAIN p.ownerByAddr
        BY <3>1 DEF IsAvailable
      <4>4. CASE r = Failure(Claim(p, d, obj.observed).err)
        BY <1>1, <4>4
      <4> QED
        BY <2>5, <2>7, <4>1, <4>2, <4>3, <4>4
    <3>2. CASE ~(obj.adopt /\ obj.observed # None /\ IsAvailable(p, obj.observed))
      <4>1. \/ r = Failure(Allocate(p, d).err)
            \/ Allocate(p, d).err = OK /\ r = Success(Allocate(p, d).pool, Allocate(p, d).addr)
        BY <1>3, <2>2, <2>7, <3>2 DEF allocateDetectorAddress, rebuilt, p
      <4>2. CASE r = Failure(Allocate(p, d).err)
        BY <1>1, <4>2
      <4>3. CASE Allocate(p, d).err = OK /\ r = Success(Allocate(p, d).pool, Allocate(p, d).addr)
        <5>1. d # NoOwner
          BY StoreAssumption
        <5>2. Available(p) # {}
          BY <2>2, <2>7, <4>3, <5>1 DEF Allocate, OK, ErrNoAddressAvailable
        <5>3. Allocate(p, d).addr = Min(Available(p)) /\ Allocate(p, d).pool = Bind(p, d, Min(Available(p)))
          BY <2>2, <2>7, <5>1, <5>2 DEF Allocate
        <5>4. /\ Available(p) \in SUBSET Nat
              /\ Available(p) = (cfg.start .. cfg.end) \ (DOMAIN p.ownerByAddr \cup Range(cfg.reserved))
          <6>1. p.cfg.start \in Nat /\ p.cfg.end \in Nat
            BY <2>2 DEF Configuration
          <6> QED
            BY <2>2, <6>1, FreeAddresses
        <5>5. Min(Available(p)) \in Available(p)
          BY <5>2, <5>4, MinExists
        <5>6. Min(Available(p)) \notin DOMAIN p.ownerByAddr
          BY <5>4, <5>5
        <5> QED
          BY <2>5, <2>7, <4>3, <5>3, <5>6
      <4> QED
        BY <4>1, <4>2, <4>3
    <3> QED
      BY <3>1, <3>2
  <2> QED
    BY <2>6, <2>7
<1> QED
  BY <1>2, <1>3

LEMMA OwnersListed ==
  ASSUME NEW as \in SetToSeqs(AssignmentsOf(run.pool)), NEW n \in Nat, Len(as) = n
  PROVE  {as[i].owner : i \in 1 .. n} = {d \in Detector : Listing(d)}
<1>1. PICK m \in Nat : Enumerates(as, m, AssignmentsOf(run.pool))
  <2>1. IsFiniteSet(AssignmentsOf(run.pool))
    BY AssignmentsFinite
  <2> QED
    BY <2>1, Listed
<1>2. /\ \A i \in 1 .. n : as[i] \in AssignmentsOf(run.pool)
      /\ \A x \in AssignmentsOf(run.pool) : \E i \in 1 .. n : as[i] = x
  BY <1>1 DEF Enumerates
<1>3. ASSUME NEW d \in Detector, Listing(d)
      PROVE  \E i \in 1 .. n : as[i].owner = d
  <2>1. [owner |-> d, address |-> AssignedAddress(cache.det[d])] \in AssignmentsOf(run.pool)
    BY <1>3 DEF Listing, AssignmentsOf
  <2>2. PICK i \in 1 .. n : as[i] = [owner |-> d, address |-> AssignedAddress(cache.det[d])]
    BY <1>2, <2>1
  <2>3. as[i].owner = d
    BY <2>2
  <2> QED
    BY <2>3
<1>4. ASSUME NEW i \in 1 .. n
      PROVE  as[i].owner \in Detector /\ Listing(as[i].owner)
  <2>1. as[i] \in AssignmentsOf(run.pool)
    BY <1>2
  <2>2. PICK d \in {x \in PoolDetectors(run.pool) : AssignedAddress(cache.det[x]) # None} :
          as[i] = [owner |-> d, address |-> AssignedAddress(cache.det[d])]
    BY <2>1 DEF AssignmentsOf
  <2>3. d \in Detector /\ Listing(d)
    BY <2>2 DEF Listing, PoolDetectors
  <2>4. as[i].owner = d
    BY <2>2
  <2> QED
    BY <2>3, <2>4
<1> QED
  BY <1>3, <1>4

(* What the list brings: an address and a count of all that are listed, or *)
(* a failure and no count.                                                 *)
Answers(new, stats) ==
  IF stats = NoStats THEN new.phase = Failed
  ELSE /\ new.assigned # None
       /\ stats.allocated = Cardinality({d \in Detector : Listing(d)} \cup {run.name})

(* The reconcile goes on to write what has changed, the pool's status last. *)
ListEnds(new, stats) ==
  /\ UNCHANGED <<det, dev, pools, watch, cache, queue>>
  /\ new.ref = run.obj.ref
  /\ \/ /\ pc' \in {"spec", "status"} /\ current' = current
        /\ \E changed : run' = Reconcile(run.name, new, run.pool, run.poolObj, changed, stats)
        /\ pc' = "spec" => SpecOf(new) # SpecOf(run.obj)
        /\ pc' = "status" => StatusOf(new) # StatusOf(run.obj)
     \/ /\ pc' = "pool" /\ current' = current
        /\ \E changed : run' = Reconcile(run.name, new, run.pool, run.poolObj, changed, stats)
        /\ StatusOf(new) = StatusOf(run.obj) /\ stats # NoStats
     \/ /\ pc' = "idle" /\ run' = NoRun /\ current' = {}
        /\ StatusOf(new) = StatusOf(run.obj)
        /\ stats = NoStats \/ run.poolObj.status = stats

LEMMA ListOutcome ==
  ASSUME OperatorTyped, ListAndAllocate
  PROVE  \E new \in DetectorObject : \E stats : Answers(new, stats) /\ ListEnds(new, stats)
<1>1. /\ pc = "list" /\ run.name \in Detector /\ run.obj \in DetectorObject
      /\ run = Reconcile(run.name, run.obj, run.pool, run.poolObj, run.statusChanged, run.stats)
      /\ run.poolObj.cfg \in Configuration
  BY DEF ListAndAllocate, OperatorTyped, RunTyped, IsPool
<1> DEFINE cfg == run.poolObj.cfg
<1>2. PICK as \in SetToSeqs(AssignmentsOf(run.pool)) : \E result \in AllocationsFrom(as) :
        \E new \in {Entered(run.obj, result)} :
          LET r == [run EXCEPT !.obj = new, !.stats = result.stats,
                               !.statusChanged = StatusOf(new) # StatusOf(run.obj)]
          IN  IF SpecOf(new) # SpecOf(run.obj) THEN Goto("spec", r) /\ UNCHANGED current
              ELSE IF r.statusChanged THEN Goto("status", r) /\ UNCHANGED current
              ELSE PoolStatusOrFinish(r)
  BY DEF ListAndAllocate
<1>3. PICK result : /\ result = allocateDetectorAddress(cfg, Rebuild(New(cfg), as), run.name, run.obj)
                    /\ LET new == Entered(run.obj, result)
                           r == [run EXCEPT !.obj = new, !.stats = result.stats,
                                            !.statusChanged = StatusOf(new) # StatusOf(run.obj)]
                       IN  IF SpecOf(new) # SpecOf(run.obj) THEN Goto("spec", r) /\ UNCHANGED current
                           ELSE IF r.statusChanged THEN Goto("status", r) /\ UNCHANGED current
                           ELSE PoolStatusOrFinish(r)
  BY <1>2 DEF AllocationsFrom
<1>4. PICK n \in Nat : Len(as) = n
  <2>1. IsFiniteSet(AssignmentsOf(run.pool))
    BY AssignmentsFinite
  <2>2. PICK n \in Nat : Enumerates(as, n, AssignmentsOf(run.pool))
    BY <2>1, Listed
  <2>3. Len(as) = n
    BY <2>2 DEF Enumerates
  <2> QED
    BY <2>3, Zenon
<1> HIDE DEF cfg
<1>5. /\ result.phase \in {Allocated, Failed} /\ result.message \in Messages
      /\ result.phase = Allocated => Given(cfg, as, n, run.name, run.obj, result)
  BY <1>1, <1>3, <1>4, AllocationResult DEF cfg
<1>6. result.phase = Allocated => result.addr \in Addr
  BY <1>5 DEF Given, Addr
<1>7. /\ result.phase = Allocated => Counts(as, n, run.name, result)
      /\ result.phase # Allocated => result.stats = NoStats
  BY <1>1, <1>3, <1>4, AllocationCounts, ZenonT(60) DEF cfg
<1> DEFINE new == Entered(run.obj, result)
<1>8. /\ new \in DetectorObject /\ new.ref = run.obj.ref /\ new.phase = result.phase
      /\ result.phase = Allocated => new.assigned = result.addr
  BY <1>1, <1>5, <1>6, EnteredCopy
<1> DEFINE r == [run EXCEPT !.obj = new, !.stats = result.stats,
                            !.statusChanged = StatusOf(new) # StatusOf(run.obj)]
<1> HIDE DEF new
<1>9. PICK changed : changed = (StatusOf(new) # StatusOf(run.obj))
  OBVIOUS
<1>10. PICK stats : stats = result.stats
  OBVIOUS
<1>11. r = Reconcile(run.name, new, run.pool, run.poolObj, changed, stats)
  <2>1. r = [run EXCEPT !.obj = new, !.stats = stats, !.statusChanged = changed]
    BY <1>9, <1>10
  <2> HIDE DEF r
  <2> DEFINE fields == {"name", "obj", "pool", "poolObj", "statusChanged", "stats"}
  <2>2. DOMAIN run = fields /\ run = [f \in fields |-> run[f]]
    BY <1>1 DEF Reconcile
  <2>3. r = [f \in fields |-> IF f = "statusChanged" THEN changed
                            ELSE IF f = "stats" THEN stats ELSE IF f = "obj" THEN new ELSE run[f]]
    BY <2>1, <2>2
  <2> QED
    BY <2>3 DEF Reconcile
<1>12. IF SpecOf(new) # SpecOf(run.obj) THEN Goto("spec", r) /\ UNCHANGED current
       ELSE IF r.statusChanged THEN Goto("status", r) /\ UNCHANGED current
       ELSE PoolStatusOrFinish(r)
  BY <1>3 DEF new
<1> HIDE DEF r
<1>13. r.statusChanged = changed /\ r.stats = stats /\ r.poolObj = run.poolObj
  BY <1>11 DEF Reconcile
<1>14. Answers(new, stats)
  <2>1. CASE result.phase = Allocated
    <3>1. stats # NoStats /\ stats.allocated = Cardinality({as[i].owner : i \in 1 .. n} \cup {run.name})
      BY <1>7, <1>10, <2>1 DEF Counts
    <3>2. {as[i].owner : i \in 1 .. n} = {d \in Detector : Listing(d)}
      BY <1>4, OwnersListed
    <3>3. new.assigned # None
      BY <1>6, <1>8, <2>1, StoreAssumption DEF Addr
    <3> QED
      BY <3>1, <3>2, <3>3 DEF Answers
  <2>2. CASE result.phase # Allocated
    BY <1>5, <1>7, <1>8, <1>10, <2>2 DEF Answers
  <2> QED
    BY <2>1, <2>2
<1>15. ListEnds(new, stats)
  <2>1. UNCHANGED <<det, dev, pools, watch>>
    BY DEF ListAndAllocate
  <2>2. CASE SpecOf(new) # SpecOf(run.obj)
    BY <1>8, <1>11, <1>12, <2>1, <2>2 DEF ListEnds, Goto
  <2>3. CASE SpecOf(new) = SpecOf(run.obj) /\ StatusOf(new) # StatusOf(run.obj)
    <3>1. Goto("status", r) /\ UNCHANGED current
      BY <1>9, <1>12, <1>13, <2>3
    <3> QED
      BY <1>8, <1>11, <2>1, <2>3, <3>1 DEF ListEnds, Goto
  <2>4. CASE SpecOf(new) = SpecOf(run.obj) /\ StatusOf(new) = StatusOf(run.obj)
    <3>1. PoolStatusOrFinish(r)
      BY <1>9, <1>12, <1>13, <2>4
    <3>2. \/ stats # NoStats /\ Goto("pool", r) /\ UNCHANGED current
          \/ (stats = NoStats \/ run.poolObj.status = stats) /\ Finish
      BY <1>13, <3>1 DEF PoolStatusOrFinish
    <3> QED
      BY <1>8, <1>11, <2>1, <2>4, <3>2 DEF ListEnds, Goto, Finish
  <2> QED
    BY <2>2, <2>3, <2>4
<1> QED
  BY <1>8, <1>14, <1>15

-----------------------------------------------------------------------------
(***************************************************************************)
(* What is still to come.  The names of a stream are those an informer has *)
(* yet to hear of; a detector is awaited if a reconcile of it is.          *)
(***************************************************************************)
Names(s) == {s[i].name : i \in DOMAIN s}

LEMMA NamesAppended ==
  ASSUME NEW s, IsSeq(s), NEW name, NEW obj
  PROVE  Names(Append(s, Event(name, obj))) = Names(s) \cup {name}
<1> DEFINE t == Append(s, Event(name, obj))
           n == Len(s)
<1>1. /\ n \in Nat /\ DOMAIN s = 1 .. n /\ DOMAIN t = 1 .. (n + 1)
      /\ \A i \in 1 .. n : t[i] = s[i]
      /\ t[n + 1] = Event(name, obj)
  BY Appended
<1>2. t[n + 1].name = name
  BY <1>1 DEF Event
<1> HIDE DEF t, n
<1>3. DOMAIN t = DOMAIN s \cup {n + 1}
  BY <1>1
<1>4. \A i \in DOMAIN s : t[i].name = s[i].name
  BY <1>1
<1>5. Names(t) = Names(s) \cup {name}
  BY <1>2, <1>3, <1>4 DEF Names
<1> QED
  BY <1>5 DEF t

LEMMA NamesOfTail ==
  ASSUME NEW s, IsSeq(s), s # <<>>
  PROVE  Names(s) = Names(Tail(s)) \cup {Head(s).name}
<1> DEFINE t == Tail(s)
           n == Len(s)
<1>1. /\ n \in Nat /\ 1 <= n /\ DOMAIN s = 1 .. n /\ DOMAIN t = 1 .. (n - 1)
      /\ \A i \in 1 .. (n - 1) : t[i] = s[i + 1]
      /\ Head(s) = s[1]
  BY HeadAndTail
<1> HIDE DEF t, n
<1>2. ASSUME NEW i \in DOMAIN t
      PROVE  i + 1 \in DOMAIN s /\ t[i].name = s[i + 1].name
  BY <1>1
<1>3. ASSUME NEW i \in DOMAIN s, i # 1
      PROVE  i - 1 \in DOMAIN t /\ t[i - 1].name = s[i].name
  <2>1. i - 1 \in 1 .. (n - 1) /\ (i - 1) + 1 = i
    BY <1>1, <1>3
  <2> QED
    BY <1>1, <2>1
<1>4. 1 \in DOMAIN s /\ s[1].name = Head(s).name
  BY <1>1
<1>5. Names(t) \subseteq Names(s) /\ Head(s).name \in Names(s)
  BY <1>2, <1>4 DEF Names
<1>6. ASSUME NEW x \in Names(s)
      PROVE  x \in Names(t) \cup {Head(s).name}
  BY <1>3, <1>4 DEF Names
<1> QED
  BY <1>5, <1>6 DEF t

(* A copy of what no event is about is the object.                         *)
LEMMA UpToDateCopy ==
  ASSUME NEW s, NEW name, NEW old, NEW new, Follows(s, name, old, new), name \notin Names(s)
  PROVE  old = new
BY DEF Follows, Names

-----------------------------------------------------------------------------
(***************************************************************************)
(* All but deliveries make events of what they change.                     *)
(***************************************************************************)
Announces ==
  /\ Names(watch.det) \subseteq Names(watch'.det)
  /\ Names(watch.dev) \subseteq Names(watch'.dev)
  /\ Names(watch.pool) \subseteq Names(watch'.pool)
  /\ \A d \in Detector : det'[d] # det[d] => d \in Names(watch'.det)
  /\ \A v \in Device : dev'[v] # dev[v] => v \in Names(watch'.dev)
  /\ \A p \in PoolName : pools'[p] # pools[p] => p \in Names(watch'.pool)

LEMMA NothingAnnounced ==
  ASSUME UNCHANGED <<det, dev, pools, watch>>
  PROVE  Announces
BY DEF Announces

LEMMA DetectorAnnounced ==
  ASSUME StoreTyped, NEW d \in Detector, NEW obj \in MaybeDetector, PutDetector(d, obj)
  PROVE  Announces
<1>1. /\ det' = [x \in Detector |-> IF x = d THEN obj ELSE det[x]] /\ UNCHANGED <<dev, pools>>
      /\ watch'.dev = watch.dev /\ watch'.pool = watch.pool
      /\ \/ watch' = watch /\ obj = det[d]
         \/ obj # det[d] /\ watch'.det = Append(watch.det, Event(d, obj))
  BY DetectorPut
<1>2. IsSeq(watch.det) /\ det \in [Detector -> MaybeDetector]
  BY DEF StoreTyped, WatchTyped, ObjectsTyped
<1>3. CASE watch' = watch /\ obj = det[d]
  <2>1. det' = det
    BY <1>1, <1>2, <1>3
  <2> QED
    BY <1>1, <1>3, <2>1 DEF Announces
<1>4. CASE watch'.det = Append(watch.det, Event(d, obj))
  <2>1. Names(watch'.det) = Names(watch.det) \cup {d}
    BY <1>2, <1>4, NamesAppended
  <2> QED
    BY <1>1, <2>1 DEF Announces
<1> QED
  BY <1>1, <1>3, <1>4

LEMMA PoolAnnounced ==
  ASSUME StoreTyped, NEW p \in PoolName, NEW obj, PoolTyped(p, obj), PutPool(p, obj)
  PROVE  Announces
<1>1. /\ pools' = [x \in PoolName |-> IF x = p THEN obj ELSE pools[x]] /\ UNCHANGED <<det, dev>>
      /\ watch'.det = watch.det /\ watch'.dev = watch.dev
  BY PoolPut
<1>2. /\ IsSeq(watch.pool) /\ pools = [x \in PoolName |-> pools[x]]
      /\ watch = [det |-> watch.det, dev |-> watch.dev, pool |-> watch.pool]
  BY DEF StoreTyped, WatchTyped, ObjectsTyped
<1>3. CASE obj = pools[p]
  <2>1. watch' = watch
    BY <1>3 DEF PutPool
  <2>2. \A x \in PoolName : pools'[x] = pools[x]
    BY <1>1, <1>3
  <2> QED
    BY <1>1, <2>1, <2>2 DEF Announces
<1>4. CASE obj # pools[p]
  <2>1. watch'.pool = Append(watch.pool, Event(p, obj))
    <3>1. watch' = [watch EXCEPT !["pool"] = Append(@, Event(p, obj))]
      BY <1>4 DEF PutPool, Publish
    <3> QED
      BY <1>2, <3>1
  <2>2. Names(watch'.pool) = Names(watch.pool) \cup {p}
    BY <1>2, <2>1, NamesAppended
  <2> QED
    BY <1>1, <2>2 DEF Announces
<1> QED
  BY <1>3, <1>4

LEMMA DeviceAnnounced ==
  ASSUME StoreTyped, NEW v \in Device, NEW p \in PoolName \cup {Absent}, PutDevice(v, p)
  PROVE  Announces
<1>1. /\ dev' = [x \in Device |-> IF x = v THEN p ELSE dev[x]] /\ UNCHANGED <<det, pools>>
      /\ watch'.det = watch.det /\ watch'.pool = watch.pool
      /\ watch'.dev = Append(watch.dev, Event(v, p))
  BY DevicePut
<1>2. IsSeq(watch.dev)
  BY DEF StoreTyped, WatchTyped
<1>3. Names(watch'.dev) = Names(watch.dev) \cup {v}
  BY <1>1, <1>2, NamesAppended
<1> QED
  BY <1>1, <1>3 DEF Announces

LEMMA OthersAnnounce ==
  ASSUME Informed, OthersStep
  PROVE  Announces
<1>1. StoreTyped
  BY DEF Informed, OperatorTyped
<1>2. CASE OutsideWrite
  BY <1>1, <1>2, DetectorAnnounced DEF OutsideWrite, Outside
<1>3. CASE PoolEdited
  <2>1. PICK p \in PoolName, cfg \in PoolEdits : pools[p] # Absent /\ PutPool(p, [pools[p] EXCEPT !.cfg = cfg])
    BY <1>3 DEF PoolEdited
  <2> DEFINE obj == [pools[p] EXCEPT !.cfg = cfg]
  <2>2. PoolTyped(p, obj)
    <3>1. PoolTyped(p, pools[p]) /\ cfg \in Configuration
      BY <1>1, SystemAssumption DEF StoreTyped, ObjectsTyped
    <3> QED
      BY <2>1, <3>1 DEF PoolTyped, IsPool
  <2> HIDE DEF obj
  <2> QED
    BY <1>1, <2>1, <2>2, PoolAnnounced DEF obj
<1>4. CASE DeviceEdited
  <2>1. PICK v \in Device, p \in DeviceEdits : PutDevice(v, p)
    BY <1>4 DEF DeviceEdited
  <2>2. p \in PoolName \cup {Absent}
    BY SystemAssumption
  <2> QED
    BY <1>1, <2>1, <2>2, DeviceAnnounced
<1>5. CASE UNCHANGED storeVars
  BY <1>5, NothingAnnounced DEF storeVars
<1> QED
  BY <1>2, <1>3, <1>4, <1>5 DEF OthersStep

LEMMA WriteAnnounces ==
  ASSUME Informed, OperatorWrite
  PROVE  Announces
<1>1. StoreTyped /\ pc \in {"spec", "status", "fail"} /\ run.name \in current
  BY DEF OperatorWrite, Informed, OperatorTyped
<1>2. run.name \in Detector /\ SpecWritten \in MaybeDetector /\ StatusWritten \in MaybeDetector
  BY <1>1, Written DEF MaybeDetector
<1>3. PutDetector(run.name, SpecWritten) \/ PutDetector(run.name, StatusWritten)
  BY DEF OperatorWrite
<1> QED
  BY <1>1, <1>2, <1>3, DetectorAnnounced

LEMMA StatusAnnounced ==
  ASSUME Informed, PoolStatusWrite
  PROVE  Announces /\ UNCHANGED <<det, dev>>
         /\ pools' = [p \in PoolName |-> IF p = run.pool THEN [pools[p] EXCEPT !.status = run.stats] ELSE pools[p]]
<1> DEFINE obj == [pools[run.pool] EXCEPT !.status = run.stats]
<1>1. run.pool \in PoolName /\ PutPool(run.pool, obj) /\ StoreTyped /\ InitialPools[run.pool] # Absent
  BY DEF PoolStatusWrite, RunTyped, Informed, OperatorTyped
<1>2. PoolTyped(run.pool, obj)
  <2>1. IsPool(pools[run.pool])
    BY <1>1 DEF StoreTyped, ObjectsTyped, PoolTyped
  <2>2. IsPool(obj)
    BY <2>1 DEF IsPool
  <2> QED
    BY <1>1, <2>2 DEF PoolTyped
<1> HIDE DEF obj
<1>3. Announces /\ UNCHANGED <<det, dev>> /\ pools' = [x \in PoolName |-> IF x = run.pool THEN obj ELSE pools[x]]
  BY <1>1, <1>2, PoolPut, PoolAnnounced
<1> QED
  BY <1>3 DEF obj

-----------------------------------------------------------------------------
Awaited(d) ==
  \/ d \in queue
  \/ d \in Names(watch.det)
  \/ det[d] # Absent /\ det[d].ref \in Names(watch.dev)

(* The detectors of a pool, whether they have an address or not.           *)
Members(p) == {d \in Detector : det[d] # Absent /\ det[d].ref # None /\ dev[det[d].ref] = p}

HasFailed(d) == det[d] # Absent /\ det[d].phase = Failed

(* What a reconcile writes of its detector is still to come.               *)
Working(d) == run.name = d /\ pc \in {"list", "spec", "status", "fail"}

(* No copy and no event names another device than the object.              *)
Refers(d, obj) == obj # Absent /\ obj.ref # None => det[d] # Absent /\ det[d].ref = obj.ref

RefsKnown ==
  /\ \A d \in Detector : Refers(d, cache.det[d])
  /\ \A i \in DOMAIN watch.det : Refers(watch.det[i].name, watch.det[i].obj)

PoolStreamed == \A p \in PoolName : Follows(watch.pool, p, cache.pool[p], pools[p])

(* A reconcile works for a pool its detector is in.                        *)
RunPlaced ==
  pc \notin {"idle", "fail"} => run.name \in Members(run.pool) /\ det[run.name].ref = run.obj.ref

(* What it is about to write of its detector is news, unless the detector  *)
(* is awaited anyway.                                                      *)
RunWrites ==
  pc \in {"list", "spec", "status", "fail"} =>
    \/ Awaited(run.name)
    \/ /\ run.name \in current
       /\ pc = "list" => run.obj = det[run.name]
       /\ pc = "spec" => SpecOf(run.obj) # SpecOf(det[run.name])
       /\ pc \in {"status", "fail"} => StatusOf(run.obj) # StatusOf(det[run.name])

(* Its copy of the pool is the pool, unless news of it are to come.        *)
RunPooled ==
  pc \notin {"idle", "fail"} =>
    \/ Awaited(run.name)
    \/ run.pool \in Names(watch.pool)
    \/ run.pool \in current /\ run.poolObj = pools[run.pool]

(* Nobody deletes a detector, so that its device does not change either.   *)
DetectorsStay == \A d \in Detector : det[d] # Absent => det'[d] # Absent

RefsStay ==
  \A d \in Detector :
    det[d] # Absent /\ det[d].ref # None => det'[d] # Absent /\ det'[d].ref = det[d].ref

LEMMA RefsKept ==
  ASSUME Informed, Steps, DetectorsStay
  PROVE  RefsStay
<1> SUFFICES ASSUME NEW d \in Detector, det[d] # Absent, det[d].ref # None
             PROVE  det'[d] # Absent /\ det'[d].ref = det[d].ref
  BY DEF RefsStay
<1>1. det'[d] # Absent
  BY DEF DetectorsStay
<1>2. StoreTyped
  BY DEF Informed, OperatorTyped
<1>3. CASE det' = det
  BY <1>3
<1>4. CASE OthersStep
  <2>1. CASE OutsideWrite
    <3>1. PICK e \in Detector, obj \in MaybeDetector : Outside(e, obj) /\ Allowed(e, obj)
      BY <2>1 DEF OutsideWrite
    <3>2. det' = [x \in Detector |-> IF x = e THEN obj ELSE det[x]]
      BY <1>2, <3>1, DetectorPut DEF Outside
    <3>3. CASE d = e
      BY <1>1, <3>1, <3>2, <3>3 DEF Allowed
    <3>4. CASE d # e
      BY <3>2, <3>4
    <3> QED
      BY <3>3, <3>4
  <2>2. CASE PoolEdited \/ DeviceEdited \/ UNCHANGED storeVars
    BY <1>3, <2>2 DEF PoolEdited, DeviceEdited, PutPool, PutDevice, storeVars
  <2> QED
    BY <1>4, <2>1, <2>2 DEF OthersStep
<1>5. CASE OperatorWrite
  <2>1. pc \in {"spec", "status", "fail"} /\ run.name \in current
    BY <1>5 DEF OperatorWrite
  <2>2. /\ run.name \in Detector /\ SpecWritten \in MaybeDetector /\ StatusWritten \in MaybeDetector
        /\ SpecWritten.ref = run.obj.ref /\ StatusWritten.ref = det[run.name].ref
    BY <2>1, Written DEF MaybeDetector
  <2>3. pc = "spec" => run.obj.ref = det[run.name].ref
    BY <2>1 DEF Informed, CopyCurrent, Fits
  <2>4. PICK obj \in MaybeDetector : PutDetector(run.name, obj) /\ obj.ref = det[run.name].ref
    BY <1>5, <2>2, <2>3 DEF OperatorWrite
  <2>5. det' = [x \in Detector |-> IF x = run.name THEN obj ELSE det[x]]
    BY <1>2, <2>2, <2>4, DetectorPut
  <2> QED
    BY <1>1, <2>4, <2>5
<1>6. CASE Delivery \/ (\E x \in Detector : Begin(x)) \/ ListAndAllocate
           \/ PoolStatusWrite \/ NoWrite \/ RestartOperator
  BY <1>3, <1>6 DEF Delivery, Begin, ListAndAllocate, PoolStatusWrite, PutPool, NoWrite, RestartOperator
<1> QED
  BY <1>4, <1>5, <1>6 DEF Steps

(* Steps without faults, and faults after which the operator tries again:  *)
(* all but a refused write of a pool's status, which is only logged.       *)
Informs == DeliverDetector \/ mapDeviceToDetectors \/ mapPoolToDetectors

FaultFree ==
  \/ OthersStep
  \/ Informs
  \/ \E d \in Detector : Begin(d)
  \/ ReconcileStep

RetriedFault ==
  \/ WriteRefused /\ pc # "pool"
  \/ AnswerLost
  \/ RestartOperator

StatusRefused == faults' # faults /\ pc = "pool" /\ WriteRefused

LEMMA StepsAndFaults ==
  ASSUME AllTyped, [Next]_vars, faults \in Nat
  PROVE  FaultFree \/ RetriedFault \/ (StatusRefused /\ faults' = faults + 1)
<1>1. CASE UserEdits
  BY <1>1, UserSteps DEF FaultFree
<1>2. CASE Informers
  BY <1>2 DEF FaultFree, Informers, Informs
<1>3. ASSUME NEW d \in Detector, StartReconcile(d) \/ Reports(d) \/ Discovers(d)
      PROVE  FaultFree
  <2>1. CASE StartReconcile(d)
    BY <2>1 DEF FaultFree, StartReconcile
  <2>2. CASE Reports(d)
    BY <2>2 DEF FaultFree, Reports, ModuleReports, OthersStep
  <2>3. CASE Discovers(d)
    BY <2>3, UpsertSteps DEF FaultFree, Discovers, OthersStep
  <2> QED
    BY <1>3, <2>1, <2>2, <2>3
<1>4. CASE StepReconcile
  BY <1>4 DEF FaultFree, StepReconcile
<1>5. ASSUME NEW v \in Device, Gateway(v) \/ StartsPass(v)
      PROVE  FaultFree
  BY <1>5, GatewaySteps DEF FaultFree, Gateway, StartsPass, ReconcileAddresses, OthersStep
<1>6. CASE Faults
  <2>1. faults' = faults + 1 /\ faults' # faults
    BY <1>6 DEF Faults
  <2>2. CASE WriteRefused \/ AnswerLost \/ RestartOperator
    BY <2>1, <2>2 DEF RetriedFault, StatusRefused
  <2>3. ASSUME NEW v \in Device, GatewayFails(v), UNCHANGED controllerVars
        PROVE  FaultFree
    BY <2>3 DEF FaultFree, GatewayFails, OthersStep
  <2> QED
    BY <1>6, <2>2, <2>3 DEF Faults
<1>7. CASE UNCHANGED vars
  BY <1>7 DEF FaultFree, vars, OthersStep
<1> QED
  BY <1>1, <1>2, <1>3, <1>4, <1>5, <1>6, <1>7 DEF Next

(***************************************************************************)
(* A detector that is awaited stays so until a reconcile of it begins.     *)
(***************************************************************************)
LEMMA StaysAwaited ==
  ASSUME Announces, NEW d \in Detector, Awaited(d), d \in queue => d \in queue'
  PROVE  Awaited(d)'
<1>1. CASE det'[d] # det[d] \/ d \in queue \/ d \in Names(watch.det)
  BY <1>1 DEF Announces, Awaited
<1>2. CASE det'[d] = det[d] /\ det[d] # Absent /\ det[d].ref \in Names(watch.dev)
  BY <1>2 DEF Announces, Awaited
<1> QED
  BY <1>1, <1>2 DEF Awaited

(* What an informer's delivery changes.                                    *)
Delivered(kind, woken) ==
  /\ watch[kind] # <<>> /\ IsSeq(watch[kind])
  /\ cache'[kind] = [cache[kind] EXCEPT ![Head(watch[kind]).name] = Head(watch[kind]).obj]
  /\ watch'[kind] = Tail(watch[kind])
  /\ \A k \in {"det", "dev", "pool"} : k # kind => watch'[k] = watch[k] /\ cache'[k] = cache[k]
  /\ queue' = queue \cup woken[Head(watch[kind]).name]
  /\ UNCHANGED <<det, dev, pools, current, pc, run>>

LEMMA DeliveredOne ==
  ASSUME OperatorTyped, NEW kind \in {"det", "dev", "pool"}, NEW woken, Deliver(kind, woken)
  PROVE  Delivered(kind, woken)
BY DEF OperatorTyped, StoreTyped, WatchTyped, CacheTyped, Deliver, Delivered

WokenBy(kind) ==
  CASE kind = "det"  -> [d \in Detector |-> {d}]
    [] kind = "dev"  -> [v \in Device |-> DetectorsOfDevice(v)]
    [] kind = "pool" -> [p \in PoolName |->
                           UNION {DetectorsOfDevice(v) : v \in {w \in Device : cache.dev[w] = p}}]

LEMMA InformsDeliver ==
  ASSUME OperatorTyped, Informs
  PROVE  \E kind \in {"det", "dev", "pool"} : Delivered(kind, WokenBy(kind))
<1>1. CASE DeliverDetector
  BY <1>1, DeliveredOne DEF DeliverDetector, WokenBy
<1>2. CASE mapDeviceToDetectors
  BY <1>2, DeliveredOne DEF mapDeviceToDetectors, WokenBy
<1>3. CASE mapPoolToDetectors
  BY <1>3, DeliveredOne DEF mapPoolToDetectors, WokenBy
<1> QED
  BY <1>1, <1>2, <1>3 DEF Informs

-----------------------------------------------------------------------------
(* Whoever exists has an address, or is still to get one, or has failed.   *)
Owes(d) == Awaited(d) \/ HasFailed(d) \/ Working(d)

Answered == \A d \in Detector : det[d] # Absent => det[d].assigned # None \/ Owes(d)

(* A pool's count is right, or whoever will put it right is on the way.    *)
CountRight(p) == pools[p].status.allocated = Cardinality(Members(p))

CountComes(p) ==
  \/ Members(p) # {} /\ p \in Names(watch.pool)
  \/ \E d \in Members(p) : Owes(d)
  \/ pc = "pool" /\ run.pool = p /\ run.stats.allocated = Cardinality(Members(p))

Counted == \A p \in PoolName : CountRight(p) \/ CountComes(p)

(* Served holds whatever users and faults do; a pool's count is only kept  *)
(* right while detectors and devices stay.                                 *)
Served == RunWrites /\ Answered

Settling == RefsKnown /\ PoolStreamed /\ RunPlaced /\ RunPooled /\ Served /\ Counted

(***************************************************************************)
(* Deliveries.                                                             *)
(***************************************************************************)
LEMMA DeliveredNames ==
  ASSUME NEW kind \in {"det", "dev", "pool"}, NEW woken, Delivered(kind, woken)
  PROVE  /\ Names(watch[kind]) = Names(watch'[kind]) \cup {Head(watch[kind]).name}
         /\ Head(watch[kind]).name \in Names(watch[kind])
BY NamesOfTail DEF Delivered

LEMMA AwaitedDelivered ==
  ASSUME Informed, NEW kind \in {"det", "dev", "pool"}, Delivered(kind, WokenBy(kind)),
         NEW d \in Detector, Awaited(d)
  PROVE  Awaited(d)'
<1>1. /\ UNCHANGED det /\ queue \subseteq queue'
      /\ \A k \in {"det", "dev", "pool"} : k # kind => watch'[k] = watch[k]
      /\ queue' = queue \cup WokenBy(kind)[Head(watch[kind]).name]
  BY DEF Delivered
<1>2. Names(watch[kind]) = Names(watch'[kind]) \cup {Head(watch[kind]).name}
  BY DeliveredNames
<1>3. CASE d \in queue
  BY <1>1, <1>3 DEF Awaited
<1>4. CASE d \in Names(watch.det)
  <2>1. CASE kind = "det" /\ d = Head(watch.det).name
    <3>1. WokenBy("det")[d] = {d}
      BY DEF WokenBy
    <3> QED
      BY <1>1, <2>1, <3>1 DEF Awaited
  <2>2. CASE ~(kind = "det" /\ d = Head(watch.det).name)
    <3>1. d \in Names(watch'.det)
      BY <1>1, <1>2, <1>4, <2>2
    <3> QED
      BY <3>1 DEF Awaited
  <2> QED
    BY <2>1, <2>2
<1>5. CASE det[d] # Absent /\ det[d].ref \in Names(watch.dev) /\ d \notin Names(watch.det)
  <2> DEFINE v == det[d].ref
  <2>1. CASE kind = "dev" /\ v = Head(watch.dev).name
    <3>1. v \in Device
      BY <1>5 DEF Informed, OperatorTyped, StoreTyped, WatchTyped, EventsTyped, Names
    <3>2. cache.det[d] = det[d]
      BY <1>5, UpToDateCopy DEF Informed, Streamed
    <3>3. d \in DetectorsOfDevice(v)
      BY <1>5, <3>2 DEF DetectorsOfDevice
    <3>4. WokenBy("dev")[v] = DetectorsOfDevice(v)
      BY <3>1 DEF WokenBy
    <3> QED
      BY <1>1, <2>1, <3>3, <3>4 DEF Awaited
  <2>2. CASE ~(kind = "dev" /\ v = Head(watch.dev).name)
    <3>1. v \in Names(watch'.dev)
      BY <1>1, <1>2, <1>5, <2>2
    <3> QED
      BY <1>1, <1>5, <3>1 DEF Awaited
  <2> QED
    BY <2>1, <2>2
<1> QED
  BY <1>3, <1>4, <1>5 DEF Awaited

(* News of a pool wake all its detectors, those the informers do not yet   *)
(* know to be there excepted: these are awaited for themselves.            *)
LEMMA PoolWakes ==
  ASSUME Informed, Delivered("pool", WokenBy("pool")), NEW d \in Members(Head(watch.pool).name)
  PROVE  Awaited(d)'
<1> DEFINE p == Head(watch.pool).name
<1>1. /\ UNCHANGED det /\ queue' = queue \cup WokenBy("pool")[p]
      /\ watch'.det = watch.det /\ watch'.dev = watch.dev
  BY DEF Delivered
<1>2. p \in PoolName
  <2>1. p \in Names(watch.pool)
    BY DeliveredNames
  <2> QED
    BY <2>1 DEF Informed, OperatorTyped, StoreTyped, WatchTyped, EventsTyped, Names
<1> HIDE DEF p
<1>3. d \in Detector /\ det[d] # Absent /\ det[d].ref # None /\ dev[det[d].ref] = p
  BY DEF Members, p
<1>4. det[d].ref \in Device
  BY <1>3 DEF Informed, OperatorTyped, StoreTyped, ObjectsTyped, MaybeDetector, DetectorObject
<1>5. CASE d \in Names(watch.det) \/ det[d].ref \in Names(watch.dev)
  BY <1>1, <1>3, <1>5 DEF Awaited
<1>6. CASE d \notin Names(watch.det) /\ det[d].ref \notin Names(watch.dev)
  <2>1. cache.det[d] = det[d] /\ cache.dev[det[d].ref] = dev[det[d].ref]
    BY <1>3, <1>4, <1>6, UpToDateCopy DEF Informed, Streamed
  <2>2. d \in DetectorsOfDevice(det[d].ref) /\ cache.dev[det[d].ref] = p
    BY <1>3, <2>1 DEF DetectorsOfDevice
  <2>3. WokenBy("pool")[p] = UNION {DetectorsOfDevice(v) : v \in {w \in Device : cache.dev[w] = p}}
    BY <1>2 DEF WokenBy
  <2>4. d \in WokenBy("pool")[p]
    BY <1>4, <2>2, <2>3
  <2> QED
    BY <1>1, <2>4 DEF Awaited
<1> QED
  BY <1>5, <1>6

LEMMA DeliveryRefers ==
  ASSUME Informed, RefsKnown, PoolStreamed,
         NEW kind \in {"det", "dev", "pool"}, Delivered(kind, WokenBy(kind))
  PROVE  RefsKnown' /\ PoolStreamed'
<1>1. UNCHANGED <<det, pools>>
  BY DEF Delivered
<1>2. ASSUME NEW d, NEW obj, Refers(d, obj)
      PROVE  Refers(d, obj)'
  BY <1>1, <1>2 DEF Refers
<1>3. /\ IsSeq(watch[kind]) /\ watch[kind] # <<>>
      /\ watch'[kind] = Tail(watch[kind])
      /\ cache'[kind] = [cache[kind] EXCEPT ![Head(watch[kind]).name] = Head(watch[kind]).obj]
      /\ \A k \in {"det", "dev", "pool"} : k # kind => watch'[k] = watch[k] /\ cache'[k] = cache[k]
  BY DEF Delivered
<1>4. /\ Head(watch[kind]) = watch[kind][1] /\ 1 \in DOMAIN watch[kind]
      /\ \A i \in DOMAIN Tail(watch[kind]) : /\ i + 1 \in DOMAIN watch[kind]
                                             /\ Tail(watch[kind])[i] = watch[kind][i + 1]
  BY <1>3, HeadAndTail
<1>5. RefsKnown'
  <2>1. ASSUME NEW d \in Detector
        PROVE  Refers(d, cache.det[d])'
    <3>1. cache'.det[d] = cache.det[d] \/ (kind = "det" /\ d = watch.det[1].name /\ cache'.det[d] = watch.det[1].obj)
      <4>1. CASE kind = "det"
        <5>1. cache'.det = [cache.det EXCEPT ![watch.det[1].name] = watch.det[1].obj]
          BY <1>3, <1>4, <4>1
        <5>2. cache.det \in [Detector -> MaybeDetector]
          BY DEF Informed, OperatorTyped, CacheTyped, ObjectsTyped
        <5> QED
          BY <4>1, <5>1, <5>2
      <4>2. CASE kind # "det"
        <5>1. cache'.det = cache.det
          BY <1>3, <4>2
        <5> QED
          BY <5>1
      <4> QED
        BY <4>1, <4>2
    <3>2. Refers(d, cache'.det[d])
      BY <1>4, <3>1 DEF RefsKnown
    <3> QED
      BY <1>1, <3>2 DEF Refers
  <2>2. ASSUME NEW i \in DOMAIN watch'.det
        PROVE  Refers(watch.det[i].name, watch.det[i].obj)'
    <3>1. \E j \in DOMAIN watch.det : watch'.det[i] = watch.det[j]
      <4>1. CASE kind = "det"
        <5>1. watch'.det = Tail(watch.det)
          BY <1>3, <4>1
        <5> QED
          BY <1>4, <4>1, <5>1
      <4>2. CASE kind # "det"
        <5>1. watch'.det = watch.det
          BY <1>3, <4>2
        <5> QED
          BY <5>1
      <4> QED
        BY <4>1, <4>2
    <3>2. Refers(watch'.det[i].name, watch'.det[i].obj)
      BY <3>1 DEF RefsKnown
    <3> QED
      BY <1>1, <3>2 DEF Refers
  <2> QED
    BY <2>1, <2>2 DEF RefsKnown
<1>6. PoolStreamed'
  <2> SUFFICES ASSUME NEW p \in PoolName
               PROVE  Follows(watch'.pool, p, cache'.pool[p], pools'[p])
    BY DEF PoolStreamed
  <2>1. Follows(watch.pool, p, cache.pool[p], pools[p])
    BY DEF PoolStreamed
  <2>2. CASE kind = "pool"
    <3>1. Follows(Tail(watch.pool), p, IF Head(watch.pool).name = p THEN Head(watch.pool).obj ELSE cache.pool[p], pools[p])
      BY <1>3, <2>1, <2>2, FollowsDelivery
    <3>2. cache.pool = [x \in PoolName |-> cache.pool[x]]
      BY DEF Informed, OperatorTyped, CacheTyped, ObjectsTyped
    <3>3. cache'.pool[p] = IF Head(watch.pool).name = p THEN Head(watch.pool).obj ELSE cache.pool[p]
      BY <1>3, <2>2, <3>2
    <3> QED
      BY <1>1, <1>3, <2>2, <3>1, <3>3
  <2>3. CASE kind # "pool"
    BY <1>1, <1>3, <2>1, <2>3
  <2> QED
    BY <2>2, <2>3
<1> QED
  BY <1>5, <1>6

LEMMA DeliveryServed ==
  ASSUME Informed, Served, Informs
  PROVE  /\ Served'
         /\ \A d \in Detector : (Awaited(d) => Awaited(d)') /\ (Owes(d) => Owes(d)')
<1>1. PICK kind \in {"det", "dev", "pool"} : Delivered(kind, WokenBy(kind))
  BY InformsDeliver DEF Informed
<1>2. UNCHANGED <<det, current, pc, run>>
  BY <1>1 DEF Delivered
<1>3. \A d \in Detector : Awaited(d) => Awaited(d)'
  BY <1>1, AwaitedDelivered
<1>4. pc # "idle" => run.name \in Detector
  BY DEF Informed, OperatorTyped, RunTyped
<1>5. RunWrites'
  BY <1>2, <1>3, <1>4 DEF Served, RunWrites
<1>6. \A d \in Detector : Owes(d) => Owes(d)'
  BY <1>2, <1>3 DEF Owes, HasFailed, Working
<1>7. Answered'
  BY <1>2, <1>6 DEF Served, Answered
<1> QED
  BY <1>3, <1>5, <1>6, <1>7 DEF Served

LEMMA DeliverySettling ==
  ASSUME Informed, Settling, Informs
  PROVE  Settling'
<1>1. PICK kind \in {"det", "dev", "pool"} : Delivered(kind, WokenBy(kind))
  BY InformsDeliver DEF Informed
<1>2. /\ UNCHANGED <<det, dev, pools, current, pc, run>>
      /\ \A k \in {"det", "dev", "pool"} : k # kind => watch'[k] = watch[k]
  BY <1>1 DEF Delivered
<1>3. RefsKnown' /\ PoolStreamed'
  BY <1>1, DeliveryRefers DEF Settling
<1>4. /\ Served'
      /\ \A d \in Detector : Awaited(d) => Awaited(d)'
      /\ \A d \in Detector : Owes(d) => Owes(d)'
  BY DeliveryServed DEF Settling
<1>5. \A p : Members(p)' = Members(p)
  BY <1>2 DEF Members
<1>6. RunPlaced'
  BY <1>2, <1>5 DEF Settling, RunPlaced
<1>7. pc # "idle" => run.name \in Detector
  BY DEF Informed, OperatorTyped, RunTyped
<1>8. ASSUME NEW p \in Names(watch.pool), p \notin Names(watch'.pool)
      PROVE  \A d \in Members(p) : Awaited(d)'
  <2>1. kind = "pool" /\ p = Head(watch.pool).name
    <3>1. Names(watch[kind]) = Names(watch'[kind]) \cup {Head(watch[kind]).name}
      BY <1>1, DeliveredNames
    <3> QED
      BY <1>2, <1>8, <3>1
  <2> QED
    BY <1>1, <2>1, PoolWakes
<1>9. RunPooled'
  <2> SUFFICES ASSUME pc \notin {"idle", "fail"}
               PROVE  \/ Awaited(run.name)' \/ run.pool \in Names(watch'.pool)
                      \/ run.pool \in current /\ run.poolObj = pools[run.pool]
    <3>1. UNCHANGED <<pools, current, pc, run>>
      BY <1>2
    <3> QED
      BY <3>1, Zenon DEF RunPooled
  <2>1. run.name \in Members(run.pool)
    BY DEF Settling, RunPlaced
  <2>2. \/ Awaited(run.name) \/ run.pool \in Names(watch.pool)
        \/ run.pool \in current /\ run.poolObj = pools[run.pool]
    BY DEF Settling, RunPooled
  <2>3. CASE Awaited(run.name)
    <3>1. PICK d \in Detector : d = run.name
      BY <1>7
    <3>2. Awaited(d)'
      BY <1>4, <2>3, <3>1
    <3>3. run' = run
      BY <1>2
    <3>4. Awaited(run.name)'
      BY <3>1, <3>2, <3>3
    <3> QED
      BY <3>4
  <2>4. CASE run.pool \in Names(watch.pool)
    <3>1. CASE run.pool \in Names(watch'.pool)
      BY <3>1
    <3>2. CASE run.pool \notin Names(watch'.pool)
      <4>1. PICK d : d = run.name
        OBVIOUS
      <4>2. PICK p : p = run.pool
        OBVIOUS
      <4>3. Awaited(d)'
        BY <1>8, <2>1, <2>4, <3>2, <4>1, <4>2
      <4>4. Awaited(run.name)'
        <5>1. run' = run
          BY <1>2
        <5> QED
          BY <4>1, <4>3, <5>1
      <4> QED
        BY <4>4
    <3> QED
      BY <3>1, <3>2
  <2> QED
    BY <2>2, <2>3, <2>4
<1>10. Counted'
  <2> SUFFICES ASSUME NEW p \in PoolName
               PROVE  CountRight(p)' \/ CountComes(p)'
    BY DEF Counted
  <2>1. CASE CountRight(p)
    BY <1>2, <1>5, <2>1 DEF CountRight
  <2>2. CASE Members(p) # {} /\ p \in Names(watch.pool)
    <3>1. CASE p \in Names(watch'.pool)
      BY <1>5, <2>2, <3>1 DEF CountComes
    <3>2. CASE p \notin Names(watch'.pool)
      <4>1. PICK d \in Members(p) : Awaited(d)'
        BY <1>8, <2>2, <3>2
      <4>2. d \in Members(p)' /\ Owes(d)'
        BY <1>5, <4>1 DEF Owes
      <4> QED
        BY <4>2 DEF CountComes
    <3> QED
      BY <3>1, <3>2
  <2>3. ASSUME NEW d \in Members(p), Owes(d)
        PROVE  CountComes(p)'
    <3>1. d \in Members(p)' /\ Owes(d)'
      BY <1>4, <1>5, <2>3 DEF Members
    <3> QED
      BY <3>1 DEF CountComes
  <2>4. CASE pc = "pool" /\ run.pool = p /\ run.stats.allocated = Cardinality(Members(p))
    BY <1>2, <1>5, <2>4 DEF CountComes
  <2>5. CountRight(p) \/ CountComes(p)
    BY DEF Settling, Counted
  <2> QED
    BY <2>1, <2>2, <2>3, <2>4, <2>5 DEF CountComes
<1> QED
  BY <1>3, <1>4, <1>6, <1>9, <1>10 DEF Settling

-----------------------------------------------------------------------------
(***************************************************************************)
(* Steps that are no deliveries.  No pool loses a detector, and one that   *)
(* is new is awaited.                                                      *)
(***************************************************************************)
LEMMA MembersGrow ==
  ASSUME Informed, RefsStay, Announces, DevicesStay, NEW p \in PoolName
  PROVE  /\ Members(p) \subseteq Members(p)'
         /\ \A d \in Members(p)' : d \notin Members(p) => Awaited(d)'
<1>1. det \in [Detector -> MaybeDetector]
  BY DEF Informed, OperatorTyped, StoreTyped, ObjectsTyped
<1>2. p # Absent
  BY SystemAssumption
<1>3. ASSUME NEW d \in Members(p)
      PROVE  d \in Members(p)'
  <2>1. d \in Detector /\ det[d] # Absent /\ det[d].ref # None /\ dev[det[d].ref] = p
    BY <1>3 DEF Members
  <2>2. det[d].ref \in Device
    BY <1>1, <2>1 DEF MaybeDetector, DetectorObject
  <2>3. det'[d] # Absent /\ det'[d].ref = det[d].ref
    BY <2>1 DEF RefsStay
  <2>4. dev'[det[d].ref] = p
    BY <1>2, <2>1, <2>2 DEF DevicesStay
  <2> QED
    BY <2>1, <2>3, <2>4 DEF Members
<1>4. ASSUME NEW d \in Members(p)', d \notin Members(p)
      PROVE  Awaited(d)'
  <2>1. d \in Detector /\ det'[d] # Absent /\ det'[d].ref # None /\ dev'[det'[d].ref] = p
    BY <1>4 DEF Members
  <2>2. CASE det'[d] # det[d]
    BY <2>1, <2>2 DEF Announces, Awaited
  <2>3. CASE det'[d] = det[d]
    <3>1. dev[det[d].ref] # p
      BY <1>4, <2>1, <2>3 DEF Members
    <3>2. det[d].ref \in Device
      BY <1>1, <2>1, <2>3 DEF MaybeDetector, DetectorObject
    <3>3. det[d].ref \in Names(watch'.dev)
      BY <2>1, <2>3, <3>1, <3>2 DEF Announces
    <3> QED
      BY <2>1, <2>3, <3>3 DEF Awaited
  <2> QED
    BY <2>2, <2>3
<1> QED
  BY <1>3, <1>4

(* What keeps the promises: no reconcile that is to come is forgotten.     *)
Remembers ==
  /\ Announces
  /\ queue \subseteq queue'
  /\ \A d \in Detector : Working(d) => Owes(d)'

LEMMA OwesRemembered ==
  ASSUME Remembers, NEW d \in Detector
  PROVE  /\ Awaited(d) => Awaited(d)'
         /\ Owes(d) => Owes(d)'
<1>1. Awaited(d) => Awaited(d)'
  BY StaysAwaited DEF Remembers
<1>2. HasFailed(d) => Owes(d)'
  <2>1. CASE det'[d] = det[d]
    BY <2>1 DEF HasFailed, Owes
  <2>2. CASE det'[d] # det[d]
    BY <2>2 DEF Remembers, Announces, Owes, Awaited
  <2> QED
    BY <2>1, <2>2
<1>3. Working(d) => Owes(d)'
  BY DEF Remembers
<1>4. Awaited(d)' => Owes(d)'
  BY DEF Owes
<1> QED
  BY <1>1, <1>2, <1>3, <1>4 DEF Owes

LEMMA AnswersKept ==
  ASSUME Answered, Remembers
  PROVE  Answered'
<1> SUFFICES ASSUME NEW d \in Detector, det'[d] # Absent
             PROVE  det'[d].assigned # None \/ Owes(d)'
  BY DEF Answered
<1>1. CASE det'[d] # det[d]
  BY <1>1 DEF Remembers, Announces, Owes, Awaited
<1>2. CASE det'[d] = det[d]
  BY <1>2, OwesRemembered DEF Answered
<1> QED
  BY <1>1, <1>2

LEMMA ServedAtRest ==
  ASSUME Served, Remembers, pc' = "idle"
  PROVE  Served'
<1>1. RunWrites'
  BY DEF RunWrites
<1> QED
  BY <1>1, AnswersKept DEF Served

LEMMA CountKept ==
  ASSUME Informed, Counted, Remembers, RefsStay, DevicesStay, NEW p \in PoolName,
         pools'[p].status = pools[p].status,
         \/ pc' = "pool" /\ run' = run
         \/ ~(pc = "pool" /\ run.pool = p /\ run.stats.allocated = Cardinality(Members(p)))
  PROVE  CountRight(p)' \/ CountComes(p)'
<1>1. /\ Members(p) \subseteq Members(p)'
      /\ \A d \in Members(p)' : d \notin Members(p) => Awaited(d)'
  BY MembersGrow DEF Remembers
<1>2. ASSUME NEW d \in Members(p)', Owes(d)'
      PROVE  CountComes(p)'
  BY <1>2 DEF CountComes
<1>3. CASE Members(p)' # Members(p)
  <2>1. PICK d \in Members(p)' : Awaited(d)'
    BY <1>1, <1>3
  <2>2. Owes(d)'
    BY <2>1 DEF Owes
  <2> QED
    BY <1>2, <2>2
<1>4. CASE Members(p)' = Members(p)
  <2>1. CASE CountRight(p)
    BY <1>4, <2>1 DEF CountRight
  <2>2. CASE Members(p) # {} /\ p \in Names(watch.pool)
    BY <1>4, <2>2 DEF CountComes, Remembers, Announces
  <2>3. ASSUME NEW d \in Members(p), Owes(d)
        PROVE  CountComes(p)'
    <3>1. d \in Detector
      BY <2>3 DEF Members
    <3>2. d \in Members(p)' /\ Owes(d)'
      BY <1>4, <2>3, <3>1, OwesRemembered
    <3> QED
      BY <1>2, <3>2
  <2>4. CASE pc = "pool" /\ run.pool = p /\ run.stats.allocated = Cardinality(Members(p))
    BY <1>4, <2>4 DEF CountComes
  <2>5. CountRight(p) \/ CountComes(p)
    BY DEF Counted
  <2> QED
    BY <2>1, <2>2, <2>3, <2>4, <2>5 DEF CountComes
<1> QED
  BY <1>3, <1>4

(* The streams. *)
LEMMA ReferredStay ==
  ASSUME RefsStay, NEW d \in Detector, NEW obj, Refers(d, obj)
  PROVE  Refers(d, obj)'
BY DEF Refers, RefsStay

LEMMA RefsUnchanged ==
  ASSUME RefsKnown, UNCHANGED <<det, cache>>, watch'.det = watch.det
  PROVE  RefsKnown'
<1>1. ASSUME NEW d, NEW obj, Refers(d, obj)
      PROVE  Refers(d, obj)'
  BY <1>1 DEF Refers
<1>2. ASSUME NEW d \in Detector
      PROVE  Refers(d, cache.det[d])'
  <2>1. PICK obj : obj = cache.det[d]
    OBVIOUS
  <2>2. Refers(d, obj)'
    BY <1>1, <2>1 DEF RefsKnown
  <2> QED
    BY <2>1, <2>2 DEF Refers
<1>3. ASSUME NEW i \in DOMAIN watch'.det
      PROVE  Refers(watch.det[i].name, watch.det[i].obj)'
  <2>1. PICK d, obj : d = watch.det[i].name /\ obj = watch.det[i].obj
    OBVIOUS
  <2>2. Refers(d, obj)'
    BY <1>1, <1>3, <2>1 DEF RefsKnown
  <2> QED
    BY <2>1, <2>2 DEF Refers
<1> QED
  BY <1>2, <1>3 DEF RefsKnown

LEMMA RefsWritten ==
  ASSUME StoreTyped, RefsKnown, RefsStay, UNCHANGED cache,
         NEW e \in Detector, NEW new \in MaybeDetector, PutDetector(e, new)
  PROVE  RefsKnown'
<1>1. /\ det' = [x \in Detector |-> IF x = e THEN new ELSE det[x]]
      /\ watch' = watch \/ watch'.det = Append(watch.det, Event(e, new))
  BY DetectorPut
<1>2. ASSUME NEW d \in Detector
      PROVE  Refers(d, cache.det[d])'
  <2>1. PICK obj : obj = cache.det[d]
    OBVIOUS
  <2>2. Refers(d, obj)'
    BY <2>1, ReferredStay DEF RefsKnown
  <2> QED
    BY <2>1, <2>2 DEF Refers
<1>3. ASSUME NEW i \in DOMAIN watch'.det
      PROVE  Refers(watch.det[i].name, watch.det[i].obj)'
  <2>1. PICK d, obj : d = watch'.det[i].name /\ obj = watch'.det[i].obj
    OBVIOUS
  <2>2. \/ \E j \in DOMAIN watch.det : watch'.det[i] = watch.det[j]
        \/ watch'.det[i] = Event(e, new)
    <3>1. CASE watch' = watch
      BY <1>3, <3>1
    <3>2. CASE watch'.det = Append(watch.det, Event(e, new))
      <4>1. IsSeq(watch.det)
        BY DEF StoreTyped, WatchTyped
      <4> QED
        BY <1>3, <3>2, <4>1, Appended
    <3> QED
      BY <1>1, <3>1, <3>2
  <2>3. ASSUME NEW j \in DOMAIN watch.det, watch'.det[i] = watch.det[j]
        PROVE  Refers(d, obj)'
    <3>1. d \in Detector /\ Refers(d, obj)
      BY <2>1, <2>3 DEF RefsKnown, StoreTyped, WatchTyped, EventsTyped
    <3> QED
      BY <3>1, ReferredStay
  <2>4. ASSUME watch'.det[i] = Event(e, new)
        PROVE  Refers(d, obj)'
    <3>1. d = e /\ obj = new
      BY <2>1, <2>4 DEF Event
    <3>2. det'[d] = obj
      BY <1>1, <3>1
    <3> QED
      BY <3>2 DEF Refers
  <2>5. Refers(d, obj)'
    BY <2>2, <2>3, <2>4
  <2> QED
    BY <2>1, <2>5 DEF Refers
<1> QED
  BY <1>2, <1>3 DEF RefsKnown

LEMMA PoolsUnchanged ==
  ASSUME PoolStreamed, UNCHANGED <<pools, cache>>, watch'.pool = watch.pool
  PROVE  PoolStreamed'
BY DEF PoolStreamed

LEMMA PoolsWritten ==
  ASSUME StoreTyped, PoolStreamed, UNCHANGED cache,
         NEW p \in PoolName, NEW obj, PoolTyped(p, obj), PutPool(p, obj)
  PROVE  PoolStreamed'
<1>1. pools' = [x \in PoolName |-> IF x = p THEN obj ELSE pools[x]]
  BY PoolPut
<1>2. /\ IsSeq(watch.pool)
      /\ watch = [det |-> watch.det, dev |-> watch.dev, pool |-> watch.pool]
  BY DEF StoreTyped, WatchTyped
<1>3. (watch'.pool = watch.pool /\ obj = pools[p]) \/ watch'.pool = Append(watch.pool, Event(p, obj))
  <2>1. CASE obj = pools[p]
    BY <2>1 DEF PutPool
  <2>2. CASE obj # pools[p]
    <3>1. watch' = [watch EXCEPT !["pool"] = Append(@, Event(p, obj))]
      BY <2>2 DEF PutPool, Publish
    <3> QED
      BY <1>2, <3>1
  <2> QED
    BY <2>1, <2>2
<1> SUFFICES ASSUME NEW x \in PoolName
             PROVE  Follows(watch'.pool, x, cache.pool[x], pools'[x])
  BY DEF PoolStreamed
<1>4. Follows(watch.pool, x, cache.pool[x], pools[x])
  BY DEF PoolStreamed
<1>5. CASE watch'.pool = watch.pool /\ obj = pools[p]
  <2>1. pools'[x] = pools[x]
    BY <1>1, <1>5
  <2> QED
    BY <1>4, <1>5, <2>1
<1>6. CASE watch'.pool = Append(watch.pool, Event(p, obj))
  <2>1. Follows(Append(watch.pool, Event(p, obj)), x, cache.pool[x], IF p = x THEN obj ELSE pools[x])
    BY <1>2, <1>4, FollowsWrite
  <2>2. pools'[x] = IF p = x THEN obj ELSE pools[x]
    BY <1>1
  <2> QED
    BY <1>6, <2>1, <2>2
<1> QED
  BY <1>3, <1>5, <1>6

-----------------------------------------------------------------------------
(* Names of detectors and names of pools are different.                    *)
LEMMA DifferentNames ==
  ASSUME NEW d \in Detector, NEW p \in PoolName
  PROVE  d # p
BY StoreAssumption

(* The others outdate a copy only by a change that is announced.           *)
LEMMA OthersOutdate ==
  ASSUME Informed, OthersStep
  PROVE  /\ current' \subseteq current
         /\ \A d \in Detector : d \in current /\ d \notin current' => det'[d] # det[d]
         /\ \A p \in PoolName : p \in current /\ p \notin current' => pools'[p] # pools[p]
         /\ \A p \in PoolName : pools'[p].status = pools[p].status
<1>1. StoreTyped
  BY DEF Informed, OperatorTyped
<1>2. CASE OutsideWrite
  <2>1. PICK e \in Detector, obj \in MaybeDetector : Outside(e, obj)
    BY <1>2 DEF OutsideWrite
  <2>2. det' = [x \in Detector |-> IF x = e THEN obj ELSE det[x]] /\ UNCHANGED pools
    BY <1>1, <2>1, DetectorPut DEF Outside
  <2>3. current' = IF obj # det[e] THEN current \ {e} ELSE current
    BY <2>1 DEF Outside
  <2>4. \A p \in PoolName : p # e
    BY DifferentNames
  <2> QED
    BY <2>2, <2>3, <2>4
<1>3. CASE PoolEdited
  <2>1. PICK p \in PoolName, cfg \in PoolEdits :
          /\ pools[p] # Absent /\ cfg # pools[p].cfg
          /\ PutPool(p, [pools[p] EXCEPT !.cfg = cfg]) /\ current' = current \ {p}
    BY <1>3 DEF PoolEdited
  <2>2. IsPool(pools[p]) /\ pools = [x \in PoolName |-> pools[x]]
    BY <1>1, <2>1 DEF StoreTyped, ObjectsTyped, PoolTyped
  <2>3. /\ pools' = [x \in PoolName |-> IF x = p THEN [pools[p] EXCEPT !.cfg = cfg] ELSE pools[x]]
        /\ UNCHANGED det
    BY <2>1, <2>2 DEF PutPool
  <2>4. pools'[p].cfg = cfg /\ pools'[p].status = pools[p].status
    BY <2>2, <2>3 DEF IsPool
  <2>5. \A d \in Detector : d # p
    BY DifferentNames
  <2>6. \A x \in PoolName : x # p => pools'[x] = pools[x]
    BY <2>3
  <2>7. \A x \in PoolName : pools'[x].status = pools[x].status
    BY <2>4, <2>6
  <2>8. pools'[p] # pools[p]
    BY <2>1, <2>4
  <2> QED
    BY <2>1, <2>3, <2>5, <2>7, <2>8
<1>4. CASE DeviceEdited \/ UNCHANGED storeVars
  BY <1>4 DEF DeviceEdited, PutDevice, storeVars
<1> QED
  BY <1>2, <1>3, <1>4 DEF OthersStep

LEMMA OthersStreams ==
  ASSUME Informed, Settling, OthersStep, RefsStay
  PROVE  RefsKnown' /\ PoolStreamed'
<1>1. StoreTyped /\ RefsKnown /\ PoolStreamed /\ UNCHANGED cache
  BY DEF Informed, OperatorTyped, Settling, OthersStep, controllerVars
<1>2. CASE OutsideWrite
  <2>1. PICK e \in Detector, obj \in MaybeDetector : PutDetector(e, obj)
    BY <1>2 DEF OutsideWrite, Outside
  <2>2. UNCHANGED pools /\ watch'.pool = watch.pool
    BY <1>1, <2>1, DetectorPut
  <2> QED
    BY <1>1, <2>1, <2>2, RefsWritten, PoolsUnchanged
<1>3. CASE PoolEdited
  <2>1. PICK p \in PoolName, cfg \in PoolEdits :
          pools[p] # Absent /\ PutPool(p, [pools[p] EXCEPT !.cfg = cfg])
    BY <1>3 DEF PoolEdited
  <2> DEFINE obj == [pools[p] EXCEPT !.cfg = cfg]
  <2>2. PoolTyped(p, obj)
    <3>1. PoolTyped(p, pools[p]) /\ cfg \in Configuration
      BY <1>1, SystemAssumption DEF StoreTyped, ObjectsTyped
    <3> QED
      BY <2>1, <3>1 DEF PoolTyped, IsPool
  <2> HIDE DEF obj
  <2>3. PutPool(p, obj)
    BY <2>1 DEF obj
  <2>4. UNCHANGED det /\ watch'.det = watch.det
    BY <1>1, <2>2, <2>3, PoolPut
  <2> QED
    BY <1>1, <2>2, <2>3, <2>4, PoolsWritten, RefsUnchanged
<1>4. CASE DeviceEdited
  <2>1. PICK v \in Device, p \in DeviceEdits : PutDevice(v, p)
    BY <1>4 DEF DeviceEdited
  <2>2. p \in PoolName \cup {Absent}
    BY SystemAssumption
  <2>3. UNCHANGED <<det, pools>> /\ watch'.det = watch.det /\ watch'.pool = watch.pool
    BY <1>1, <2>1, <2>2, DevicePut
  <2> QED
    BY <1>1, <2>3, RefsUnchanged, PoolsUnchanged
<1>5. CASE UNCHANGED storeVars
  BY <1>1, <1>5, RefsUnchanged, PoolsUnchanged DEF storeVars
<1> QED
  BY <1>2, <1>3, <1>4, <1>5 DEF OthersStep

LEMMA OthersServed ==
  ASSUME Informed, Served, OthersStep
  PROVE  Served' /\ Remembers
<1>1. Announces
  BY OthersAnnounce
<1>2. UNCHANGED <<cache, queue, pc, run>>
  BY DEF OthersStep, controllerVars
<1>3. /\ current' \subseteq current
      /\ \A d \in Detector : d \in current /\ d \notin current' => det'[d] # det[d]
  BY OthersOutdate
<1>4. Remembers
  <2>1. \A d \in Detector : Working(d) => Owes(d)'
    BY <1>2 DEF Working, Owes
  <2> QED
    BY <1>1, <1>2, <2>1 DEF Remembers
<1>5. PICK d, obj : d = run.name /\ obj = run.obj
  OBVIOUS
<1>6. d = run'.name /\ obj = run'.obj
  BY <1>2, <1>5
<1>7. RunWrites'
  <2> SUFFICES ASSUME pc \in {"list", "spec", "status", "fail"}, ~Awaited(d)'
               PROVE  /\ d \in current'
                      /\ pc = "list" => obj = det'[d]
                      /\ pc = "spec" => SpecOf(obj) # SpecOf(det'[d])
                      /\ pc \in {"status", "fail"} => StatusOf(obj) # StatusOf(det'[d])
    <3>1. (d \in current')
          /\ (pc = "list" => obj = det'[d])
          /\ (pc = "spec" => SpecOf(obj) # SpecOf(det'[d]))
          /\ (pc \in {"status", "fail"} => StatusOf(obj) # StatusOf(det'[d]))
          => (run.name \in current')
             /\ (pc = "list" => run.obj = det'[run.name])
             /\ (pc = "spec" => SpecOf(run.obj) # SpecOf(det'[run.name]))
             /\ (pc \in {"status", "fail"} => StatusOf(run.obj) # StatusOf(det'[run.name]))
      BY <1>5
    <3>2. Awaited(d)' => Awaited(run.name)'
      BY <1>6
    <3> QED
      BY <1>2, <3>1, <3>2 DEF RunWrites
  <2>1. d \in Detector
    BY <1>5 DEF Informed, OperatorTyped, RunTyped
  <2>2. ~Awaited(d)
    BY <1>4, <2>1, OwesRemembered
  <2>3. det'[d] = det[d]
    BY <1>1, <2>1 DEF Announces, Awaited
  <2>4. d \in current /\ d \in current'
    BY <1>3, <1>5, <2>1, <2>2, <2>3 DEF Served, RunWrites
  <2> QED
    BY <1>5, <2>2, <2>3, <2>4 DEF Served, RunWrites
<1> QED
  BY <1>4, <1>7, AnswersKept DEF Served

LEMMA OthersSettling ==
  ASSUME Informed, Settling, OthersStep, RefsStay, DevicesStay
  PROVE  Settling'
<1>1. Announces
  BY OthersAnnounce
<1>2. UNCHANGED <<cache, queue, pc, run>>
  BY DEF OthersStep, controllerVars
<1>3. /\ current' \subseteq current
      /\ \A p \in PoolName : p \in current /\ p \notin current' => pools'[p] # pools[p]
      /\ \A p \in PoolName : pools'[p].status = pools[p].status
  BY OthersOutdate
<1>4. Served' /\ Remembers
  BY OthersServed DEF Settling
<1>5. Counted'
  BY <1>2, <1>3, <1>4, CountKept DEF Settling, Counted
<1>6. PICK d, p, obj, poolObj : d = run.name /\ p = run.pool /\ obj = run.obj /\ poolObj = run.poolObj
  OBVIOUS
<1>7. d = run'.name /\ p = run'.pool /\ obj = run'.obj /\ poolObj = run'.poolObj
  BY <1>2, <1>6
<1>8. pc # "idle" => d \in Detector
  BY <1>6 DEF Informed, OperatorTyped, RunTyped
<1>9. pc \notin {"idle", "fail"} => p \in PoolName
  BY <1>6 DEF Informed, OperatorTyped, RunTyped
<1>10. RunPlaced'
  <2> SUFFICES ASSUME pc \notin {"idle", "fail"}
               PROVE  d \in Members(p)' /\ det'[d].ref = obj.ref
    BY <1>2, <1>7 DEF RunPlaced
  <2>1. d \in Members(p) /\ det[d].ref = obj.ref
    BY <1>6 DEF Settling, RunPlaced
  <2>2. d \in Members(p)'
    BY <1>1, <1>9, <2>1, MembersGrow
  <2>3. det'[d].ref = det[d].ref
    BY <2>1 DEF RefsStay, Members
  <2> QED
    BY <2>1, <2>2, <2>3
<1>11. RunPooled'
  <2> SUFFICES ASSUME pc \notin {"idle", "fail"}, ~Awaited(d)', p \notin Names(watch'.pool)
               PROVE  p \in current' /\ poolObj = pools'[p]
    BY <1>2, <1>7 DEF RunPooled
  <2>1. d \in Detector /\ p \in PoolName
    BY <1>8, <1>9
  <2>2. ~Awaited(d)
    BY <1>4, <2>1, OwesRemembered
  <2>3. p \notin Names(watch.pool) /\ pools'[p] = pools[p]
    BY <1>1, <2>1 DEF Announces
  <2>4. p \in current /\ poolObj = pools[p]
    BY <1>6, <2>2, <2>3 DEF Settling, RunPooled
  <2> QED
    BY <1>3, <2>1, <2>3, <2>4
<1> QED
  BY <1>4, <1>5, <1>10, <1>11, OthersStreams DEF Settling

-----------------------------------------------------------------------------
(***************************************************************************)
(* Writes of the reconcile's detector.                                     *)
(***************************************************************************)
LEMMA WrittenIsNews ==
  ASSUME Informed, RunWrites, pc \in {"spec", "status", "fail"}, run.name \in current, ~Awaited(run.name)
  PROVE  /\ pc = "spec" => SpecWritten # det[run.name]
         /\ pc \in {"status", "fail"} => StatusWritten # det[run.name]
<1>1. det[run.name] \in DetectorObject /\ run.obj \in DetectorObject
  BY Written DEF Informed, OperatorTyped, RunTyped
<1>2. SpecOf(SpecWritten) = SpecOf(run.obj)
  BY <1>1 DEF SpecOf, SpecWritten, DetectorObject
<1>3. StatusOf(StatusWritten) = StatusOf(run.obj)
  BY <1>1 DEF StatusOf, StatusWritten, DetectorObject
<1>4. /\ pc = "spec" => SpecOf(run.obj) # SpecOf(det[run.name])
      /\ pc \in {"status", "fail"} => StatusOf(run.obj) # StatusOf(det[run.name])
  BY DEF RunWrites
<1>5. CASE pc = "spec"
  <2>1. SpecOf(SpecWritten) # SpecOf(det[run.name])
    BY <1>2, <1>4, <1>5
  <2> QED
    BY <1>5, <2>1
<1>6. CASE pc \in {"status", "fail"}
  <2>1. StatusOf(StatusWritten) # StatusOf(det[run.name])
    BY <1>3, <1>4, <1>6
  <2> QED
    BY <1>6, <2>1
<1> QED
  BY <1>5, <1>6

(* Where the reconcile goes on after a write. *)
Passes ==
  \/ pc' = "idle"
  \/ /\ pc' \in {"status", "pool"} /\ pc \in {"spec", "status"}
     /\ run'.name = run.name /\ run'.pool = run.pool /\ run'.obj.ref = run.obj.ref

Writes ==
  /\ pc \in {"spec", "status", "fail"} /\ run.name \in current
  /\ PutDetector(run.name, IF pc = "spec" THEN SpecWritten ELSE StatusWritten)
  /\ UNCHANGED cache /\ queue \subseteq queue'
  /\ Passes

LEMMA WriteSteps ==
  ASSUME Informed, UpdateSpec \/ UpdateStatus \/ PatchFailed \/ AnswerLost
  PROVE  Writes
<1>1. RunTyped
  BY DEF Informed, OperatorTyped
<1>2. CASE UpdateSpec
  <2> DEFINE obj == DecodedInto(run.obj, SpecWritten)
             r == [run EXCEPT !.obj = obj]
  <2>1. /\ pc = "spec" /\ run.name \in current /\ PutDetector(run.name, SpecWritten)
        /\ Goto("status", r) \/ PoolStatusOrFinish(r)
    BY <1>2 DEF UpdateSpec
  <2>2. obj.ref = run.obj.ref
    <3>1. run.obj \in DetectorObject
      BY <1>1, <2>1 DEF RunTyped
    <3> QED
      BY <3>1 DEF DecodedInto, DetectorObject
  <2> HIDE DEF obj
  <2>3. r.name = run.name /\ r.pool = run.pool /\ r.obj = obj
    BY <1>1, <2>1 DEF RunTyped, Reconcile
  <2> HIDE DEF r
  <2>4. /\ UNCHANGED <<cache, queue>>
        /\ (pc' \in {"status", "pool"} /\ run' = r) \/ pc' = "idle"
    BY <2>1 DEF Goto, PoolStatusOrFinish, Finish
  <2>5. Passes
    BY <2>1, <2>2, <2>3, <2>4 DEF Passes
  <2> QED
    BY <2>1, <2>4, <2>5 DEF Writes
<1>3. CASE UpdateStatus
  <2>1. /\ UNCHANGED <<cache, queue>>
        /\ (pc' = "pool" /\ run' = run) \/ pc' = "idle"
    BY <1>3 DEF UpdateStatus, PoolStatusOrFinish, Goto, Finish
  <2> QED
    BY <1>3, <2>1 DEF UpdateStatus, Writes, Passes
<1>4. CASE PatchFailed
  BY <1>4 DEF PatchFailed, Finish, Writes, Passes
<1>5. CASE AnswerLost
  BY <1>5 DEF AnswerLost, Requeue, Writes, Passes
<1> QED
  BY <1>2, <1>3, <1>4, <1>5

(* What it writes is news, and its informer will wake the detector again.  *)
LEMMA WriteServed ==
  ASSUME Informed, Served, Writes
  PROVE  /\ Served' /\ Remembers
         /\ \E d \in Detector, new \in MaybeDetector :
              d = run.name /\ PutDetector(d, new) /\ Awaited(d)'
<1>1. StoreTyped /\ RunTyped
  BY DEF Informed, OperatorTyped
<1>2. PICK d \in Detector, new \in MaybeDetector :
        /\ d = run.name /\ PutDetector(d, new)
        /\ ~Awaited(d) => new # det[d]
  <2>1. SpecWritten \in MaybeDetector /\ StatusWritten \in MaybeDetector /\ run.name \in Detector
    BY Written DEF Writes, MaybeDetector
  <2>2. ~Awaited(run.name) => /\ pc = "spec" => SpecWritten # det[run.name]
                              /\ pc \in {"status", "fail"} => StatusWritten # det[run.name]
    BY WrittenIsNews DEF Writes, Served
  <2>3. CASE pc = "spec"
    BY <2>1, <2>2, <2>3 DEF Writes
  <2>4. CASE pc # "spec"
    BY <2>1, <2>2, <2>4 DEF Writes
  <2> QED
    BY <2>3, <2>4
<1>3. Announces
  BY <1>1, <1>2, DetectorAnnounced
<1>4. det' = [x \in Detector |-> IF x = d THEN new ELSE det[x]]
  BY <1>1, <1>2, DetectorPut
<1>5. queue \subseteq queue' /\ pc \in {"spec", "status", "fail"} /\ Passes
  BY DEF Writes
<1>6. Awaited(d)'
  <2>1. CASE Awaited(d)
    BY <1>3, <1>5, <2>1, StaysAwaited
  <2>2. CASE ~Awaited(d)
    <3>1. det'[d] # det[d]
      BY <1>2, <1>4, <2>2
    <3> QED
      BY <1>3, <3>1 DEF Announces, Awaited
  <2> QED
    BY <2>1, <2>2
<1>7. Remembers
  <2>1. \A x \in Detector : Working(x) => Owes(x)'
    BY <1>2, <1>6 DEF Working, Owes
  <2> QED
    BY <1>3, <1>5, <2>1 DEF Remembers
<1>8. RunWrites'
  <2> SUFFICES ASSUME pc' # "idle"
               PROVE  Awaited(run.name)'
    BY DEF RunWrites
  <2>1. d = run'.name
    BY <1>2, <1>5 DEF Passes
  <2> QED
    BY <1>6, <2>1
<1> QED
  BY <1>2, <1>6, <1>7, <1>8, AnswersKept DEF Served

LEMMA WriteSettling ==
  ASSUME Informed, Settling, Writes, RefsStay, DevicesStay
  PROVE  Settling'
<1>1. StoreTyped /\ RunTyped
  BY DEF Informed, OperatorTyped
<1>2. /\ Served' /\ Remembers
      /\ \E d \in Detector, new \in MaybeDetector :
           d = run.name /\ PutDetector(d, new) /\ Awaited(d)'
  BY WriteServed DEF Settling
<1>3. PICK d \in Detector, new \in MaybeDetector : d = run.name /\ PutDetector(d, new) /\ Awaited(d)'
  BY <1>2
<1>4. Announces
  BY <1>2 DEF Remembers
<1>5. UNCHANGED <<dev, pools>> /\ watch'.pool = watch.pool
  BY <1>1, <1>3, DetectorPut
<1>6. UNCHANGED cache /\ pc \in {"spec", "status", "fail"} /\ Passes
  BY DEF Writes
<1>7. Counted'
  BY <1>2, <1>5, <1>6, CountKept DEF Settling, Counted
<1>8. RefsKnown' /\ PoolStreamed'
  BY <1>1, <1>3, <1>5, <1>6, RefsWritten, PoolsUnchanged DEF Settling
<1>9. RunPooled'
  <2> SUFFICES ASSUME pc' # "idle"
               PROVE  Awaited(run.name)'
    BY DEF RunPooled
  <2>1. d = run'.name
    BY <1>3, <1>6 DEF Passes
  <2> QED
    BY <1>3, <2>1
<1>10. RunPlaced'
  <2> SUFFICES ASSUME pc' # "idle"
               PROVE  run'.name \in Members(run.pool)' /\ det'[run'.name].ref = run'.obj.ref
    BY DEF RunPlaced
  <2>1. /\ pc \in {"spec", "status"} /\ run'.name = run.name /\ run'.pool = run.pool
        /\ run'.obj.ref = run.obj.ref
    BY <1>6 DEF Passes
  <2>2. d \in Members(run.pool) /\ det[d].ref = run.obj.ref
    BY <1>3, <2>1 DEF Settling, RunPlaced
  <2>3. PICK p \in PoolName : p = run.pool
    BY <1>1, <2>1 DEF RunTyped
  <2>4. d \in Members(p)'
    BY <1>4, <2>2, <2>3, MembersGrow
  <2>5. det'[d].ref = det[d].ref
    BY <2>2 DEF RefsStay, Members
  <2>6. p = run'.pool
    BY <2>1, <2>3
  <2>7. d \in Members(run.pool)'
    BY <2>4, <2>6 DEF Members
  <2> QED
    BY <1>3, <2>1, <2>2, <2>5, <2>7
<1> QED
  BY <1>2, <1>7, <1>8, <1>9, <1>10 DEF Settling

(* A write that was refused will be tried again. *)
LEMMA ConflictServed ==
  ASSUME Served, Conflict \/ (WriteRefused /\ pc # "pool")
  PROVE  Served' /\ Remembers
<1>1. /\ UNCHANGED <<det, dev, pools, watch>> /\ pc' = "idle" /\ queue' = queue \cup {run.name}
      /\ pc \in {"spec", "status", "fail"}
  BY DEF Conflict, WriteRefused, Requeue
<1>2. Announces
  BY <1>1, NothingAnnounced
<1>3. \A x \in Detector : Working(x) => Owes(x)'
  BY <1>1 DEF Working, Owes, Awaited
<1>4. Remembers
  BY <1>1, <1>2, <1>3 DEF Remembers
<1> QED
  BY <1>1, <1>4, ServedAtRest

LEMMA ConflictSettling ==
  ASSUME Informed, Settling, Conflict \/ (WriteRefused /\ pc # "pool"), RefsStay, DevicesStay
  PROVE  Settling'
<1>1. UNCHANGED <<det, pools, watch, cache>> /\ pc' = "idle" /\ pc \in {"spec", "status", "fail"}
  BY DEF Conflict, WriteRefused, Requeue
<1>2. Served' /\ Remembers
  BY ConflictServed DEF Settling
<1>3. Counted'
  BY <1>1, <1>2, CountKept DEF Settling, Counted
<1>4. RefsKnown' /\ PoolStreamed'
  BY <1>1, RefsUnchanged, PoolsUnchanged DEF Settling
<1>5. RunPlaced' /\ RunPooled'
  BY <1>1 DEF RunPlaced, RunPooled
<1> QED
  BY <1>2, <1>3, <1>4, <1>5 DEF Settling

-----------------------------------------------------------------------------
LEMMA LaggingNames ==
  ASSUME WatchTyped
  PROVE  Lagging = Names(watch.det) \cup Names(watch.dev) \cup Names(watch.pool)
<1>1. DOMAIN watch = {"det", "dev", "pool"}
  BY DEF WatchTyped
<1>2. Lagging = UNION {Names(watch[k]) : k \in {"det", "dev", "pool"}}
  BY <1>1 DEF Lagging, Names
<1> QED
  BY <1>2

LEMMA NamesKinds ==
  ASSUME StoreTyped
  PROVE  /\ Names(watch.det) \subseteq Detector
         /\ Names(watch.dev) \subseteq Device
         /\ Names(watch.pool) \subseteq PoolName
BY DEF StoreTyped, WatchTyped, EventsTyped, Names

(***************************************************************************)
(* The begin of a reconcile.  It reads copies, and what they are not told  *)
(* of yet will have the detector reconciled again.                         *)
(***************************************************************************)
Starts(d) ==
  /\ pc = "idle" /\ queue' = queue \ {d} /\ cache.det[d] # Absent
  /\ UNCHANGED <<det, dev, pools, watch, cache>>
  /\ \/ /\ pc' = "idle" /\ cache.det[d].phase = Failed
     \/ /\ pc' = "fail" /\ current' = {d} \ Lagging /\ run'.name = d
        /\ StatusOf(run'.obj) # StatusOf(cache.det[d])
     \/ /\ pc' = "list" /\ run'.name = d /\ run'.obj = cache.det[d]
        /\ cache.det[d].ref # None /\ cache.dev[cache.det[d].ref] # Absent
        /\ run'.pool = cache.dev[cache.det[d].ref] /\ run'.poolObj = cache.pool[run'.pool]
        /\ current' = {d, run'.pool} \ Lagging

LEMMA BeginStarts ==
  ASSUME Informed, NEW d \in Detector, Begin(d)
  PROVE  \/ Starts(d)
         \/ /\ cache.det[d] = Absent /\ pc' = "idle" /\ pc = "idle" /\ queue' = queue \ {d}
            /\ UNCHANGED <<det, dev, pools, watch, cache>>
<1> DEFINE obj == cache.det[d]
           pool == cache.dev[obj.ref]
           Failing(m) == [obj EXCEPT !.phase = Failed, !.message = m]
           ToFail(m) == /\ pc' = "fail" /\ current' = {d} \ Lagging
                        /\ run' = Reconcile(d, Failing(m), None, Absent, TRUE, NoStats)
                        /\ Failing(m) # obj
           Failure0(m) == Failing(m) = obj /\ pc' = "idle"
           ToList == /\ pc' = "list" /\ current' = {d, pool} \ Lagging
                     /\ run' = Reconcile(d, obj, pool, cache.pool[pool], FALSE, NoStats)
                     /\ obj.ref # None /\ pool # Absent
<1>1. /\ UNCHANGED <<det, dev, pools, watch, cache>> /\ queue' = queue \ {d} /\ pc = "idle"
      /\ \/ obj = Absent /\ pc' = "idle"
         \/ obj # Absent /\ (ToList \/ \E m \in Messages : ToFail(m) \/ Failure0(m))
  BY DEF Begin, Messages
<1>2. obj \in MaybeDetector
  BY DEF Informed, OperatorTyped, CacheTyped, ObjectsTyped
<1> HIDE DEF obj, pool
<1>3. ASSUME obj # Absent, NEW m \in Messages, ToFail(m) \/ Failure0(m)
      PROVE  Starts(d)
  <2>1. obj \in DetectorObject
    BY <1>2, <1>3 DEF MaybeDetector
  <2>2. /\ Failing(m) = obj => obj.phase = Failed
        /\ StatusOf(Failing(m)) = StatusOf(obj) => Failing(m) = obj
    <3>1. StatusOf(Failing(m)) = <<obj.observed, obj.assigned, Failed, m>>
      BY <2>1 DEF StatusOf, DetectorObject
    <3>2. StatusOf(Failing(m)) = StatusOf(obj) => obj.phase = Failed /\ obj.message = m
      BY <3>1 DEF StatusOf
    <3>3. obj.phase = Failed /\ obj.message = m => Failing(m) = obj
      BY <2>1 DEF DetectorObject
    <3>4. Failing(m).phase = Failed
      BY <2>1 DEF DetectorObject
    <3> QED
      BY <3>2, <3>3, <3>4
  <2>3. PICK new : new = Failing(m)
    OBVIOUS
  <2> HIDE DEF Failing
  <2>4. CASE ToFail(m)
    <3>1. /\ pc' = "fail" /\ current' = {d} \ Lagging /\ run'.name = d /\ run'.obj = new
      BY <2>3, <2>4 DEF Reconcile
    <3>2. StatusOf(new) # StatusOf(obj)
      BY <2>2, <2>3, <2>4
    <3> QED
      BY <1>1, <1>3, <3>1, <3>2 DEF Starts, obj
  <2>5. CASE Failure0(m)
    BY <1>1, <1>3, <2>2, <2>5 DEF Starts, obj
  <2> QED
    BY <1>3, <2>4, <2>5
<1>4. ASSUME obj # Absent, ToList
      PROVE  Starts(d)
  <2>1. /\ run'.name = d /\ run'.obj = obj /\ run'.pool = pool /\ run'.poolObj = cache.pool[pool]
    BY <1>4 DEF Reconcile
  <2> QED
    BY <1>1, <1>4, <2>1 DEF Starts, obj, pool
<1> QED
  BY <1>1, <1>3, <1>4 DEF obj

LEMMA BeginServed ==
  ASSUME Informed, Served, NEW d \in Detector, Begin(d)
  PROVE  /\ Served'
         /\ \A x \in Detector : det[x] # Absent /\ Owes(x) => Owes(x)'
<1>1. /\ UNCHANGED <<det, dev, watch, cache>> /\ pc = "idle" /\ queue' = queue \ {d}
      /\ Starts(d) \/ (cache.det[d] = Absent /\ pc' = "idle")
  BY BeginStarts DEF Starts
<1>2. StoreTyped /\ WatchTyped
  BY DEF Informed, OperatorTyped, StoreTyped
<1>3. d \notin Names(watch.det) => cache.det[d] = det[d]
  BY UpToDateCopy DEF Informed, Streamed
<1>4. d \notin Names(watch.det) => d \notin Lagging
  BY <1>2, LaggingNames, NamesKinds, StoreAssumption
<1>5. d \in Names(watch.det) => Awaited(d)'
  BY <1>1 DEF Awaited
<1>6. det[d] # Absent => Owes(d)'
  <2> SUFFICES ASSUME det[d] # Absent, d \notin Names(watch.det)
               PROVE  Owes(d)'
    BY <1>5 DEF Owes
  <2>1. cache.det[d] = det[d]
    BY <1>3
  <2>2. Starts(d)
    BY <1>1, <2>1
  <2>3. CASE pc' = "idle"
    <3>1. det'[d] # Absent /\ det'[d].phase = Failed
      BY <1>1, <2>1, <2>2, <2>3 DEF Starts
    <3> QED
      BY <3>1 DEF Owes, HasFailed
  <2>4. CASE pc' # "idle"
    BY <2>2, <2>4 DEF Starts, Owes, Working
  <2> QED
    BY <2>3, <2>4
<1>7. \A x \in Detector : det[x] # Absent /\ Owes(x) => Owes(x)'
  <2> SUFFICES ASSUME NEW x \in Detector, x # d, Owes(x)
               PROVE  Owes(x)'
    BY <1>6
  <2>1. Awaited(x) => Awaited(x)'
    BY <1>1 DEF Awaited
  <2>2. HasFailed(x) => HasFailed(x)'
    BY <1>1 DEF HasFailed
  <2>3. ~Working(x)
    BY <1>1 DEF Working
  <2> QED
    BY <2>1, <2>2, <2>3 DEF Owes
<1>8. Answered'
  <2> SUFFICES ASSUME NEW x \in Detector, det[x] # Absent
               PROVE  det[x].assigned # None \/ Owes(x)'
    BY <1>1 DEF Answered
  <2> QED
    BY <1>7 DEF Served, Answered
<1>9. CASE pc' = "idle"
  <2>1. RunWrites'
    BY <1>9 DEF RunWrites
  <2> QED
    BY <1>7, <1>8, <2>1 DEF Served
<1>10. CASE pc' = "fail"
  <2>1. /\ current' = {d} \ Lagging /\ run'.name = d /\ StatusOf(run'.obj) # StatusOf(cache.det[d])
    BY <1>1, <1>10 DEF Starts
  <2>2. CASE d \in Names(watch.det)
    <3>1. RunWrites'
      BY <1>5, <1>10, <2>1, <2>2 DEF RunWrites
    <3> QED
      BY <1>7, <1>8, <3>1 DEF Served
  <2>3. CASE d \notin Names(watch.det)
    <3>1. d \in current' /\ StatusOf(run'.obj) # StatusOf(det'[d])
      BY <1>1, <1>3, <1>4, <2>1, <2>3
    <3>2. RunWrites'
      BY <1>10, <2>1, <3>1 DEF RunWrites
    <3> QED
      BY <1>7, <1>8, <3>2 DEF Served
  <2> QED
    BY <2>2, <2>3
<1>11. CASE pc' = "list"
  <2>1. run'.name = d /\ run'.obj = cache.det[d] /\ current' = {d, run'.pool} \ Lagging
    BY <1>1, <1>11 DEF Starts
  <2>2. CASE d \in Names(watch.det)
    <3>1. RunWrites'
      BY <1>5, <2>1, <2>2 DEF RunWrites
    <3> QED
      BY <1>7, <1>8, <3>1 DEF Served
  <2>3. CASE d \notin Names(watch.det)
    <3>1. d \in current' /\ run'.obj = det'[d]
      BY <1>1, <1>3, <1>4, <2>1, <2>3
    <3>2. RunWrites'
      BY <1>11, <2>1, <3>1 DEF RunWrites
    <3> QED
      BY <1>7, <1>8, <3>2 DEF Served
  <2> QED
    BY <2>2, <2>3
<1> QED
  BY <1>1, <1>9, <1>10, <1>11 DEF Starts

LEMMA BeginSettling ==
  ASSUME Informed, Settling, Known, NEW d \in Detector, Begin(d)
  PROVE  Settling'
<1>1. /\ UNCHANGED <<det, dev, pools, watch, cache>> /\ pc = "idle" /\ queue' = queue \ {d}
      /\ Starts(d) \/ (cache.det[d] = Absent /\ pc' = "idle")
  BY BeginStarts DEF Starts
<1>2. StoreTyped /\ WatchTyped /\ RefsKnown /\ PoolStreamed
  BY DEF Informed, OperatorTyped, StoreTyped, Settling
<1>3. /\ Served'
      /\ \A x \in Detector : det[x] # Absent /\ Owes(x) => Owes(x)'
  BY BeginServed DEF Settling
<1>4. \A p : Members(p)' = Members(p)
  BY <1>1 DEF Members
<1>5. Counted'
  <2> SUFFICES ASSUME NEW p \in PoolName
               PROVE  CountRight(p)' \/ CountComes(p)'
    BY DEF Counted
  <2>1. CASE CountRight(p)
    BY <1>1, <1>4, <2>1 DEF CountRight
  <2>2. CASE Members(p) # {} /\ p \in Names(watch.pool)
    BY <1>1, <1>4, <2>2 DEF CountComes
  <2>3. ASSUME NEW x \in Members(p), Owes(x)
        PROVE  CountComes(p)'
    <3>1. x \in Detector /\ det[x] # Absent
      BY <2>3 DEF Members
    <3>2. x \in Members(p)' /\ Owes(x)'
      BY <1>3, <1>4, <2>3, <3>1
    <3> QED
      BY <3>2 DEF CountComes
  <2>4. CountRight(p) \/ CountComes(p)
    BY DEF Settling, Counted
  <2> QED
    BY <1>1, <2>1, <2>2, <2>3, <2>4 DEF CountComes
<1>6. RefsKnown' /\ PoolStreamed'
  BY <1>1, <1>2, RefsUnchanged, PoolsUnchanged
<1>7. CASE pc' \in {"idle", "fail"}
  <2>1. RunPlaced' /\ RunPooled'
    BY <1>7 DEF RunPlaced, RunPooled
  <2> QED
    BY <1>3, <1>5, <1>6, <2>1 DEF Settling
<1>8. CASE pc' = "list"
  <2>1. PICK obj, p :
          /\ obj = cache.det[d] /\ p = cache.dev[obj.ref]
          /\ obj # Absent /\ obj.ref # None /\ p # Absent
          /\ run'.name = d /\ run'.obj = obj /\ run'.pool = p /\ run'.poolObj = cache.pool[p]
          /\ current' = {d, p} \ Lagging
    BY <1>1, <1>8 DEF Starts
  <2>2. det[d] # Absent /\ det[d].ref = obj.ref
    BY <1>2, <2>1 DEF RefsKnown, Refers
  <2>3. obj.ref \in Device
    BY <2>1 DEF Informed, OperatorTyped, CacheTyped, ObjectsTyped, MaybeDetector, DetectorObject
  <2>4. dev[obj.ref] = p /\ p \in PoolName
    BY <2>1, <2>3 DEF Known, Informed, OperatorTyped, CacheTyped, ObjectsTyped
  <2>5. d \in Members(p)' /\ det'[d].ref = obj.ref
    BY <1>1, <1>4, <2>1, <2>2, <2>4 DEF Members
  <2>6. RunPlaced'
    BY <1>8, <2>1, <2>5 DEF RunPlaced, Members
  <2>7. RunPooled'
    <3>1. CASE p \in Names(watch.pool)
      BY <1>1, <2>1, <3>1 DEF RunPooled
    <3>2. CASE p \notin Names(watch.pool)
      <4>1. p \notin Lagging
        BY <1>2, <2>4, <3>2, LaggingNames, NamesKinds, StoreAssumption
      <4>2. cache.pool[p] = pools[p]
        BY <1>2, <2>4, <3>2, UpToDateCopy DEF PoolStreamed
      <4>3. p \in current' /\ run'.pool = p /\ run'.poolObj = pools'[p]
        BY <1>1, <2>1, <4>1, <4>2
      <4> QED
        BY <4>3 DEF RunPooled
    <3> QED
      BY <3>1, <3>2
  <2> QED
    BY <1>3, <1>5, <1>6, <2>6, <2>7 DEF Settling
<1> QED
  BY <1>1, <1>7, <1>8 DEF Starts

-----------------------------------------------------------------------------
(***************************************************************************)
(* The list.  A reconcile lists detectors of its pool only, and all those  *)
(* of which no news are to come.                                           *)
(***************************************************************************)
LEMMA ListedAreMembers ==
  ASSUME Informed, RefsKnown, Known, pc = "list", NEW d \in Detector, Listing(d)
  PROVE  d \in Members(run.pool)
<1>1. cache.det[d] # Absent /\ cache.det[d].ref # None /\ cache.dev[cache.det[d].ref] = run.pool
  BY DEF Listing, PoolDetectors
<1>2. det[d] # Absent /\ det[d].ref = cache.det[d].ref
  BY <1>1 DEF RefsKnown, Refers
<1>3. cache.det[d].ref \in Device /\ run.pool # Absent
  BY <1>1, SystemAssumption DEF Informed, OperatorTyped, RunTyped, CacheTyped, ObjectsTyped, MaybeDetector, DetectorObject
<1>4. dev[cache.det[d].ref] = run.pool
  BY <1>1, <1>3 DEF Known
<1> QED
  BY <1>1, <1>2, <1>4 DEF Members

LEMMA MembersAreListed ==
  ASSUME Informed, Answered, NEW d \in Members(run.pool), ~Owes(d)
  PROVE  Listing(d)
<1>1. d \in Detector /\ det[d] # Absent /\ det[d].ref # None /\ dev[det[d].ref] = run.pool
  BY DEF Members
<1>2. d \notin Names(watch.det) /\ det[d].ref \notin Names(watch.dev)
  BY <1>1 DEF Owes, Awaited
<1>3. det[d].ref \in Device
  BY <1>1 DEF Informed, OperatorTyped, StoreTyped, ObjectsTyped, MaybeDetector, DetectorObject
<1>4. cache.det[d] = det[d] /\ cache.dev[det[d].ref] = dev[det[d].ref]
  BY <1>1, <1>2, <1>3, UpToDateCopy DEF Informed, Streamed
<1>5. det[d].assigned # None
  BY <1>1 DEF Answered
<1> QED
  BY <1>1, <1>4, <1>5 DEF Listing, PoolDetectors, AssignedAddress

LEMMA ListStays ==
  ASSUME ListAndAllocate
  PROVE  /\ pc = "list" /\ UNCHANGED <<det, dev, pools, watch, cache, queue>>
         /\ RefsStay /\ Announces /\ DevicesStay
         /\ \A d : Awaited(d)' = Awaited(d)
         /\ \A p : Members(p)' = Members(p)
<1>1. UNCHANGED <<det, dev, pools, watch, cache, queue>> /\ pc = "list"
  BY DEF ListAndAllocate, Goto, PoolStatusOrFinish, Finish
<1>2. RefsStay /\ DevicesStay
  BY <1>1 DEF RefsStay, DevicesStay
<1>3. /\ \A d : Awaited(d)' = Awaited(d)
      /\ \A p : Members(p)' = Members(p)
  BY <1>1 DEF Awaited, Members
<1> QED
  BY <1>1, <1>2, <1>3, NothingAnnounced

(* A reconcile that ends its list owing nothing has counted its detector.  *)
LEMMA ListDone ==
  ASSUME Informed, RunWrites, ListAndAllocate,
         NEW new \in DetectorObject, NEW stats, Answers(new, stats), ListEnds(new, stats),
         NEW n \in Detector, n = run.name, ~Owes(n)'
  PROVE  /\ ~Awaited(n) /\ pc' \in {"pool", "idle"} /\ det[n].assigned # None
         /\ stats # NoStats /\ stats.allocated = Cardinality({d \in Detector : Listing(d)} \cup {n})
<1>1. pc = "list" /\ UNCHANGED det /\ Awaited(n)' = Awaited(n)
  BY ListStays
<1>2. ~Awaited(n) /\ run.obj = det[n] /\ det[n] # Absent
  <2>1. ~Awaited(n)
    BY <1>1 DEF Owes
  <2>2. run.obj = det[n] /\ run.obj \in DetectorObject
    BY <1>1, <2>1 DEF RunWrites, Informed, OperatorTyped, RunTyped
  <2> QED
    BY <2>1, <2>2, StoreAssumption, SystemAssumption
<1>3. pc' \in {"spec", "status"} => run'.name = n
  BY DEF ListEnds, Reconcile
<1>4. pc' \in {"pool", "idle"} /\ StatusOf(new) = StatusOf(run.obj)
  <2>1. pc' \notin {"spec", "status"}
    BY <1>3 DEF Owes, Working
  <2> QED
    BY <2>1 DEF ListEnds
<1>5. new.phase = det[n].phase /\ new.assigned = det[n].assigned
  BY <1>2, <1>4 DEF StatusOf
<1>6. ASSUME stats = NoStats
      PROVE  FALSE
  <2>1. det[n].phase = Failed
    BY <1>5, <1>6 DEF Answers
  <2>2. HasFailed(n)'
    BY <1>1, <1>2, <2>1 DEF HasFailed
  <2> QED
    BY <2>2 DEF Owes
<1> QED
  BY <1>2, <1>4, <1>5, <1>6 DEF Answers

LEMMA ListServed ==
  ASSUME Informed, Served, ListAndAllocate
  PROVE  /\ Served'
         /\ \A d \in Detector : d # run.name /\ Owes(d) => Owes(d)'
<1>1. /\ pc = "list" /\ UNCHANGED <<det, watch, queue>> /\ Announces
      /\ \A d : Awaited(d)' = Awaited(d)
  BY ListStays
<1>2. PICK new, stats : new \in DetectorObject /\ Answers(new, stats) /\ ListEnds(new, stats)
  BY ListOutcome DEF Informed
<1>3. PICK n : n \in Detector /\ n = run.name
  BY <1>1 DEF Informed, OperatorTyped, RunTyped
<1>4. Awaited(n) \/ (run.obj = det[n] /\ n \in current)
  BY <1>1, <1>3 DEF Served, RunWrites
<1>5. pc' # "idle" => run'.name = n /\ run'.obj = new /\ current' = current
  BY <1>2, <1>3 DEF ListEnds, Reconcile
<1>6. ASSUME NEW d \in Detector, d # n, Owes(d)
       PROVE  Owes(d)'
  <2>1. HasFailed(d) => HasFailed(d)'
    BY <1>1 DEF HasFailed
  <2>2. ~Working(d)
    BY <1>3, <1>6 DEF Working
  <2> QED
    BY <1>1, <1>6, <2>1, <2>2 DEF Owes
<1>7. RunWrites'
  <2> SUFFICES ASSUME pc' \in {"spec", "status", "fail"}, ~Awaited(n)'
               PROVE  /\ n \in current'
                      /\ pc' = "spec" => SpecOf(new) # SpecOf(det'[n])
                      /\ pc' \in {"status", "fail"} => StatusOf(new) # StatusOf(det'[n])
    <3>1. pc' # "list"
      BY <1>2 DEF ListEnds
    <3>2. Awaited(n)' => Awaited(run.name)' \/ pc' = "idle"
      BY <1>5
    <3> QED
      BY <1>5, <3>1, <3>2 DEF RunWrites
  <2>1. run.obj = det[n] /\ n \in current
    BY <1>1, <1>4
  <2>2. /\ pc' = "spec" => SpecOf(new) # SpecOf(run.obj)
        /\ pc' = "status" => StatusOf(new) # StatusOf(run.obj)
        /\ pc' # "fail" /\ current' = current
    BY <1>2 DEF ListEnds
  <2> QED
    BY <1>1, <2>1, <2>2
<1>8. Answered'
  <2> SUFFICES ASSUME NEW d \in Detector, det[d] # Absent
               PROVE  det[d].assigned # None \/ Owes(d)'
    BY <1>1 DEF Answered
  <2>1. CASE d # n
    BY <1>6, <2>1 DEF Served, Answered
  <2>2. CASE d = n
    BY <1>2, <1>3, <2>2, ListDone DEF Served
  <2> QED
    BY <2>1, <2>2
<1> QED
  BY <1>3, <1>6, <1>7, <1>8 DEF Served

LEMMA ListSettling ==
  ASSUME Informed, Settling, Known, ListAndAllocate
  PROVE  Settling'
<1>1. /\ pc = "list" /\ UNCHANGED <<det, dev, pools, watch, cache, queue>>
      /\ RefsStay /\ Announces /\ DevicesStay
      /\ \A d : Awaited(d)' = Awaited(d)
      /\ \A p : Members(p)' = Members(p)
  BY ListStays
<1>2. PICK new, stats : new \in DetectorObject /\ Answers(new, stats) /\ ListEnds(new, stats)
  BY ListOutcome DEF Informed
<1>3. RunTyped /\ run.name \in Detector /\ run.pool \in PoolName
  BY <1>1 DEF Informed, OperatorTyped, RunTyped
<1>4. RefsKnown' /\ PoolStreamed'
  BY <1>1, RefsUnchanged, PoolsUnchanged DEF Settling
<1>5. PICK n, p, poolObj :
        n \in Detector /\ p \in PoolName /\ n = run.name /\ p = run.pool /\ poolObj = run.poolObj
  BY <1>3
<1>6. n \in Members(p) /\ det[n].ref = new.ref /\ det[n] # Absent
  BY <1>1, <1>2, <1>5 DEF Settling, RunPlaced, ListEnds, Members
<1>7. /\ Served'
      /\ \A d \in Detector : d # n /\ Owes(d) => Owes(d)'
  BY <1>5, ListServed DEF Settling
<1>8. Awaited(n) \/ p \in Names(watch.pool) \/ (p \in current /\ poolObj = pools[p])
  BY <1>1, <1>5 DEF Settling, RunPooled
<1>9. pc' # "idle" =>
        /\ run'.name = n /\ run'.obj = new /\ run'.pool = p /\ run'.poolObj = poolObj
        /\ run'.stats = stats /\ current' = current
  BY <1>2, <1>5 DEF ListEnds, Reconcile
<1>10. RunPlaced'
  <2> SUFFICES ASSUME pc' # "idle"
               PROVE  n \in Members(p)' /\ det'[n].ref = new.ref
    BY <1>9 DEF RunPlaced, Members
  <2> QED
    BY <1>1, <1>6
<1>11. RunPooled'
  <2> SUFFICES ASSUME pc' # "idle"
               PROVE  Awaited(n)' \/ p \in Names(watch'.pool) \/ (p \in current' /\ poolObj = pools'[p])
    <3>1. Awaited(n)' => Awaited(run.name)' \/ pc' = "idle"
      BY <1>9
    <3> QED
      BY <1>9, <3>1 DEF RunPooled
  <2> QED
    BY <1>1, <1>8, <1>9
<1>12. CASE Owes(n)'
  <2>1. Remembers
    <3>1. \A d \in Detector : Working(d) => Owes(d)'
      BY <1>5, <1>12 DEF Working
    <3> QED
      BY <1>1, <3>1 DEF Remembers
  <2>2. Counted'
    BY <1>1, <2>1, CountKept DEF Settling, Counted
  <2> QED
    BY <1>4, <1>7, <1>10, <1>11, <2>2 DEF Settling
<1>13. CASE ~Owes(n)'
  <2>1. /\ ~Awaited(n) /\ pc' \in {"pool", "idle"} /\ det[n].assigned # None
        /\ stats # NoStats /\ stats.allocated = Cardinality({d \in Detector : Listing(d)} \cup {n})
    BY <1>2, <1>5, <1>13, ListDone DEF Settling, Served
  <2>2. ASSUME NEW q \in PoolName, q # p
        PROVE  CountRight(q)' \/ CountComes(q)'
    <3>1. n \notin Members(q)
      BY <1>6, <2>2 DEF Members
    <3>2. CASE CountRight(q)
      BY <1>1, <3>2 DEF CountRight
    <3>3. CASE Members(q) # {} /\ q \in Names(watch.pool)
      BY <1>1, <3>3 DEF CountComes
    <3>4. ASSUME NEW d \in Members(q), Owes(d)
          PROVE  CountComes(q)'
      <4>1. d \in Detector /\ d # n
        BY <3>1, <3>4 DEF Members
      <4>2. d \in Members(q)' /\ Owes(d)'
        BY <1>1, <1>7, <3>4, <4>1
      <4> QED
        BY <4>2 DEF CountComes
    <3>5. CountRight(q) \/ CountComes(q)
      BY DEF Settling, Counted
    <3> QED
      BY <1>1, <3>2, <3>3, <3>4, <3>5 DEF CountComes
  <2>3. CountRight(p)' \/ CountComes(p)'
    <3>1. ASSUME NEW d \in Members(p), d # n, Owes(d)
          PROVE  CountComes(p)'
      <4>1. d \in Detector
        BY DEF Members
      <4>2. d \in Members(p)' /\ Owes(d)'
        BY <1>1, <1>7, <3>1, <4>1
      <4> QED
        BY <4>2 DEF CountComes
    <3>2. CASE \A d \in Members(p) : d # n => ~Owes(d)
      <4>1. {d \in Detector : Listing(d)} \cup {n} = Members(p)
        <5>1. ASSUME NEW d \in Detector, Listing(d)
              PROVE  d \in Members(p)
          BY <1>1, <1>5, <5>1, ListedAreMembers DEF Settling
        <5>2. ASSUME NEW d \in Members(p), d # n
              PROVE  d \in Detector /\ Listing(d)
          <6>1. d \in Members(run.pool) /\ ~Owes(d)
            BY <1>5, <3>2, <5>2
          <6>2. Listing(d)
            BY <6>1, MembersAreListed DEF Settling, Served
          <6> QED
            BY <6>1, <6>2 DEF Members
        <5> QED
          BY <1>6, <5>1, <5>2
      <4>2. stats.allocated = Cardinality(Members(p)')
        BY <1>1, <2>1, <4>1
      <4>3. CASE pc' = "pool"
        BY <1>9, <4>2, <4>3 DEF CountComes
      <4>4. CASE pc' = "idle"
        <5>1. poolObj.status = stats
          BY <1>2, <1>5, <2>1, <4>4 DEF ListEnds
        <5>2. CASE p \in Names(watch.pool)
          BY <1>1, <1>6, <5>2 DEF CountComes
        <5>3. CASE poolObj = pools[p]
          BY <1>1, <4>2, <5>1, <5>3 DEF CountRight
        <5> QED
          BY <1>8, <2>1, <5>2, <5>3
      <4> QED
        BY <2>1, <4>3, <4>4
    <3> QED
      BY <3>1, <3>2
  <2>4. Counted'
    BY <2>2, <2>3 DEF Counted
  <2> QED
    BY <1>4, <1>7, <1>10, <1>11, <2>4 DEF Settling
<1> QED
  BY <1>12, <1>13

-----------------------------------------------------------------------------
(***************************************************************************)
(* The pool's status.  A conflict is only logged: news of the pool, or of  *)
(* the detector, are then on the way.                                      *)
(***************************************************************************)
LEMMA StatusServed ==
  ASSUME Informed, Served, UpdatePoolStatus \/ (WriteRefused /\ pc = "pool")
  PROVE  Served' /\ Remembers
<1>1. pc = "pool" /\ pc' = "idle" /\ UNCHANGED queue /\ StoreTyped /\ RunTyped
  BY DEF UpdatePoolStatus, WriteRefused, Finish, Informed, OperatorTyped
<1>2. Announces
  <2>1. CASE UNCHANGED <<det, dev, pools, watch>>
    BY <2>1, NothingAnnounced
  <2>2. CASE UpdatePoolStatus /\ run.pool \in current
    <3> DEFINE obj == [pools[run.pool] EXCEPT !.status = run.stats]
    <3>1. PutPool(run.pool, obj) /\ run.pool \in PoolName
      BY <1>1, <2>2 DEF UpdatePoolStatus, RunTyped
    <3>2. InitialPools[run.pool] # Absent /\ IsPool(pools[run.pool])
      BY <1>1, <3>1 DEF RunTyped, StoreTyped, ObjectsTyped, PoolTyped
    <3>3. PoolTyped(run.pool, obj)
      BY <3>1, <3>2 DEF IsPool, PoolTyped
    <3> HIDE DEF obj
    <3> QED
      BY <1>1, <3>1, <3>3, PoolAnnounced
  <2> QED
    BY <2>1, <2>2 DEF UpdatePoolStatus, WriteRefused
<1>3. Remembers
  BY <1>1, <1>2 DEF Remembers, Working
<1> QED
  BY <1>1, <1>3, ServedAtRest

LEMMA StatusSettling ==
  ASSUME Informed, Settling, UpdatePoolStatus
  PROVE  Settling'
<1>1. /\ pc = "pool" /\ pc' = "idle" /\ UNCHANGED <<cache, queue>>
      /\ StoreTyped /\ RunTyped
  BY DEF UpdatePoolStatus, Finish, Informed, OperatorTyped
<1>2. PICK p : p \in PoolName /\ p = run.pool /\ InitialPools[p] # Absent
  BY <1>1 DEF RunTyped
<1>3. PICK n : n = run.name /\ n \in Members(p) /\ n \in Detector
  BY <1>1, <1>2 DEF Settling, RunPlaced, Members
<1>4. Served' /\ Remembers
  BY StatusServed DEF Settling
<1>5. RunPlaced' /\ RunPooled'
  BY <1>1 DEF RunPlaced, RunPooled
<1>6. CASE p \in current
  <2> DEFINE obj == [pools[p] EXCEPT !.status = run.stats]
  <2>1. PutPool(p, obj)
    BY <1>2, <1>6 DEF UpdatePoolStatus
  <2>2. IsPool(pools[p])
    BY <1>1, <1>2 DEF StoreTyped, ObjectsTyped, PoolTyped
  <2>3. PoolTyped(p, obj) /\ obj.status = run.stats
    BY <1>2, <2>2 DEF IsPool, PoolTyped
  <2> HIDE DEF obj
  <2>4. /\ pools' = [x \in PoolName |-> IF x = p THEN obj ELSE pools[x]]
        /\ UNCHANGED <<det, dev>> /\ watch'.det = watch.det
    BY <1>1, <1>2, <2>1, <2>3, PoolPut
  <2>5. Announces
    BY <1>4 DEF Remembers
  <2>6. RefsStay /\ DevicesStay
    BY <2>4 DEF RefsStay, DevicesStay
  <2>7. RefsKnown' /\ PoolStreamed'
    BY <1>1, <1>2, <2>1, <2>3, <2>4, RefsUnchanged, PoolsWritten DEF Settling
  <2>8. \A q : Members(q)' = Members(q)
    BY <2>4 DEF Members
  <2>9. ASSUME NEW q \in PoolName
         PROVE  CountRight(q)' \/ CountComes(q)'
    <3>1. CASE q # p
      <4>1. pools'[q].status = pools[q].status
        BY <2>4, <3>1
      <4> QED
        BY <1>2, <1>4, <2>6, <3>1, <4>1, CountKept DEF Settling
    <3>2. CASE q = p /\ run.stats.allocated = Cardinality(Members(p))
      <4>1. pools'[p].status = run.stats
        BY <1>2, <2>3, <2>4
      <4> QED
        BY <2>8, <3>2, <4>1 DEF CountRight
    <3>3. CASE q = p /\ pools'[p] # pools[p]
      <4>1. p \in Names(watch'.pool) /\ Members(p)' # {}
        BY <1>2, <1>3, <2>5, <2>8, <3>3 DEF Announces
      <4> QED
        BY <3>3, <4>1 DEF CountComes
    <3>4. CASE q = p /\ pools'[p] = pools[p] /\ run.stats.allocated # Cardinality(Members(p))
      BY <1>2, <1>4, <2>6, <3>4, CountKept DEF Settling
    <3> QED
      BY <3>1, <3>2, <3>3, <3>4
  <2>10. Counted'
    BY <2>9 DEF Counted
  <2> QED
    BY <1>4, <1>5, <2>7, <2>10 DEF Settling
<1>7. CASE p \notin current
  <2>1. UNCHANGED <<det, dev, pools, watch>>
    BY <1>2, <1>7 DEF UpdatePoolStatus
  <2>2. RefsStay /\ DevicesStay
    BY <2>1 DEF RefsStay, DevicesStay
  <2>3. RefsKnown' /\ PoolStreamed'
    BY <1>1, <2>1, RefsUnchanged, PoolsUnchanged DEF Settling
  <2>4. \A q : Members(q)' = Members(q)
    BY <2>1 DEF Members
  <2>5. CountComes(p)'
    <3>1. Awaited(n) \/ p \in Names(watch.pool)
      BY <1>1, <1>2, <1>3, <1>7 DEF Settling, RunPooled
    <3>2. CASE Awaited(n)
      <4>1. Owes(n)'
        BY <1>1, <2>1, <3>2 DEF Owes, Awaited
      <4> QED
        BY <1>3, <2>4, <4>1 DEF CountComes
    <3>3. CASE p \in Names(watch.pool)
      BY <1>3, <2>1, <2>4, <3>3 DEF CountComes
    <3> QED
      BY <3>1, <3>2, <3>3
  <2>6. ASSUME NEW q \in PoolName, q # p
        PROVE  CountRight(q)' \/ CountComes(q)'
    BY <1>2, <1>4, <2>1, <2>2, <2>6, CountKept DEF Settling
  <2>7. Counted'
    BY <2>5, <2>6 DEF Counted
  <2> QED
    BY <1>4, <1>5, <2>3, <2>7 DEF Settling
<1> QED
  BY <1>6, <1>7

(* After a restart every detector is reconciled again. *)
LEMMA RestartServed ==
  ASSUME RestartOperator
  PROVE  Served'
<1>1. UNCHANGED det /\ queue' = {d \in Detector : det[d] # Absent} /\ pc' = "idle"
  BY DEF RestartOperator
<1>2. \A d \in Detector : det'[d] # Absent => Owes(d)'
  BY <1>1 DEF Owes, Awaited
<1> QED
  BY <1>1, <1>2 DEF Served, RunWrites, Answered

LEMMA RestartSettling ==
  ASSUME Informed, Settling, RestartOperator
  PROVE  Settling'
<1>1. /\ cache'.det = det /\ cache'.pool = pools /\ UNCHANGED <<det, dev, pools>>
      /\ watch'.det = <<>> /\ watch'.dev = <<>> /\ watch'.pool = <<>>
      /\ queue' = {d \in Detector : det[d] # Absent} /\ pc' = "idle"
  BY DEF RestartOperator, NoEvents
<1>2. \A d \in Detector : det'[d] # Absent => Owes(d)'
  BY <1>1 DEF Owes, Awaited
<1>3. RefsKnown' /\ Served'
  BY <1>1, RestartServed DEF RefsKnown, Refers
<1>4. PoolStreamed'
  BY <1>1, FollowsNothing DEF PoolStreamed
<1>5. RunPlaced' /\ RunPooled'
  BY <1>1 DEF RunPlaced, RunPooled
<1>6. ASSUME NEW p \in PoolName
      PROVE  CountRight(p)' \/ CountComes(p)'
  <2>1. Members(p)' = Members(p)
    BY <1>1 DEF Members
  <2>2. CASE Members(p) = {}
    <3>1. ~CountComes(p)
      BY <2>2 DEF CountComes, Settling, RunPlaced
    <3>2. CountRight(p)
      BY <3>1 DEF Settling, Counted
    <3> QED
      BY <1>1, <2>1, <3>2 DEF CountRight
  <2>3. ASSUME NEW d \in Members(p)
        PROVE  CountComes(p)'
    <3>1. d \in Members(p)' /\ Owes(d)'
      BY <1>1, <1>2, <2>1, <2>3 DEF Members
    <3> QED
      BY <3>1 DEF CountComes
  <2> QED
    BY <2>2, <2>3
<1> QED
  BY <1>3, <1>4, <1>5, <1>6 DEF Settling, Counted

LEMMA StepServed ==
  ASSUME Informed, Served, FaultFree \/ RetriedFault \/ StatusRefused
  PROVE  Served'
<1>1. CASE OthersStep
  BY <1>1, OthersServed
<1>2. CASE Informs
  BY <1>2, DeliveryServed
<1>3. CASE \E d \in Detector : Begin(d)
  BY <1>3, BeginServed
<1>4. CASE UpdateSpec \/ UpdateStatus \/ PatchFailed \/ AnswerLost
  BY <1>4, WriteSteps, WriteServed
<1>5. CASE Conflict \/ (WriteRefused /\ pc # "pool")
  BY <1>5, ConflictServed
<1>6. CASE ListAndAllocate
  BY <1>6, ListServed
<1>7. CASE UpdatePoolStatus \/ StatusRefused
  BY <1>7, StatusServed DEF StatusRefused
<1>8. CASE RestartOperator
  BY <1>8, RestartServed
<1> QED
  BY <1>1, <1>2, <1>3, <1>4, <1>5, <1>6, <1>7, <1>8 DEF FaultFree, RetriedFault, ReconcileStep

LEMMA StepSettling ==
  ASSUME Informed, Known, Settling, FaultFree \/ RetriedFault, RefsStay, DevicesStay
  PROVE  Settling'
<1>1. CASE OthersStep
  BY <1>1, OthersSettling
<1>2. CASE Informs
  BY <1>2, DeliverySettling
<1>3. CASE \E d \in Detector : Begin(d)
  BY <1>3, BeginSettling
<1>4. CASE UpdateSpec \/ UpdateStatus \/ PatchFailed \/ AnswerLost
  BY <1>4, WriteSteps, WriteSettling
<1>5. CASE Conflict \/ (WriteRefused /\ pc # "pool")
  BY <1>5, ConflictSettling
<1>6. CASE ListAndAllocate
  BY <1>6, ListSettling
<1>7. CASE UpdatePoolStatus
  BY <1>7, StatusSettling
<1>8. CASE RestartOperator
  BY <1>8, RestartSettling
<1> QED
  BY <1>1, <1>2, <1>3, <1>4, <1>5, <1>6, <1>7, <1>8 DEF FaultFree, RetriedFault, ReconcileStep

LEMMA InitServed ==
  ASSUME Init
  PROVE  Served
BY DEF Init, ControllerInit, Served, RunWrites, Answered

(* No pool counts an address before there are detectors.                   *)
PoolsUnused == \A p \in PoolName : InitialPools[p] # Absent /\ InitialPools[p].status.allocated = 0

LEMMA InitSettling ==
  ASSUME PoolsUnused, Init
  PROVE  Settling
<1>1. /\ det = [d \in Detector |-> Absent] /\ pools = InitialPools
      /\ cache.det = det /\ cache.pool = pools /\ pc = "idle"
      /\ watch.det = <<>> /\ watch.dev = <<>> /\ watch.pool = <<>>
  BY DEF Init, ControllerInit, NoEvents
<1>2. RefsKnown /\ Served
  BY <1>1, InitServed DEF RefsKnown, Refers
<1>3. PoolStreamed
  BY <1>1, FollowsNothing DEF PoolStreamed
<1>4. RunPlaced /\ RunPooled
  BY <1>1 DEF RunPlaced, RunPooled
<1>5. Counted
  <2> SUFFICES ASSUME NEW p \in PoolName
               PROVE  CountRight(p)
    BY DEF Counted
  <2>1. Members(p) = {}
    BY <1>1 DEF Members
  <2>2. Cardinality(Members(p)) = 0
    BY <2>1, FS_EmptySet
  <2> QED
    BY <1>1, <2>2 DEF CountRight, PoolsUnused
<1> QED
  BY <1>2, <1>3, <1>4, <1>5 DEF Settling

(* With nothing under way nobody is awaited or worked for.                 *)
LEMMA QuietOwes ==
  ASSUME Informed, Quiet
  PROVE  /\ Names(watch.pool) = {} /\ pc = "idle"
         /\ \A d \in Detector : Owes(d) <=> HasFailed(d)
<1>1. /\ Names(watch.det) = {} /\ Names(watch.dev) = {} /\ Names(watch.pool) = {}
      /\ queue = {} /\ pc = "idle"
  BY LaggingNames DEF Quiet, Informed, OperatorTyped, StoreTyped
<1> QED
  BY <1>1 DEF Owes, Awaited, Working

(* Everyone has an address then, and every count is right.                 *)
LEMMA SettlingSettles ==
  ASSUME Informed, Settling, Quiet, \A d \in Detector : det[d] # Absent => det[d].phase # Failed,
         NEW p \in PoolName
  PROVE  pools[p].status.allocated = Cardinality(AssignedIn(p))
<1>1. /\ Names(watch.pool) = {} /\ pc = "idle"
      /\ \A d \in Detector : ~Owes(d)
  BY QuietOwes DEF HasFailed
<1>2. \A d \in Detector : det[d] # Absent => det[d].assigned # None
  BY <1>1 DEF Settling, Served, Answered
<1>3. AssignedIn(p) = Members(p)
  BY <1>2 DEF AssignedIn, Members
<1>4. ~CountComes(p)
  BY <1>1 DEF CountComes, Members
<1>5. CountRight(p)
  BY <1>4 DEF Settling, Counted
<1> QED
  BY <1>3, <1>5 DEF CountRight

LEMMA FaultsCounted ==
  ASSUME faults \in Nat, [Next]_vars
  PROVE  faults' \in Nat /\ faults <= faults'
<1>1. faults' = faults \/ faults' = faults + 1
  BY DEF Next, vars, UserEdits, Informers, StartReconcile, Reports, Discovers, StepReconcile,
         Gateway, StartsPass, Faults
<1> QED
  BY <1>1

(* No detector is forgotten: whenever the operator has nothing left to do, *)
(* a detector that exists has an address assigned or its phase is Failed.  *)
(* Whatever users create, delete, edit or point elsewhere, however far the *)
(* informers lag, and wherever a write is refused, an answer lost or the   *)
(* operator restarted, whoever lacks an address is queued, or news of it   *)
(* or of its device are to come, or it is worked for.  No hypothesis.      *)
THEOREM NobodyEverForgotten == Spec => []NobodyForgotten
<1> DEFINE Inv == Informed /\ ManagerTyped /\ faults \in Nat /\ Served
<1>1. Init => Inv
  BY InitInformed, InitServed DEF Init
<1>2. Inv /\ [Next]_vars => Inv'
  <2> SUFFICES ASSUME Inv, [Next]_vars
               PROVE  Inv'
    OBVIOUS
  <2>1. Informed' /\ ManagerTyped'
    BY InformedStep
  <2>2. faults' \in Nat
    BY FaultsCounted
  <2>3. Served'
    BY StepsAndFaults, StepServed DEF AllTyped, Informed
  <2> QED
    BY <2>1, <2>2, <2>3
<1>3. Inv => NobodyForgotten
  <2> SUFFICES ASSUME Inv, Quiet, NEW d \in Detector, det[d] # Absent
               PROVE  det[d].assigned # None \/ det[d].phase = Failed
    BY DEF NobodyForgotten
  <2>1. Owes(d) => det[d].phase = Failed
    BY QuietOwes DEF HasFailed
  <2> QED
    BY <2>1 DEF Served, Answered
<1> QED
  BY <1>1, <1>2, <1>3, PTL DEF Spec

(* A step, with the invariants that the counts rest on.                    *)
LEMMA SettlingKept ==
  ASSUME Informed, ManagerTyped, Held, Settled, faults \in Nat, [Next]_vars, DevicesStay, DetectorsStay
  PROVE  /\ Informed' /\ ManagerTyped' /\ Held' /\ Settled' /\ faults' \in Nat /\ faults <= faults'
         /\ Settling => Settling' \/ (StatusRefused /\ faults' = faults + 1)
<1>1. Informed' /\ ManagerTyped' /\ Steps
  BY InformedStep
<1>2. Held' /\ Settled'
  BY <1>1, StepSettled
<1>3. faults' \in Nat /\ faults <= faults'
  BY FaultsCounted
<1>4. ASSUME Settling, FaultFree \/ RetriedFault
      PROVE  Settling'
  <2>1. RefsStay
    BY <1>1, RefsKept
  <2> QED
    BY <1>4, <2>1, StepSettling DEF Settled
<1>5. FaultFree \/ RetriedFault \/ (StatusRefused /\ faults' = faults + 1)
  BY StepsAndFaults DEF AllTyped, Informed
<1> QED
  BY <1>1, <1>2, <1>3, <1>4, <1>5

(* When the operator has nothing left to do and no call of it failed, a    *)
(* pool none of whose detectors failed counts exactly its assigned         *)
(* detectors, although updatePoolStatus only logs a conflict and a         *)
(* reconcile counts from copies that may be old: news that are still to    *)
(* come then have it counted again.  Devices are not deleted or pointed at *)
(* another pool, and detectors are not deleted: nobody recounts the pool   *)
(* they leave.                                                             *)
THEOREM PoolStatusAlwaysSettles ==
  ASSUME PoolsUnused
  PROVE  Spec /\ [][DevicesStay]_vars /\ [][DetectorsStay]_vars => []PoolStatusSettles
<1> DEFINE Inv == /\ Informed /\ ManagerTyped /\ Held /\ Settled /\ faults \in Nat
                  /\ faults = 0 => Settling
<1>1. Init => Inv
  BY InitInformed, InitSettled, InitSettling DEF Init
<1>2. Inv /\ [Next]_vars /\ [DevicesStay]_vars /\ [DetectorsStay]_vars => Inv'
  <2> SUFFICES ASSUME Inv, [Next]_vars, [DevicesStay]_vars, [DetectorsStay]_vars
               PROVE  Inv'
    OBVIOUS
  <2>1. DevicesStay /\ DetectorsStay
    BY DEF DevicesStay, DetectorsStay, vars, storeVars
  <2>2. /\ Informed' /\ ManagerTyped' /\ Held' /\ Settled' /\ faults' \in Nat /\ faults <= faults'
        /\ Settling => Settling' \/ faults' = faults + 1
    BY <2>1, SettlingKept
  <2>3. ASSUME faults' = 0
        PROVE  Settling'
    <3>1. faults = 0 /\ faults' # faults + 1
      BY <2>2, <2>3
    <3> QED
      BY <2>2, <3>1
  <2> QED
    BY <2>2, <2>3
<1>3. Inv => PoolStatusSettles
  BY SettlingSettles DEF PoolStatusSettles
<1> QED
  BY <1>1, <1>2, <1>3, PTL DEF Spec

(* The same whatever failed, as long as it was not the write of a pool's   *)
(* status: refused writes of detectors, answers that were lost, restarts   *)
(* of the operator at any step and failures of gateways are all made good. *)
CountsSettle ==
  Quiet /\ (\A d \in Detector : det[d] # Absent => det[d].phase # Failed)
  => \A p \in PoolName : pools[p].status.allocated = Cardinality(AssignedIn(p))

(* The error that updatePoolStatus logs and drops is the only one that can *)
(* leave a pool's count wrong once the operator has nothing left to do.    *)
THEOREM OnlyStatusWritesMatter ==
  ASSUME PoolsUnused
  PROVE  Spec /\ [][DevicesStay]_vars /\ [][DetectorsStay]_vars /\ [][~StatusRefused]_vars
         => []CountsSettle
<1> DEFINE Inv == Informed /\ ManagerTyped /\ Held /\ Settled /\ faults \in Nat /\ Settling
<1>1. Init => Inv
  BY InitInformed, InitSettled, InitSettling DEF Init
<1>2. Inv /\ [Next]_vars /\ [DevicesStay]_vars /\ [DetectorsStay]_vars /\ [~StatusRefused]_vars => Inv'
  <2> SUFFICES ASSUME Inv, [Next]_vars, [DevicesStay]_vars, [DetectorsStay]_vars, [~StatusRefused]_vars
               PROVE  Inv'
    OBVIOUS
  <2>1. DevicesStay /\ DetectorsStay /\ ~StatusRefused
    BY DEF DevicesStay, DetectorsStay, StatusRefused, vars, storeVars
  <2> QED
    BY <2>1, SettlingKept
<1>3. Inv => CountsSettle
  BY SettlingSettles DEF CountsSettle
<1> QED
  BY <1>1, <1>2, <1>3, PTL DEF Spec

=============================================================================
