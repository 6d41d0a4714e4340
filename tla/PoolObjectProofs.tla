-------------------------- MODULE PoolObjectProofs --------------------------
(***************************************************************************)
(* Proofs about the address pool, for any owners, addresses and valid      *)
(* configurations.  The inductive invariant is that the pool is well       *)
(* formed: its two maps stay within owners and range, and each is the      *)
(* inverse of the other.  It is shown operation by operation.              *)
(***************************************************************************)
EXTENDS PoolObject, CANPoolProofs

(* A pool as every operation of the package expects and leaves it.         *)
WellFormed(p) ==
  /\ p = [cfg |-> p.cfg, ownerByAddr |-> p.ownerByAddr, addrByOwner |-> p.addrByOwner]
  /\ p.cfg \in Configs
  /\ Validate(p.cfg)
  /\ p.ownerByAddr \in [DOMAIN p.ownerByAddr -> Owners]
  /\ DOMAIN p.ownerByAddr \subseteq p.cfg.start .. p.cfg.end
  /\ p.addrByOwner \in [DOMAIN p.addrByOwner -> p.cfg.start .. p.cfg.end]
  /\ DOMAIN p.addrByOwner \subseteq Owners
  /\ \A a \in DOMAIN p.ownerByAddr :
        p.ownerByAddr[a] \in DOMAIN p.addrByOwner /\ p.addrByOwner[p.ownerByAddr[a]] = a
  /\ \A o \in DOMAIN p.addrByOwner :
        p.addrByOwner[o] \in DOMAIN p.ownerByAddr /\ p.ownerByAddr[p.addrByOwner[o]] = o

Sound(r) == WellFormed(r.pool) /\ r.err \in PoolErrors

-----------------------------------------------------------------------------
(***************************************************************************)
(* The operations, one lemma each.                                         *)
(***************************************************************************)

(* Binding a free owner to a free address of the range keeps a pool well   *)
(* formed: what Allocate and Claim do once their checks have passed.       *)
LEMMA BindSound ==
  ASSUME NEW p, WellFormed(p),
         NEW o \in Owners, o \notin DOMAIN p.addrByOwner,
         NEW a \in p.cfg.start .. p.cfg.end, a \notin DOMAIN p.ownerByAddr
  PROVE  WellFormed(Bind(p, o, a))
<1> DEFINE q == Bind(p, o, a)
<1>1. q = [cfg |-> p.cfg, ownerByAddr |-> Put(p.ownerByAddr, a, o),
           addrByOwner |-> Put(p.addrByOwner, o, a)]
  BY DEF WellFormed, Bind
<1>2. /\ DOMAIN q.ownerByAddr = DOMAIN p.ownerByAddr \cup {a}
      /\ \A x \in DOMAIN q.ownerByAddr :
            q.ownerByAddr[x] = IF x = a THEN o ELSE p.ownerByAddr[x]
      /\ q.ownerByAddr = [x \in DOMAIN q.ownerByAddr |-> q.ownerByAddr[x]]
  BY <1>1 DEF Put
<1>3. /\ DOMAIN q.addrByOwner = DOMAIN p.addrByOwner \cup {o}
      /\ \A x \in DOMAIN q.addrByOwner :
            q.addrByOwner[x] = IF x = o THEN a ELSE p.addrByOwner[x]
      /\ q.addrByOwner = [x \in DOMAIN q.addrByOwner |-> q.addrByOwner[x]]
  BY <1>1 DEF Put
<1>4. q.cfg = p.cfg
  BY <1>1
<1>5. q = [cfg |-> q.cfg, ownerByAddr |-> q.ownerByAddr, addrByOwner |-> q.addrByOwner]
  BY <1>1
<1> HIDE DEF q
<1>6. q.ownerByAddr \in [DOMAIN q.ownerByAddr -> Owners]
  BY <1>2 DEF WellFormed
<1>7. q.addrByOwner \in [DOMAIN q.addrByOwner -> q.cfg.start .. q.cfg.end]
  BY <1>3, <1>4 DEF WellFormed
<1>8. \A x \in DOMAIN q.ownerByAddr :
         q.ownerByAddr[x] \in DOMAIN q.addrByOwner /\ q.addrByOwner[q.ownerByAddr[x]] = x
  BY <1>2, <1>3 DEF WellFormed
<1>9. \A x \in DOMAIN q.addrByOwner :
         q.addrByOwner[x] \in DOMAIN q.ownerByAddr /\ q.ownerByAddr[q.addrByOwner[x]] = x
  BY <1>2, <1>3 DEF WellFormed
<1>10. Validate(q.cfg) /\ q.cfg \in Configs
  BY <1>4 DEF WellFormed
<1>11. /\ DOMAIN q.ownerByAddr \subseteq q.cfg.start .. q.cfg.end
       /\ DOMAIN q.addrByOwner \subseteq Owners
  BY <1>2, <1>3, <1>4 DEF WellFormed
<1>12. WellFormed(q)
  BY <1>5, <1>6, <1>7, <1>8, <1>9, <1>10, <1>11, Zenon DEF WellFormed
<1> QED
  BY <1>12 DEF q

(* New gives a well formed pool for every configuration it accepts.        *)
LEMMA NewSound ==
  ASSUME NEW cfg \in Configs, Validate(cfg)
  PROVE  WellFormed(New(cfg))
BY DEF WellFormed, New, EmptyMap

(* What can be allocated automatically is part of the range, not held by   *)
(* anybody and not reserved.                                               *)
LEMMA AvailableMembers ==
  ASSUME NEW p, WellFormed(p)
  PROVE  /\ Available(p) \in SUBSET Nat
         /\ Available(p) = (p.cfg.start .. p.cfg.end)
                             \ (DOMAIN p.ownerByAddr \cup Range(p.cfg.reserved))
<1>1. p.cfg.start \in Nat /\ p.cfg.end \in Nat
  BY ConfigsAssumption DEF WellFormed
<1> QED
  BY <1>1, FreeAddresses

(* Allocate returns the address the owner has, or the lowest available     *)
(* one, or fails for want of one; and keeps the pool well formed.          *)
LEMMA AllocateSound ==
  ASSUME NEW p, WellFormed(p), NEW o \in AnyOwner
  PROVE  Sound(Allocate(p, o))
<1>1. CASE o = NoOwner \/ o \in DOMAIN p.addrByOwner \/ Available(p) = {}
  <2>1. Allocate(p, o).pool = p
    BY <1>1 DEF Allocate
  <2>2. Allocate(p, o).err \in {OK, ErrOwnerRequired, ErrNoAddressAvailable}
    BY <1>1 DEF Allocate
  <2> QED
    BY <2>1, <2>2 DEF Sound, PoolErrors
<1>2. CASE ~(o = NoOwner \/ o \in DOMAIN p.addrByOwner \/ Available(p) = {})
  <2>1. Allocate(p, o) = [pool |-> Bind(p, o, Min(Available(p))), addr |-> Min(Available(p)), err |-> OK]
    BY <1>2, Zenon DEF Allocate
  <2>2. o \in Owners
    BY <1>2 DEF AnyOwner
  <2>3. Min(Available(p)) \in Available(p)
    BY <1>2, AvailableMembers, MinExists
  <2>4. WellFormed(Bind(p, o, Min(Available(p))))
    BY <1>2, <2>2, <2>3, AvailableMembers, BindSound
  <2> QED
    BY <2>1, <2>4 DEF Sound, PoolErrors
<1> QED
  BY <1>1, <1>2

(* Claim binds what passed its checks, or leaves the pool alone; claiming  *)
(* again what the owner has already changes nothing.                       *)
LEMMA ClaimSound ==
  ASSUME NEW p, WellFormed(p), NEW o \in AnyOwner, NEW a \in Addresses
  PROVE  Sound(Claim(p, o, a))
<1>1. ClaimError(p, o, a) \in PoolErrors
  BY DEF ClaimError, PoolErrors
<1>2. Claim(p, o, a).err = ClaimError(p, o, a)
  BY DEF Claim
<1>3. WellFormed(Claim(p, o, a).pool)
  <2>1. CASE ClaimError(p, o, a) # OK
    BY <2>1 DEF Claim
  <2>2. CASE ClaimError(p, o, a) = OK /\ o \in DOMAIN p.addrByOwner
    <3>1. p.addrByOwner[o] = a
      BY <2>2 DEF ClaimError, OK, ErrOwnerRequired, ErrAddressRequired, ErrAddressOutOfRange,
                  ErrOwnerAlreadyAssigned, ErrAddressInUse
    <3>2. Put(p.ownerByAddr, a, o) = p.ownerByAddr /\ Put(p.addrByOwner, o, a) = p.addrByOwner
      BY <2>2, <3>1 DEF Put, WellFormed
    <3>3. Bind(p, o, a) = p
      BY <3>2 DEF Bind, WellFormed
    <3> QED
      BY <2>2, <3>3 DEF Claim
  <2>3. CASE ClaimError(p, o, a) = OK /\ o \notin DOMAIN p.addrByOwner
    <3>1. /\ o # NoOwner
          /\ a \in p.cfg.start .. p.cfg.end
          /\ a \notin DOMAIN p.ownerByAddr
      BY <2>3 DEF ClaimError, InRange, OK, ErrOwnerRequired, ErrAddressRequired,
                  ErrAddressOutOfRange, ErrOwnerAlreadyAssigned, ErrAddressInUse
    <3>2. o \in Owners
      BY <3>1 DEF AnyOwner
    <3>3. WellFormed(Bind(p, o, a))
      BY <2>3, <3>1, <3>2, BindSound
    <3> QED
      BY <2>3, <3>3 DEF Claim
  <2> QED
    BY <2>1, <2>2, <2>3
<1> QED
  BY <1>1, <1>2, <1>3 DEF Sound

(* Release takes an owner and its address out of both maps.                *)
LEMMA ReleaseSound ==
  ASSUME NEW p, WellFormed(p), NEW o
  PROVE  Sound(Release(p, o))
<1>1. CASE o = NoOwner \/ o \notin DOMAIN p.addrByOwner
  BY <1>1 DEF Release, Sound, PoolErrors
<1>2. CASE o # NoOwner /\ o \in DOMAIN p.addrByOwner
  <2> DEFINE a == p.addrByOwner[o]
             q == Release(p, o).pool
  <2>1. /\ q = [cfg |-> p.cfg, ownerByAddr |-> Unbind(p.ownerByAddr, a),
                addrByOwner |-> Unbind(p.addrByOwner, o)]
        /\ Release(p, o).err = OK
    BY <1>2 DEF Release
  <2>2. /\ q.cfg = p.cfg
        /\ q = [cfg |-> q.cfg, ownerByAddr |-> q.ownerByAddr, addrByOwner |-> q.addrByOwner]
    BY <2>1
  <2>3. /\ DOMAIN q.ownerByAddr = DOMAIN p.ownerByAddr \ {a}
        /\ \A x \in DOMAIN q.ownerByAddr : q.ownerByAddr[x] = p.ownerByAddr[x]
        /\ q.ownerByAddr \in [DOMAIN q.ownerByAddr -> Owners]
    BY <2>1 DEF Unbind, WellFormed
  <2>4. /\ DOMAIN q.addrByOwner = DOMAIN p.addrByOwner \ {o}
        /\ \A x \in DOMAIN q.addrByOwner : q.addrByOwner[x] = p.addrByOwner[x]
        /\ q.addrByOwner \in [DOMAIN q.addrByOwner -> p.cfg.start .. p.cfg.end]
    BY <2>1 DEF Unbind, WellFormed
  <2>5. p.ownerByAddr[a] = o
    BY <1>2 DEF WellFormed
  <2> HIDE DEF q
  <2>6. \A x \in DOMAIN q.ownerByAddr :
           q.ownerByAddr[x] \in DOMAIN q.addrByOwner /\ q.addrByOwner[q.ownerByAddr[x]] = x
    BY <2>3, <2>4 DEF WellFormed
  <2>7. \A x \in DOMAIN q.addrByOwner :
           q.addrByOwner[x] \in DOMAIN q.ownerByAddr /\ q.ownerByAddr[q.addrByOwner[x]] = x
    BY <2>3, <2>4, <2>5 DEF WellFormed
  <2>8. WellFormed(q)
    BY <2>2, <2>3, <2>4, <2>6, <2>7 DEF WellFormed
  <2> QED
    BY <2>1, <2>8 DEF Sound, PoolErrors, q
<1> QED
  BY <1>1, <1>2

(* ReleaseAddress is Release of the owner, or nothing.                     *)
LEMMA ReleaseAddressSound ==
  ASSUME NEW p, WellFormed(p), NEW a
  PROVE  Sound(ReleaseAddress(p, a))
<1>1. CASE a \notin DOMAIN p.ownerByAddr
  BY <1>1 DEF ReleaseAddress, Sound, PoolErrors
<1>2. CASE a \in DOMAIN p.ownerByAddr
  BY <1>2, ReleaseSound DEF ReleaseAddress
<1> QED
  BY <1>1, <1>2

(* The entries Rebuild takes have owners, addresses in range, and no two   *)
(* of them share an owner or an address.                                   *)
LEMMA AcceptedEntries ==
  ASSUME NEW p, WellFormed(p), NEW as \in AssignmentLists
  PROVE  /\ \A i \in Accepted(p, as) :
               as[i].owner \in Owners /\ as[i].address \in p.cfg.start .. p.cfg.end
         /\ Distinct(as, Accepted(p, as))
<1>1. PICK n \in Nat : as \in [1 .. n -> Assignment]
  <2>1. \E n \in 0 .. MaxAssignments : as \in [1 .. n -> Assignment]
    BY Zenon DEF AssignmentLists
  <2>2. \A n \in 0 .. MaxAssignments : n \in Nat
    BY MaxAssignmentsAssumption
  <2> QED
    BY <2>1, <2>2, Zenon
<1>2. Len(as) = n
  <2>1. \A S : \A seq \in [1 .. n -> S] : seq \in UNION {[1 .. m -> S] : m \in Nat}
    BY n \in Nat, Zenon
  <2>2. as \in Seq(Assignment)
    BY <1>1, <2>1, SeqDef, Zenon
  <2>3. DOMAIN as = 1 .. n
    BY <1>1, Zenon
  <2>4. DOMAIN as = 1 .. Len(as) /\ Len(as) \in Nat
    BY <2>2, LenProperties, Zenon
  <2> QED
    BY <2>3, <2>4
<1>3. /\ \A i \in Accepted(p, as) :
            i \in 1 .. n /\ as[i].owner # NoOwner /\ InRange(p, as[i].address)
      /\ Distinct(as, Accepted(p, as))
  BY <1>2, AcceptedPass
<1>4. \A i \in Accepted(p, as) : as[i] \in Assignment
  BY <1>1, <1>3, Zenon
<1>5. \A i \in Accepted(p, as) : as[i].owner \in Owners /\ as[i].address \in p.cfg.start .. p.cfg.end
  BY <1>3, <1>4 DEF Assignment, AnyOwner, InRange
<1> QED
  BY <1>3, <1>5

(* Rebuild leaves a well formed pool also when it stops at an entry that   *)
(* it refuses.                                                             *)
LEMMA RebuildSound ==
  ASSUME NEW p, WellFormed(p), NEW as \in AssignmentLists
  PROVE  Sound(Rebuild(p, as))
<1> DEFINE taken == Accepted(p, as)
           q == Rebuild(p, as).pool
<1>1. Rebuild(p, as).err \in PoolErrors
  BY DEF Rebuild, RebuildError, PoolErrors
<1>2. Holds(q, p.cfg, as, taken)
  BY AcceptedEntries, RebuiltMaps
<1>3. /\ q.cfg = p.cfg
      /\ q = [cfg |-> q.cfg, ownerByAddr |-> q.ownerByAddr, addrByOwner |-> q.addrByOwner]
  BY <1>2 DEF Holds
<1>4. /\ DOMAIN q.ownerByAddr = {as[i].address : i \in taken}
      /\ q.ownerByAddr = [addr \in DOMAIN q.ownerByAddr |-> q.ownerByAddr[addr]]
      /\ \A i \in taken : q.ownerByAddr[as[i].address] = as[i].owner
  BY <1>2 DEF Holds
<1>5. /\ DOMAIN q.addrByOwner = {as[i].owner : i \in taken}
      /\ q.addrByOwner = [owner \in DOMAIN q.addrByOwner |-> q.addrByOwner[owner]]
      /\ \A i \in taken : q.addrByOwner[as[i].owner] = as[i].address
  BY <1>2 DEF Holds
<1> HIDE DEF q
<1> DEFINE lo == q.cfg.start
           hi == q.cfg.end
<1>6. \A i \in taken : as[i].owner \in Owners /\ as[i].address \in lo .. hi
  BY <1>3, AcceptedEntries
<1> HIDE DEF taken
<1>7. /\ q.ownerByAddr \in [DOMAIN q.ownerByAddr -> Owners]
      /\ DOMAIN q.ownerByAddr \subseteq lo .. hi
      /\ q.addrByOwner \in [DOMAIN q.addrByOwner -> lo .. hi]
      /\ DOMAIN q.addrByOwner \subseteq Owners
  <2>1. \A a \in DOMAIN q.ownerByAddr : a \in lo .. hi /\ q.ownerByAddr[a] \in Owners
    BY <1>4, <1>6, ZenonT(60)
  <2>2. \A o \in DOMAIN q.addrByOwner : o \in Owners /\ q.addrByOwner[o] \in lo .. hi
    BY <1>5, <1>6, ZenonT(60)
  <2> QED
    BY <1>4, <1>5, <2>1, <2>2, Zenon
<1>8. /\ \A a \in DOMAIN q.ownerByAddr :
            q.ownerByAddr[a] \in DOMAIN q.addrByOwner /\ q.addrByOwner[q.ownerByAddr[a]] = a
      /\ \A o \in DOMAIN q.addrByOwner :
            q.addrByOwner[o] \in DOMAIN q.ownerByAddr /\ q.ownerByAddr[q.addrByOwner[o]] = o
  <2>1. \A i \in taken : as[i].address \in DOMAIN q.ownerByAddr /\ as[i].owner \in DOMAIN q.addrByOwner
    BY <1>4, <1>5, Zenon
  <2>2. ASSUME NEW a \in DOMAIN q.ownerByAddr
        PROVE  q.ownerByAddr[a] \in DOMAIN q.addrByOwner /\ q.addrByOwner[q.ownerByAddr[a]] = a
    <3>1. PICK i \in taken : a = as[i].address
      BY <1>4, Zenon
    <3> QED
      BY <1>4, <1>5, <2>1, <3>1, Zenon
  <2>3. ASSUME NEW o \in DOMAIN q.addrByOwner
        PROVE  q.addrByOwner[o] \in DOMAIN q.ownerByAddr /\ q.ownerByAddr[q.addrByOwner[o]] = o
    <3>1. PICK i \in taken : o = as[i].owner
      BY <1>5, Zenon
    <3> QED
      BY <1>4, <1>5, <2>1, <3>1, Zenon
  <2> QED
    BY <2>2, <2>3, Zenon
<1>9. q.cfg \in Configs /\ Validate(q.cfg)
  BY <1>3 DEF WellFormed
<1>10. WellFormed(q)
  BY <1>3, <1>7, <1>8, <1>9, Zenon DEF WellFormed
<1> QED
  BY <1>1, <1>10 DEF Sound, q

-----------------------------------------------------------------------------
(***************************************************************************)
(* The invariant.                                                          *)
(***************************************************************************)
Ops == {"new", "rebuild", "allocate", "claim", "release"}

IInv == WellFormed(pool) /\ op \in Ops /\ err \in PoolErrors

(* New establishes the invariant.                                          *)
LEMMA InitInvariant == Init => IInv
<1> SUFFICES ASSUME Init PROVE IInv
  OBVIOUS
<1>1. PICK cfg \in Configs : Validate(cfg) /\ pool = New(cfg)
  BY DEF Init
<1>2. WellFormed(pool)
  BY <1>1, NewSound
<1> QED
  BY <1>2 DEF Init, IInv, Ops, PoolErrors

(* Every call, successful or refused, preserves it.                        *)
LEMMA StepInvariant == IInv /\ [Next]_poolVars => IInv'
<1> SUFFICES ASSUME IInv, [Next]_poolVars PROVE IInv'
  OBVIOUS
<1>1. \A r, name : Returns(name, r) /\ Sound(r) /\ name \in Ops => IInv'
  BY DEF Returns, Sound, IInv
<1>2. WellFormed(pool)
  BY DEF IInv
<1>3. CASE CallRebuild
  BY <1>1, <1>2, <1>3, RebuildSound DEF CallRebuild, Ops
<1>4. CASE CallAllocate
  BY <1>1, <1>2, <1>4, AllocateSound DEF CallAllocate, Ops
<1>5. CASE CallClaim
  BY <1>1, <1>2, <1>5, ClaimSound DEF CallClaim, Ops
<1>6. CASE CallRelease
  BY <1>1, <1>2, <1>6, ReleaseSound DEF CallRelease, Ops
<1>7. CASE CallReleaseAddress
  BY <1>1, <1>2, <1>7, ReleaseAddressSound DEF CallReleaseAddress, Ops
<1>8. CASE UNCHANGED poolVars
  BY <1>8 DEF poolVars, IInv
<1> QED
  BY <1>3, <1>4, <1>5, <1>6, <1>7, <1>8 DEF Next

(* The inductive invariant holds in every reachable state.                 *)
LEMMA Invariance == Spec => []IInv
BY InitInvariant, StepInvariant, PTL DEF Spec

(* Whatever calls are made, the pool has the configuration it was made     *)
(* with, and its maps hold only owners and addresses of the range.         *)
THEOREM PoolTypeCorrect == Spec => []TypeOK
<1>1. IInv => TypeOK
  BY DEF IInv, WellFormed, TypeOK, Ops
<1> QED
  BY <1>1, Invariance, PTL

(* The two maps of the pool are inverse to each other. *)
MapsInverse ==
  /\ \A a \in DOMAIN pool.ownerByAddr :
        /\ pool.ownerByAddr[a] \in DOMAIN pool.addrByOwner
        /\ pool.addrByOwner[pool.ownerByAddr[a]] = a
  /\ \A o \in DOMAIN pool.addrByOwner :
        /\ pool.addrByOwner[o] \in DOMAIN pool.ownerByAddr
        /\ pool.ownerByAddr[pool.addrByOwner[o]] = o

(* Whatever calls are made, no address of the pool has an owner that does  *)
(* not have it, and no owner an address that is not its own: so no two     *)
(* owners share an address.                                                *)
THEOREM PoolMapsInverse == Spec => []MapsInverse
<1>1. IInv => MapsInverse
  BY DEF IInv, WellFormed, MapsInverse
<1> QED
  BY <1>1, Invariance, PTL

-----------------------------------------------------------------------------
(***************************************************************************)
(* Counting and rebuilding.                                                *)
(***************************************************************************)

(* Whatever is allocated, claimed and released: the addresses of the range *)
(* are those allocated, those an allocation may still take, and the        *)
(* reserved ones that nobody claimed.                                      *)
THEOREM PoolStatsAddUp == Spec => []StatsAddUp
<1>1. IInv => StatsAddUp
  <2> SUFFICES ASSUME WellFormed(pool)
               PROVE  StatsAddUp
    BY DEF IInv
  <2> DEFINE A == pool.cfg.start .. pool.cfg.end
             D == DOMAIN pool.ownerByAddr
             R == Range(pool.cfg.reserved)
  <2>1. pool.cfg.start \in Nat /\ pool.cfg.end \in Nat /\ pool.cfg.start <= pool.cfg.end
    BY ConfigsAssumption DEF WellFormed, Validate
  <2>2. D \subseteq A /\ R \subseteq A
    BY DEF WellFormed, Validate, Range
  <2>3. IsFiniteSet(A) /\ Cardinality(A) = pool.cfg.end - pool.cfg.start + 1
    <3>1. PICK lo \in Nat, hi \in Nat : lo = pool.cfg.start /\ hi = pool.cfg.end
      BY <2>1
    <3>2. lo \in Int /\ hi \in Int /\ ~(lo > hi)
      BY <2>1, <3>1
    <3>3. IsFiniteSet(lo .. hi) /\ Cardinality(lo .. hi) = hi - lo + 1
      BY <3>2, FS_Interval
    <3> QED
      BY <3>1, <3>3
  <2>4. Available(pool) = A \ (D \cup R)
    BY AvailableMembers
  <2>5. {a \in D : IsReserved(pool, a)} = D \cap R
    BY DEF IsReserved
  <2> HIDE DEF A, D, R
  <2>6. IsFiniteSet(D) /\ IsFiniteSet(R)
    BY <2>2, <2>3, FS_Subset
  <2>7. Cardinality(D \cup R) = Cardinality(D) + Cardinality(R) - Cardinality(D \cap R)
    BY <2>6, FS_Union
  <2>8. Cardinality(A \ (D \cup R)) = Cardinality(A) - Cardinality(D \cup R)
    <3>1. A \cap (D \cup R) = D \cup R
      BY <2>2
    <3>2. Cardinality(A \ (D \cup R)) = Cardinality(A) - Cardinality(A \cap (D \cup R))
      BY <2>3, FS_Difference
    <3> QED
      BY <3>1, <3>2
  <2>9. Cardinality(D) \in Nat /\ Cardinality(R) \in Nat /\ Cardinality(A) \in Nat
    BY <2>3, <2>6, FS_CardinalityType
  <2>10. Cardinality(D \cap R) \in Nat
    <3>1. IsFiniteSet(D \cap R)
      BY <2>6, FS_Intersection
    <3> QED
      BY <3>1, FS_CardinalityType
  <2>11. Cardinality(D) + Cardinality(A \ (D \cup R)) + Cardinality(R) = Cardinality(A) + Cardinality(D \cap R)
    BY <2>7, <2>8, <2>9, <2>10
  <2> QED
    BY <2>3, <2>4, <2>5, <2>11 DEF StatsAddUp, Stats, A, D, R
<1> QED
  BY <1>1, Invariance, PTL

(* The entries I of a list are the assignments of a pool, each once.       *)
OwnEntries(p, as, I) ==
  /\ \A i \in I : as[i].owner \in DOMAIN p.addrByOwner /\ as[i].address = p.addrByOwner[as[i].owner]
  /\ \A i, j \in I : as[i].owner = as[j].owner => i = j
  /\ \A o \in DOMAIN p.addrByOwner : \E i \in I : as[i].owner = o

(* A list of the pool's own assignments, in any order.                     *)
LEMMA OwnAssignments ==
  ASSUME NEW p, WellFormed(p), NEW as \in ListsOf(p)
  PROVE  Len(as) \in Nat /\ OwnEntries(p, as, 1 .. Len(as))
<1> DEFINE O == DOMAIN p.addrByOwner
           A == p.cfg.start .. p.cfg.end
           n == Cardinality(O)
<1>1. IsFiniteSet(O) /\ n \in Nat
  <2>1. IsFiniteSet(A)
    <3>1. p.cfg.start \in Int /\ p.cfg.end \in Int
      BY ConfigsAssumption DEF WellFormed
    <3> QED
      BY <3>1, FS_Interval
  <2>2. p.addrByOwner \in Injection(O, A)
    BY DEF WellFormed, Injection, IsInjective
  <2> HIDE DEF O, A
  <2>3. IsFiniteSet(O)
    BY <2>1, <2>2, FS_Injection
  <2> QED
    BY <2>3, FS_CardinalityType DEF n
<1>2. PICK f \in [1 .. n -> O] : /\ Range(f) = O
                                /\ as = [i \in 1 .. n |-> [owner |-> f[i], address |-> p.addrByOwner[f[i]]]]
  BY DEF ListsOf
<1> HIDE DEF O, n
<1>3. \A i, j \in 1 .. n : f[i] = f[j] => i = j
  <2>1. f \in Surjection(1 .. n, O)
    BY <1>2 DEF Surjection, Range
  <2>2. IsFiniteSet(1 .. n) /\ Cardinality(1 .. n) = n
    <3>1. 0 \in Int /\ 1 \in Int /\ n \in Int
      BY <1>1
    <3> QED
      BY <1>1, <3>1, FS_Interval
  <2>3. f \in Injection(1 .. n, O)
    BY <2>1, <2>2, FS_SurjSameCardinalityImpliesInj DEF n
  <2> QED
    BY <2>3 DEF Injection, IsInjective
<1>4. Len(as) = n
  BY <1>1, <1>2
<1>5. \A i \in 1 .. n : as[i].owner = f[i] /\ as[i].address = p.addrByOwner[f[i]] /\ f[i] \in O
  BY <1>2
<1>6. \A o \in O : \E i \in 1 .. n : f[i] = o
  BY <1>2 DEF Range
<1>7. /\ \A i \in 1 .. n : as[i].owner \in O /\ as[i].address = p.addrByOwner[as[i].owner]
      /\ \A i, j \in 1 .. n : as[i].owner = as[j].owner => i = j
      /\ \A o \in O : \E i \in 1 .. n : as[i].owner = o
  <2>1. ASSUME NEW i \in 1 .. n
        PROVE  as[i].owner \in O /\ as[i].address = p.addrByOwner[as[i].owner]
    <3>1. as[i].owner = f[i] /\ as[i].address = p.addrByOwner[f[i]] /\ f[i] \in O
      BY <1>5, Zenon
    <3> QED
      BY <3>1
  <2>2. ASSUME NEW i \in 1 .. n, NEW j \in 1 .. n, as[i].owner = as[j].owner
        PROVE  i = j
    <3>1. as[i].owner = f[i] /\ as[j].owner = f[j]
      BY <1>5, Zenon
    <3>2. f[i] = f[j]
      BY <2>2, <3>1, Zenon
    <3> QED
      BY <1>3, <3>2, Zenon
  <2>3. ASSUME NEW o \in O
        PROVE  \E i \in 1 .. n : as[i].owner = o
    <3>1. PICK i \in 1 .. n : f[i] = o
      BY <1>6, Zenon
    <3>2. as[i].owner = f[i]
      BY <1>5, Zenon
    <3> QED
      BY <3>1, <3>2, Zenon
  <2> QED
    BY <2>1, <2>2, <2>3
<1>8. OwnEntries(p, as, 1 .. n)
  BY <1>7, Zenon DEF O, OwnEntries
<1> QED
  BY <1>1, <1>4, <1>8, Zenon

(* No entry of such a list is refused.                                     *)
LEMMA OwnAccepted ==
  ASSUME NEW p, WellFormed(p), NEW as, Len(as) \in Nat, OwnEntries(p, as, 1 .. Len(as))
  PROVE  /\ Refused(p, as) = {}
         /\ Accepted(p, as) = 1 .. Len(as)
         /\ Distinct(as, 1 .. Len(as))
<1>0. PICK n \in Nat : n = Len(as)
  OBVIOUS
<1>1. \A i, j \in 1 .. n : as[i].address = as[j].address => as[i].owner = as[j].owner
  <2>1. \A o1, o2 \in DOMAIN p.addrByOwner : p.addrByOwner[o1] = p.addrByOwner[o2] => o1 = o2
    BY Zenon DEF WellFormed
  <2>2. \A i \in 1 .. n : as[i].owner \in DOMAIN p.addrByOwner /\ as[i].address = p.addrByOwner[as[i].owner]
    BY <1>0, Zenon DEF OwnEntries
  <2> QED
    BY <2>1, <2>2, Zenon
<1>2. \A i, j \in 1 .. n : as[i].owner = as[j].owner \/ as[i].address = as[j].address => i = j
  BY <1>0, <1>1, ZenonT(60) DEF OwnEntries
<1>3. ASSUME NEW i \in 1 .. n
      PROVE  RebuildError(p, as, i) = OK
  <2>1. as[i].owner \in Owners /\ as[i].address \in p.cfg.start .. p.cfg.end
    <3>1. DOMAIN p.addrByOwner \subseteq Owners
      BY Zenon DEF WellFormed
    <3>2. \A o \in DOMAIN p.addrByOwner : p.addrByOwner[o] \in p.cfg.start .. p.cfg.end
      BY Zenon DEF WellFormed
    <3>3. as[i].owner \in DOMAIN p.addrByOwner /\ as[i].address = p.addrByOwner[as[i].owner]
      BY <1>0, Zenon DEF OwnEntries
    <3> QED
      BY <3>1, <3>2, <3>3, Zenon
  <2>2. p.cfg.start \in Nat /\ p.cfg.end \in Nat /\ p.cfg.start >= 1
    <3>1. p.cfg \in Configs /\ Validate(p.cfg)
      BY Zenon DEF WellFormed
    <3> QED
      BY <3>1, ConfigsAssumption DEF Validate
  <2>3. as[i].owner # NoOwner /\ as[i].address # 0 /\ InRange(p, as[i].address)
    <3>1. as[i].owner # NoOwner
      BY <2>1, OwnersAssumption, Zenon
    <3>2. \A a \in p.cfg.start .. p.cfg.end : a # 0
      BY <2>2
    <3>3. as[i].address # 0
      BY <2>1, <3>2, Zenon
    <3>4. InRange(p, as[i].address)
      BY <2>1, Zenon DEF InRange
    <3> QED
      BY <3>1, <3>3, <3>4
  <2>4. \A j \in 1 .. i - 1 : as[j].address # as[i].address /\ as[j].owner # as[i].owner
    <3>1. \A j \in 1 .. i - 1 : j \in 1 .. n /\ j # i
      OBVIOUS
    <3> QED
      BY <1>2, <3>1, Zenon
  <2> QED
    BY <2>3, <2>4 DEF RebuildError
<1>4. Refused(p, as) = {}
  BY <1>0, <1>3 DEF Refused
<1>5. Accepted(p, as) = 1 .. n
  BY <1>0, <1>4 DEF Accepted
<1> QED
  BY <1>0, <1>2, <1>4, <1>5 DEF Distinct

(* Two pools whose maps give the same entries are the same pool.           *)
LEMMA SameMaps ==
  ASSUME NEW p, WellFormed(p), NEW q, NEW as, NEW I,
         Holds(q, p.cfg, as, I), OwnEntries(p, as, I)
  PROVE  q = p
<1>1. \A i \in I : as[i].owner \in DOMAIN p.addrByOwner /\ as[i].address = p.addrByOwner[as[i].owner]
  BY Zenon DEF OwnEntries
<1>2. \A o \in DOMAIN p.addrByOwner : \E i \in I : as[i].owner = o
  BY Zenon DEF OwnEntries
<1>3. q.addrByOwner = p.addrByOwner
  <2>1. DOMAIN q.addrByOwner = {as[i].owner : i \in I}
    BY Zenon DEF Holds
  <2>2. \A i \in I : q.addrByOwner[as[i].owner] = as[i].address
    BY Zenon DEF Holds
  <2>3. DOMAIN q.addrByOwner = DOMAIN p.addrByOwner
    BY <1>1, <1>2, <2>1
  <2>4. \A o \in DOMAIN p.addrByOwner : q.addrByOwner[o] = p.addrByOwner[o]
    <3> TAKE o \in DOMAIN p.addrByOwner
    <3>1. PICK i \in I : as[i].owner = o
      BY <1>2, Zenon
    <3>2. q.addrByOwner[as[i].owner] = as[i].address
      BY <2>2, Zenon
    <3>3. as[i].address = p.addrByOwner[as[i].owner]
      BY <1>1, Zenon
    <3> QED
      BY <3>1, <3>2, <3>3, Zenon
  <2>5. q.addrByOwner = [o \in DOMAIN q.addrByOwner |-> q.addrByOwner[o]]
    BY Zenon DEF Holds
  <2>6. p.addrByOwner = [o \in DOMAIN p.addrByOwner |-> p.addrByOwner[o]]
    BY Zenon DEF WellFormed
  <2> QED
    BY <2>3, <2>4, <2>5, <2>6, Zenon
<1>4. q.ownerByAddr = p.ownerByAddr
  <2>1. DOMAIN q.ownerByAddr = {as[i].address : i \in I}
    BY Zenon DEF Holds
  <2>2. \A i \in I : q.ownerByAddr[as[i].address] = as[i].owner
    BY Zenon DEF Holds
  <2>3. \A o \in DOMAIN p.addrByOwner :
           p.addrByOwner[o] \in DOMAIN p.ownerByAddr /\ p.ownerByAddr[p.addrByOwner[o]] = o
    BY Zenon DEF WellFormed
  <2>4. \A a \in DOMAIN p.ownerByAddr :
           p.ownerByAddr[a] \in DOMAIN p.addrByOwner /\ p.addrByOwner[p.ownerByAddr[a]] = a
    BY Zenon DEF WellFormed
  <2>5. \A i \in I : as[i].address \in DOMAIN p.ownerByAddr /\ p.ownerByAddr[as[i].address] = as[i].owner
    BY <1>1, <2>3, Zenon
  <2>6. ASSUME NEW a \in DOMAIN p.ownerByAddr
        PROVE  \E i \in I : as[i].address = a
    <3>. p.ownerByAddr[a] \in DOMAIN p.addrByOwner
      BY <2>4, Zenon
    <3>1. PICK i \in I : as[i].owner = p.ownerByAddr[a]
      BY <1>2, Zenon
    <3>2. as[i].address = p.addrByOwner[p.ownerByAddr[a]]
      BY <1>1, <3>1, Zenon
    <3>3. as[i].address = a
      BY <2>4, <3>2, Zenon
    <3> QED
      BY <3>3, Zenon
  <2>7. DOMAIN q.ownerByAddr = DOMAIN p.ownerByAddr
    BY <2>1, <2>5, <2>6
  <2>8. \A a \in DOMAIN p.ownerByAddr : q.ownerByAddr[a] = p.ownerByAddr[a]
    <3> TAKE a \in DOMAIN p.ownerByAddr
    <3>1. PICK i \in I : as[i].address = a
      BY <2>6, Zenon
    <3> QED
      BY <2>2, <2>5, <3>1, Zenon
  <2>9. q.ownerByAddr = [a \in DOMAIN q.ownerByAddr |-> q.ownerByAddr[a]]
    BY Zenon DEF Holds
  <2>10. p.ownerByAddr = [a \in DOMAIN p.ownerByAddr |-> p.ownerByAddr[a]]
    BY Zenon DEF WellFormed
  <2> QED
    BY <2>7, <2>8, <2>9, <2>10, Zenon
<1>5. p = [cfg |-> p.cfg, ownerByAddr |-> p.ownerByAddr, addrByOwner |-> p.addrByOwner]
  BY Zenon DEF WellFormed
<1>6. /\ q.cfg = p.cfg
      /\ q = [cfg |-> q.cfg, ownerByAddr |-> q.ownerByAddr, addrByOwner |-> q.addrByOwner]
  BY Zenon DEF Holds
<1> QED
  BY <1>3, <1>4, <1>5, <1>6, Zenon

(* Rebuilding a pool from its own assignments gives the same pool.         *)
LEMMA RebuildOwn ==
  ASSUME NEW p, WellFormed(p), NEW as \in ListsOf(p)
  PROVE  Rebuild(p, as) = [pool |-> p, err |-> OK]
<1>1. Len(as) \in Nat /\ OwnEntries(p, as, 1 .. Len(as))
  BY OwnAssignments, Zenon
<1>2. /\ Refused(p, as) = {}
      /\ Accepted(p, as) = 1 .. Len(as)
      /\ Distinct(as, 1 .. Len(as))
  BY <1>1, OwnAccepted, Zenon
<1>3. Holds(Rebuild(p, as).pool, p.cfg, as, 1 .. Len(as))
  BY <1>2, RebuiltMaps
<1>4. Rebuild(p, as).pool = p
  BY <1>1, <1>3, SameMaps, Zenon
<1>5. Rebuild(p, as) = [pool |-> Rebuild(p, as).pool, err |-> OK]
  BY <1>2 DEF Rebuild
<1> QED
  BY <1>4, <1>5

(* A pool is rebuilt from its own assignments in any order, as it is by    *)
(* every reconcile of the controller: Rebuild refuses none of them, and    *)
(* leaves the pool as it was.                                              *)
THEOREM PoolAlwaysRebuildable == Spec => []Rebuildable
<1>1. IInv => Rebuildable
  BY RebuildOwn DEF IInv, Rebuildable
<1> QED
  BY <1>1, Invariance, PTL

-----------------------------------------------------------------------------
(***************************************************************************)
(* The pool implements the address book.                                   *)
(***************************************************************************)

(* The addresses held in the book are the keys of the other map.           *)
LEMMA HeldAddresses ==
  ASSUME IInv
  PROVE  Book!Held = DOMAIN pool.ownerByAddr
<1>1. \A o \in DOMAIN pool.addrByOwner : pool.addrByOwner[o] \in DOMAIN pool.ownerByAddr
  BY Zenon DEF IInv, WellFormed
<1>2. \A a \in DOMAIN pool.ownerByAddr :
         pool.ownerByAddr[a] \in DOMAIN pool.addrByOwner /\ pool.addrByOwner[pool.ownerByAddr[a]] = a
  BY Zenon DEF IInv, WellFormed
<1> QED
  BY <1>1, <1>2 DEF Book!Held

(* A well formed pool is a book without double entries, within its range.  *)
LEMMA WellFormedBook ==
  ASSUME NEW p, WellFormed(p)
  PROVE  /\ \A o1, o2 \in DOMAIN p.addrByOwner : p.addrByOwner[o1] = p.addrByOwner[o2] => o1 = o2
         /\ \A o \in DOMAIN p.addrByOwner : p.addrByOwner[o] \in p.cfg.start .. p.cfg.end
BY DEF WellFormed

(* No operation changes the configuration.                                 *)
LEMMA ConfigKept ==
  ASSUME NEW p, WellFormed(p), NEW o, NEW a, NEW as
  PROVE  /\ Rebuild(p, as).pool.cfg = p.cfg
         /\ Allocate(p, o).pool.cfg = p.cfg
         /\ Claim(p, o, a).pool.cfg = p.cfg
         /\ Release(p, o).pool.cfg = p.cfg
         /\ ReleaseAddress(p, a).pool.cfg = p.cfg
BY DEF Rebuild, Allocate, Claim, Release, ReleaseAddress, Bind

(* Binding is entering into the book.                                      *)
LEMMA BindEnters ==
  ASSUME IInv, NEW o, o \notin DOMAIN pool.addrByOwner,
         NEW a \in pool.cfg.start .. pool.cfg.end, a \notin DOMAIN pool.ownerByAddr,
         pool' = Bind(pool, o, a)
  PROVE  /\ o \in DOMAIN pool'.addrByOwner
         /\ pool'.addrByOwner[o] = a
         /\ Book!Enter(o, a)
<1>1. pool'.addrByOwner = [x \in DOMAIN pool.addrByOwner \cup {o} |->
                              IF x = o THEN a ELSE pool.addrByOwner[x]]
  BY DEF Bind, Put
<1> QED
  BY <1>1, HeldAddresses DEF Book!Enter

(* Allocate enters the lowest address that is neither held nor reserved.   *)
LEMMA AllocateAssigns ==
  ASSUME IInv, NEW o \in AnyOwner, Returns("allocate", Allocate(pool, o))
  PROVE  Book!AutoAssign
<1> DEFINE free == (pool.cfg.start .. pool.cfg.end) \ (Book!Held \cup Range(pool.cfg.reserved))
<1>1. op' = "allocate" /\ pool' = Allocate(pool, o).pool
  BY DEF Returns
<1>2. CASE o = NoOwner \/ o \in DOMAIN pool.addrByOwner \/ Available(pool) = {}
  <2>1. pool' = pool
    BY <1>1, <1>2 DEF Allocate
  <2> QED
    BY <1>1, <2>1 DEF Book!AutoAssign
<1>3. CASE ~(o = NoOwner \/ o \in DOMAIN pool.addrByOwner \/ Available(pool) = {})
  <2> DEFINE a == Min(Available(pool))
  <2>1. WellFormed(pool)
    BY DEF IInv
  <2>2. Available(pool) \in SUBSET Nat /\ Available(pool) = free
    BY <2>1, AvailableMembers, HeldAddresses, Zenon
  <2>3. a \in free /\ \A x \in free : a <= x
    BY <1>3, <2>2, MinExists, Zenon
  <2>4. pool' = Bind(pool, o, a)
    BY <1>1, <1>3 DEF Allocate
  <2> HIDE DEF a
  <2>5. /\ o \in DOMAIN pool'.addrByOwner
        /\ pool'.addrByOwner[o] = a
        /\ Book!Enter(o, a)
    BY <1>3, <2>3, <2>4, BindEnters, HeldAddresses
  <2>6. Book!Lowest(free, a)
    BY <2>3 DEF Book!Lowest
  <2> QED
    BY <1>1, <2>5, <2>6 DEF Book!AutoAssign
<1> QED
  BY <1>2, <1>3

(* Claim adopts an address of the range that nobody holds, or does nothing.*)
LEMMA ClaimAdopts ==
  ASSUME IInv, NEW o \in AnyOwner, NEW a \in Addresses, Returns("claim", Claim(pool, o, a))
  PROVE  Book!Adopt
<1>1. op' = "claim" /\ pool' = Claim(pool, o, a).pool
  BY DEF Returns
<1>2. CASE ClaimError(pool, o, a) # OK
  BY <1>1, <1>2 DEF Claim, Book!Adopt
<1>3. CASE ClaimError(pool, o, a) = OK /\ o \in DOMAIN pool.addrByOwner
  <2>1. pool.addrByOwner[o] = a
    BY <1>3 DEF ClaimError, OK, ErrOwnerRequired, ErrAddressRequired, ErrAddressOutOfRange,
                ErrOwnerAlreadyAssigned, ErrAddressInUse
  <2>2. pool'.addrByOwner = Put(pool.addrByOwner, o, a)
    BY <1>1, <1>3 DEF Claim, Bind
  <2>3. Put(pool.addrByOwner, o, a) = pool.addrByOwner
    BY <1>3, <2>1 DEF Put, IInv, WellFormed
  <2> QED
    BY <1>1, <2>2, <2>3 DEF Book!Adopt
<1>4. CASE ClaimError(pool, o, a) = OK /\ o \notin DOMAIN pool.addrByOwner
  <2>1. a \in pool.cfg.start .. pool.cfg.end /\ a \notin DOMAIN pool.ownerByAddr
    BY <1>4 DEF ClaimError, InRange, OK, ErrOwnerRequired, ErrAddressRequired,
                ErrAddressOutOfRange, ErrOwnerAlreadyAssigned, ErrAddressInUse
  <2>2. pool' = Bind(pool, o, a)
    BY <1>1, <1>4 DEF Claim
  <2> QED
    BY <1>1, <1>4, <2>1, <2>2, BindEnters DEF Book!Adopt
<1> QED
  BY <1>2, <1>3, <1>4

(* Release drops one owner from the book, or does nothing.                 *)
LEMMA ReleaseDrops ==
  ASSUME NEW o, Returns("release", Release(pool, o))
  PROVE  Book!Drop
<1>1. op' = "release" /\ pool' = Release(pool, o).pool
  BY DEF Returns
<1>2. CASE o = NoOwner \/ o \notin DOMAIN pool.addrByOwner
  BY <1>1, <1>2 DEF Release, Book!Drop
<1>3. CASE o # NoOwner /\ o \in DOMAIN pool.addrByOwner
  <2>1. pool'.addrByOwner = [x \in DOMAIN pool.addrByOwner \ {o} |-> pool.addrByOwner[x]]
    BY <1>1, <1>3 DEF Release, Unbind
  <2> QED
    BY <1>1, <1>3, <2>1 DEF Book!Drop
<1> QED
  BY <1>2, <1>3

(* Every call on a pool is a step of the book.                             *)
LEMMA BookStep == IInv /\ IInv' /\ Next => Book!Next
<1> SUFFICES ASSUME IInv, IInv', Next PROVE Book!Next
  OBVIOUS
<1>1. WellFormed(pool) /\ WellFormed(pool')
  BY DEF IInv
<1>2. pool'.cfg = pool.cfg
  BY <1>1, ConfigKept DEF Next, CallRebuild, CallAllocate, CallClaim, CallRelease,
                          CallReleaseAddress, Returns
<1>3. CASE CallRebuild
  <2>1. Book!OneToOne(pool'.addrByOwner) /\ Book!WithinRange(pool'.addrByOwner)
    BY <1>1, <1>2, WellFormedBook DEF Book!OneToOne, Book!WithinRange
  <2> QED
    BY <1>2, <1>3, <2>1 DEF CallRebuild, Returns, Book!Next, Book!Replace
<1>4. CASE CallAllocate
  BY <1>2, <1>4, AllocateAssigns DEF CallAllocate, Book!Next
<1>5. CASE CallClaim
  BY <1>2, <1>5, ClaimAdopts DEF CallClaim, Book!Next
<1>6. CASE CallRelease
  BY <1>2, <1>6, ReleaseDrops DEF CallRelease, Book!Next
<1>7. CASE CallReleaseAddress
  <2>1. PICK a \in Addresses : Returns("release", ReleaseAddress(pool, a))
    BY <1>7 DEF CallReleaseAddress
  <2>2. CASE a \in DOMAIN pool.ownerByAddr
    BY <1>2, <2>1, <2>2, ReleaseDrops DEF ReleaseAddress, Book!Next
  <2>3. CASE a \notin DOMAIN pool.ownerByAddr
    BY <1>2, <2>1, <2>3 DEF ReleaseAddress, Returns, Book!Next, Book!Drop
  <2> QED
    BY <2>2, <2>3
<1> QED
  BY <1>3, <1>4, <1>5, <1>6, <1>7 DEF Next

(* The pool keeps what the address book promises: no two owners share an   *)
(* address, only addresses of the range are handed out, automatically only *)
(* the lowest that is neither held nor reserved, and nobody is moved.      *)
THEOREM PoolImplementsBook == Spec => ImplementsBook
<1>1. Init => Book!Init
  BY DEF Init, New, EmptyMap, Book!Init
<1>2. IInv /\ IInv' /\ [Next]_poolVars => [Book!Next]_(Book!bookVars)
  BY BookStep DEF poolVars, Book!bookVars
<1> QED
  BY <1>1, <1>2, Invariance, PTL DEF Spec, ImplementsBook, Book!Spec

=============================================================================
