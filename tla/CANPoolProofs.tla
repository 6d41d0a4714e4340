--------------------------- MODULE CANPoolProofs ---------------------------
(***************************************************************************)
(* Facts about the operators of the address pool library, for any pool and *)
(* any list of assignments: what Rebuild takes and leaves, and what        *)
(* Allocate may choose from.                                               *)
(***************************************************************************)
EXTENDS CANPool, WellFoundedInduction, SequenceTheorems, FiniteSetTheorems, TLAPS

-----------------------------------------------------------------------------
(***************************************************************************)
(* Minimum of a set of natural numbers.                                    *)
(***************************************************************************)

(* < on the naturals is contained in a well-founded relation.              *)
LEMMA LessThanWellFounded ==
  \E Less : /\ IsWellFoundedOn(Less, Nat)
            /\ \A x, y \in Nat : x < y => <<x, y>> \in Less
<1>1. \A x, y \in Nat : x < y => <<x, y>> \in OpToRel(<, Nat)
  BY DEF OpToRel
<1> QED
  BY <1>1, NatLessThanWellFounded, Zenon

(* A set of naturals that is not empty has its Min as a member: the lowest *)
(* free address of Allocate exists.                                        *)
LEMMA MinExists ==
  ASSUME NEW S \in SUBSET Nat, S # {}
  PROVE  Min(S) \in S /\ \A y \in S : Min(S) <= y
<1>1. PICK Less : /\ IsWellFoundedOn(Less, Nat)
                  /\ \A x, y \in Nat : x < y => <<x, y>> \in Less
  BY LessThanWellFounded
<1>2. \A R, X, T : IsWellFoundedOn(R, X) /\ T \subseteq X /\ T # {}
                   => \E x \in T : \A y \in T : ~(<<y, x>> \in R)
  BY WFMin, Zenon
<1>3. IsWellFoundedOn(Less, Nat) /\ S \subseteq Nat /\ S # {}
  BY <1>1
<1>4. \E x \in S : \A y \in S : ~(<<y, x>> \in Less)
  BY <1>2, <1>3, Zenon
<1>5. PICK x \in S : \A y \in S : ~(<<y, x>> \in Less)
  BY <1>4, Zenon
<1>6. \A y \in S : x <= y
  <2> TAKE y \in S
  <2>1. x \in Nat /\ y \in Nat
    OBVIOUS
  <2>2. ~(y < x)
    BY <1>1, <1>5, <2>1, Zenon
  <2> QED
    BY <2>1, <2>2, SMT
<1>7. Min(S) = CHOOSE z \in S : \A y \in S : z =< y
  BY Zenon DEF Min
<1> QED
  BY <1>6, <1>7, Zenon

-----------------------------------------------------------------------------
(***************************************************************************)
(* Rebuild.                                                                *)
(***************************************************************************)

(* No two of the entries I of a list agree in owner or address.            *)
Distinct(as, I) ==
  \A i, j \in I : as[i].owner = as[j].owner \/ as[i].address = as[j].address => i = j

(* A pool that holds the entries I of a list, and nothing else.            *)
Holds(q, cfg, as, I) ==
  /\ q.cfg = cfg
  /\ q = [cfg |-> q.cfg, ownerByAddr |-> q.ownerByAddr, addrByOwner |-> q.addrByOwner]
  /\ DOMAIN q.ownerByAddr = {as[i].address : i \in I}
  /\ q.ownerByAddr = [addr \in DOMAIN q.ownerByAddr |-> q.ownerByAddr[addr]]
  /\ \A i \in I : q.ownerByAddr[as[i].address] = as[i].owner
  /\ DOMAIN q.addrByOwner = {as[i].owner : i \in I}
  /\ q.addrByOwner = [owner \in DOMAIN q.addrByOwner |-> q.addrByOwner[owner]]
  /\ \A i \in I : q.addrByOwner[as[i].owner] = as[i].address

(* What Rebuild took passed its checks: it has an owner, an address of the *)
(* range, and neither of them in common with another one it took.          *)
LEMMA AcceptedPass ==
  ASSUME NEW p, NEW as, NEW n \in Nat, Len(as) = n
  PROVE  /\ \A i \in Accepted(p, as) :
               i \in 1 .. n /\ as[i].owner # NoOwner /\ InRange(p, as[i].address)
         /\ Distinct(as, Accepted(p, as))
<1>1. \A i \in Accepted(p, as) : i \in 1 .. n /\ RebuildError(p, as, i) = OK
  <2> TAKE i \in Accepted(p, as)
  <2>1. i \in 1 .. n /\ \A k \in 1 .. i : k \notin Refused(p, as)
    BY DEF Accepted
  <2>2. i \in 1 .. i
    BY <2>1
  <2> QED
    BY <2>1, <2>2 DEF Refused
<1>2. \A i \in Accepted(p, as) :
         /\ as[i].owner # NoOwner
         /\ InRange(p, as[i].address)
         /\ \A j \in 1 .. i - 1 : as[j].address # as[i].address /\ as[j].owner # as[i].owner
  BY <1>1 DEF RebuildError, OK, ErrOwnerRequired, ErrAddressRequired, ErrAddressOutOfRange,
              ErrAddressInUse, ErrDuplicateOwner
<1>3. \A i, j \in Accepted(p, as) :
         as[i].owner = as[j].owner \/ as[i].address = as[j].address => i = j
  <2> TAKE i, j \in Accepted(p, as)
  <2>1. i \in 1 .. n /\ j \in 1 .. n
    BY <1>1
  <2>2. i < j => i \in 1 .. j - 1
    BY <2>1
  <2>3. j < i => j \in 1 .. i - 1
    BY <2>1
  <2> QED
    <3>1. i < j \/ j < i \/ i = j
      BY <2>1
    <3> QED
      BY <1>2, <2>2, <2>3, <3>1, Zenon
<1> QED
  BY <1>1, <1>2, <1>3 DEF Distinct

(* Rebuild leaves the accepted entries, when no two of them agree.         *)
LEMMA RebuiltMaps ==
  ASSUME NEW p, NEW as, Distinct(as, Accepted(p, as))
  PROVE  Holds(Rebuild(p, as).pool, p.cfg, as, Accepted(p, as))
<1> DEFINE q == Rebuild(p, as).pool
<1> DEFINE taken == Accepted(p, as)
<1>1. q = [cfg |-> p.cfg,
           ownerByAddr |-> [addr \in {as[i].address : i \in taken} |->
                              as[CHOOSE i \in taken : as[i].address = addr].owner],
           addrByOwner |-> [owner \in {as[i].owner : i \in taken} |->
                              as[CHOOSE i \in taken : as[i].owner = owner].address]]
  BY DEF Rebuild
<1> HIDE DEF q
<1>2. /\ q.cfg = p.cfg
      /\ q = [cfg |-> q.cfg, ownerByAddr |-> q.ownerByAddr, addrByOwner |-> q.addrByOwner]
  BY <1>1
<1>3. /\ DOMAIN q.ownerByAddr = {as[i].address : i \in taken}
      /\ q.ownerByAddr = [addr \in DOMAIN q.ownerByAddr |-> q.ownerByAddr[addr]]
      /\ \A i \in taken : q.ownerByAddr[as[i].address] = as[i].owner
  <2>1. \A i \in taken : (CHOOSE j \in taken : as[j].address = as[i].address) = i
    BY DEF Distinct
  <2>2. q.ownerByAddr = [addr \in {as[i].address : i \in taken} |->
                           as[CHOOSE i \in taken : as[i].address = addr].owner]
    BY <1>1
  <2>3. \A i \in taken : q.ownerByAddr[as[i].address] =
                           as[CHOOSE j \in taken : as[j].address = as[i].address].owner
    BY <2>2, ZenonT(60)
  <2>4. /\ DOMAIN q.ownerByAddr = {as[i].address : i \in taken}
        /\ q.ownerByAddr = [addr \in DOMAIN q.ownerByAddr |-> q.ownerByAddr[addr]]
    BY <2>2, Zenon
  <2>5. ASSUME NEW i \in taken
        PROVE  q.ownerByAddr[as[i].address] = as[i].owner
    <3>1. PICK k : k = (CHOOSE j \in taken : as[j].address = as[i].address)
      OBVIOUS
    <3>2. k = i
      BY <2>1, <3>1, Zenon
    <3>3. q.ownerByAddr[as[i].address] = as[k].owner
      BY <2>3, <3>1, Zenon
    <3> QED
      BY <3>2, <3>3, Zenon
  <2> QED
    BY <2>4, <2>5, Zenon
<1>4. /\ DOMAIN q.addrByOwner = {as[i].owner : i \in taken}
      /\ q.addrByOwner = [owner \in DOMAIN q.addrByOwner |-> q.addrByOwner[owner]]
      /\ \A i \in taken : q.addrByOwner[as[i].owner] = as[i].address
  <2>1. \A i \in taken : (CHOOSE j \in taken : as[j].owner = as[i].owner) = i
    BY DEF Distinct
  <2>2. q.addrByOwner = [owner \in {as[i].owner : i \in taken} |->
                           as[CHOOSE i \in taken : as[i].owner = owner].address]
    BY <1>1
  <2>3. \A i \in taken : q.addrByOwner[as[i].owner] =
                           as[CHOOSE j \in taken : as[j].owner = as[i].owner].address
    BY <2>2, ZenonT(60)
  <2>4. /\ DOMAIN q.addrByOwner = {as[i].owner : i \in taken}
        /\ q.addrByOwner = [owner \in DOMAIN q.addrByOwner |-> q.addrByOwner[owner]]
    BY <2>2, Zenon
  <2>5. ASSUME NEW i \in taken
        PROVE  q.addrByOwner[as[i].owner] = as[i].address
    <3>1. PICK k : k = (CHOOSE j \in taken : as[j].owner = as[i].owner)
      OBVIOUS
    <3>2. k = i
      BY <2>1, <3>1, Zenon
    <3>3. q.addrByOwner[as[i].owner] = as[k].address
      BY <2>3, <3>1, Zenon
    <3> QED
      BY <3>2, <3>3, Zenon
  <2> QED
    BY <2>4, <2>5, Zenon
<1> QED
  BY <1>2, <1>3, <1>4 DEF Holds, q

(* A list that Rebuild did not refuse is the pool's contents, all of it.    *)
LEMMA RebuiltWhole ==
  ASSUME NEW p, NEW as, NEW n \in Nat, Len(as) = n, Rebuild(p, as).err = OK
  PROVE  /\ \A i \in 1 .. n : as[i].owner # NoOwner /\ InRange(p, as[i].address)
         /\ Distinct(as, 1 .. n)
         /\ Holds(Rebuild(p, as).pool, p.cfg, as, 1 .. n)
<1>1. Refused(p, as) = {}
  <2> SUFFICES ASSUME Refused(p, as) # {}
               PROVE  FALSE
    OBVIOUS
  <2>1. Refused(p, as) \in SUBSET Nat
    <3>1. \A i \in Refused(p, as) : i \in 1 .. n
      BY Zenon DEF Refused
    <3>2. \A i \in 1 .. n : i \in Nat
      OBVIOUS
    <3> QED
      BY <3>1, <3>2, Zenon
  <2>2. Min(Refused(p, as)) \in Refused(p, as)
    BY <2>1, MinExists
  <2>3. Rebuild(p, as).err = RebuildError(p, as, Min(Refused(p, as)))
    BY DEF Rebuild
  <2> QED
    BY <2>2, <2>3 DEF Refused
<1>2. Accepted(p, as) = 1 .. n
  BY <1>1 DEF Accepted
<1> QED
  BY <1>2, AcceptedPass, RebuiltMaps

(* What can be allocated automatically is part of the range, not held by   *)
(* anybody and not reserved.                                               *)
LEMMA FreeAddresses ==
  ASSUME NEW p, p.cfg.start \in Nat, p.cfg.end \in Nat
  PROVE  /\ Available(p) \in SUBSET Nat
         /\ Available(p) = (p.cfg.start .. p.cfg.end)
                             \ (DOMAIN p.ownerByAddr \cup Range(p.cfg.reserved))
BY DEF Available, IsAutoAllocatable, IsAvailable, InRange, IsReserved

=============================================================================
