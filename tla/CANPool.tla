------------------------------ MODULE CANPool ------------------------------
(***************************************************************************)
(* The address pool of packages/canpool as operators on pool records.      *)
(*                                                                         *)
(* A pool value is what *canpool.Pool holds: its configuration and the two *)
(* maps that must stay inverse to each other.  Every operation of the      *)
(* package returns the pool it leaves behind, also when it fails, and an   *)
(* error; the empty error is OK.                                           *)
(***************************************************************************)
EXTENDS Integers, Sequences, FiniteSets, FiniteSetsExt

CONSTANT NoOwner        \* the empty owner string, refused by every operation

MaxModuleAddress == 255

(***************************************************************************)
(* Errors.  Wrapped errors keep the sentinel; texts are left out.          *)
(***************************************************************************)
OK                      == "ok"
ErrInvalidConfig        == "invalid config"
ErrOwnerRequired        == "owner is required"
ErrAddressRequired      == "address is required"
ErrAddressOutOfRange    == "address outside pool range"
ErrAddressInUse         == "address already assigned"
ErrDuplicateOwner       == "duplicate assignment for owner"
ErrOwnerAlreadyAssigned == "owner already has an address"
ErrOwnerNotFound        == "owner has no assignment"
ErrNoAddressAvailable   == "no address available in range"

PoolErrors ==
  {OK, ErrInvalidConfig, ErrOwnerRequired, ErrAddressRequired, ErrAddressOutOfRange,
   ErrAddressInUse, ErrDuplicateOwner, ErrOwnerAlreadyAssigned, ErrOwnerNotFound,
   ErrNoAddressAvailable}

(***************************************************************************)
(* Configurations: cfg = [start, end, reserved], reserved a sequence as in *)
(* the code, which refuses one that lists an address twice.                *)
(***************************************************************************)
Validate(cfg) ==
  /\ cfg.start >= 1
  /\ cfg.end <= MaxModuleAddress
  /\ cfg.start <= cfg.end
  /\ \A i \in DOMAIN cfg.reserved :
        /\ cfg.reserved[i] \in cfg.start .. cfg.end
        /\ \A j \in DOMAIN cfg.reserved : cfg.reserved[i] = cfg.reserved[j] => i = j

InRange(p, addr) == addr \in p.cfg.start .. p.cfg.end

IsReserved(p, addr) == addr \in Range(p.cfg.reserved)

IsAvailable(p, addr) == InRange(p, addr) /\ addr \notin DOMAIN p.ownerByAddr

IsAutoAllocatable(p, addr) == IsAvailable(p, addr) /\ ~IsReserved(p, addr)

Available(p) == {addr \in p.cfg.start .. p.cfg.end : IsAutoAllocatable(p, addr)}

Stats(p) ==
  [rangeSize     |-> p.cfg.end - p.cfg.start + 1,
   reserved      |-> Cardinality(Range(p.cfg.reserved)),
   allocated     |-> Cardinality(DOMAIN p.ownerByAddr),
   autoAvailable |-> Cardinality(Available(p))]

-----------------------------------------------------------------------------
EmptyMap == [x \in {} |-> 0]

Put(f, key, value) == [x \in DOMAIN f \cup {key} |-> IF x = key THEN value ELSE f[x]]

Unbind(f, key) == [x \in DOMAIN f \ {key} |-> f[x]]

Bind(p, owner, addr) ==
  [cfg         |-> p.cfg,
   ownerByAddr |-> Put(p.ownerByAddr, addr, owner),
   addrByOwner |-> Put(p.addrByOwner, owner, addr)]

(* New: the pool of a valid configuration, with nothing assigned. *)
New(cfg) == [cfg |-> cfg, ownerByAddr |-> EmptyMap, addrByOwner |-> EmptyMap]

(***************************************************************************)
(* Rebuild forgets every assignment and takes the given list in order up   *)
(* to the first entry it refuses; the entries before that one stay.        *)
(***************************************************************************)
(* Mutant: an entry outside the range is taken. *)
RebuildErrorAnyRange(p, as, i) ==
  IF as[i].owner = NoOwner THEN ErrOwnerRequired
  ELSE IF as[i].address = 0 THEN ErrAddressRequired
  ELSE IF \E j \in 1 .. i - 1 : as[j].address = as[i].address THEN ErrAddressInUse
  ELSE IF \E j \in 1 .. i - 1 : as[j].owner = as[i].owner THEN ErrDuplicateOwner
  ELSE OK

RebuildError(p, as, i) ==
  IF as[i].owner = NoOwner THEN ErrOwnerRequired
  ELSE IF as[i].address = 0 THEN ErrAddressRequired
  ELSE IF ~InRange(p, as[i].address) THEN ErrAddressOutOfRange
  ELSE IF \E j \in 1 .. i - 1 : as[j].address = as[i].address THEN ErrAddressInUse
  ELSE IF \E j \in 1 .. i - 1 : as[j].owner = as[i].owner THEN ErrDuplicateOwner
  ELSE OK

Refused(p, as) == {i \in 1 .. Len(as) : RebuildError(p, as, i) # OK}

Accepted(p, as) == {i \in 1 .. Len(as) : \A j \in 1 .. i : j \notin Refused(p, as)}

Rebuild(p, as) ==
  LET taken == Accepted(p, as) IN
  [pool |-> [cfg |-> p.cfg,
             ownerByAddr |-> [addr \in {as[i].address : i \in taken} |->
                                as[CHOOSE i \in taken : as[i].address = addr].owner],
             addrByOwner |-> [owner \in {as[i].owner : i \in taken} |->
                                as[CHOOSE i \in taken : as[i].owner = owner].address]],
   err  |-> IF Refused(p, as) = {} THEN OK ELSE RebuildError(p, as, Min(Refused(p, as)))]

(* Mutant: an owner that has an address is given another one. *)
AllocateAgain(p, owner) ==
  IF owner = NoOwner THEN [pool |-> p, addr |-> 0, err |-> ErrOwnerRequired]
  ELSE IF Available(p) = {} THEN [pool |-> p, addr |-> 0, err |-> ErrNoAddressAvailable]
  ELSE LET addr == Min(Available(p))
       IN  [pool |-> Bind(p, owner, addr), addr |-> addr, err |-> OK]

(***************************************************************************)
(* Allocate answers the address the owner already has, or binds the lowest *)
(* free address that is not reserved.                                      *)
(***************************************************************************)
Allocate(p, owner) ==
  IF owner = NoOwner THEN [pool |-> p, addr |-> 0, err |-> ErrOwnerRequired]
  ELSE IF owner \in DOMAIN p.addrByOwner
    THEN [pool |-> p, addr |-> p.addrByOwner[owner], err |-> OK]
  ELSE IF Available(p) = {}
    THEN [pool |-> p, addr |-> 0, err |-> ErrNoAddressAvailable]
  ELSE LET addr == Min(Available(p))
       IN  [pool |-> Bind(p, owner, addr), addr |-> addr, err |-> OK]

(* Mutant: the address is not compared with the range. *)
ClaimErrorAnyRange(p, owner, addr) ==
  IF owner = NoOwner THEN ErrOwnerRequired
  ELSE IF addr = 0 THEN ErrAddressRequired
  ELSE IF owner \in DOMAIN p.addrByOwner
    THEN IF p.addrByOwner[owner] = addr THEN OK ELSE ErrOwnerAlreadyAssigned
  ELSE IF addr \in DOMAIN p.ownerByAddr THEN ErrAddressInUse
  ELSE OK

(* Claim binds one given address, which may be a reserved one. *)
ClaimError(p, owner, addr) ==
  IF owner = NoOwner THEN ErrOwnerRequired
  ELSE IF addr = 0 THEN ErrAddressRequired
  ELSE IF ~InRange(p, addr) THEN ErrAddressOutOfRange
  ELSE IF owner \in DOMAIN p.addrByOwner
    THEN IF p.addrByOwner[owner] = addr THEN OK ELSE ErrOwnerAlreadyAssigned
  ELSE IF addr \in DOMAIN p.ownerByAddr THEN ErrAddressInUse
  ELSE OK

Claim(p, owner, addr) ==
  LET err == ClaimError(p, owner, addr) IN
  [pool |-> IF err = OK THEN Bind(p, owner, addr) ELSE p, err |-> err]

(* Mutant: the address keeps its owner. *)
ReleaseOwnerOnly(p, owner) ==
  IF owner = NoOwner THEN [pool |-> p, err |-> ErrOwnerRequired]
  ELSE IF owner \notin DOMAIN p.addrByOwner THEN [pool |-> p, err |-> ErrOwnerNotFound]
  ELSE [pool |-> [p EXCEPT !.addrByOwner = Unbind(@, owner)], err |-> OK]

(* Release takes the owner out of one map and its address out of the other. *)
Release(p, owner) ==
  IF owner = NoOwner THEN [pool |-> p, err |-> ErrOwnerRequired]
  ELSE IF owner \notin DOMAIN p.addrByOwner THEN [pool |-> p, err |-> ErrOwnerNotFound]
  ELSE [pool |-> [cfg         |-> p.cfg,
                  ownerByAddr |-> Unbind(p.ownerByAddr, p.addrByOwner[owner]),
                  addrByOwner |-> Unbind(p.addrByOwner, owner)],
        err  |-> OK]

ReleaseAddress(p, addr) ==
  IF addr \notin DOMAIN p.ownerByAddr THEN [pool |-> p, err |-> ErrOwnerNotFound]
  ELSE Release(p, p.ownerByAddr[addr])

=============================================================================
