----------------------------- MODULE PoolObject -----------------------------
(***************************************************************************)
(* One *canpool.Pool in use: a pool made by New from a valid configuration *)
(* and then any sequence of calls of the package's operations, with any    *)
(* arguments, the refused ones included.                                   *)
(***************************************************************************)
EXTENDS CANPool

CONSTANTS
  Owners,           \* owners that callers pass, besides the empty one
  Addresses,        \* addresses that callers pass, 0 included
  Configs,          \* configurations New is called with
  MaxAssignments    \* bound: longest list passed to Rebuild

ASSUME OwnersAssumption == NoOwner \notin Owners
ASSUME AddressesAssumption == Addresses \subseteq Nat
ASSUME ConfigsAssumption ==
  Configs \subseteq [start : Nat, end : Nat, reserved : Seq(Nat)]
ASSUME MaxAssignmentsAssumption == MaxAssignments \in Nat

VARIABLES
  pool,     \* the pool record of CANPool
  op,       \* the operation called last
  err       \* the error it returned

poolVars == <<pool, op, err>>

AnyOwner == Owners \cup {NoOwner}

Assignment == [owner : AnyOwner, address : Addresses]

AssignmentLists == UNION {[1 .. n -> Assignment] : n \in 0 .. MaxAssignments}

-----------------------------------------------------------------------------
Init ==
  /\ \E cfg \in Configs : Validate(cfg) /\ pool = New(cfg)
  /\ op = "new"
  /\ err = OK

Returns(name, r) == pool' = r.pool /\ err' = r.err /\ op' = name

CallRebuild == \E as \in AssignmentLists : Returns("rebuild", Rebuild(pool, as))

CallAllocate == \E o \in AnyOwner : Returns("allocate", Allocate(pool, o))

CallClaim == \E o \in AnyOwner, a \in Addresses : Returns("claim", Claim(pool, o, a))

CallRelease == \E o \in AnyOwner : Returns("release", Release(pool, o))

CallReleaseAddress == \E a \in Addresses : Returns("release", ReleaseAddress(pool, a))

Next == CallRebuild \/ CallAllocate \/ CallClaim \/ CallRelease \/ CallReleaseAddress

Spec == Init /\ [][Next]_poolVars

-----------------------------------------------------------------------------
(* The pool keeps a valid configuration, and both maps stay within the     *)
(* owners, the configured range and the errors the package defines.        *)
TypeOK ==
  /\ pool = [cfg |-> pool.cfg, ownerByAddr |-> pool.ownerByAddr, addrByOwner |-> pool.addrByOwner]
  /\ pool.cfg \in Configs
  /\ Validate(pool.cfg)
  /\ pool.ownerByAddr \in [DOMAIN pool.ownerByAddr -> Owners]
  /\ DOMAIN pool.ownerByAddr \subseteq pool.cfg.start .. pool.cfg.end
  /\ pool.addrByOwner \in [DOMAIN pool.addrByOwner -> pool.cfg.start .. pool.cfg.end]
  /\ DOMAIN pool.addrByOwner \subseteq Owners
  /\ op \in {"new", "rebuild", "allocate", "claim", "release"}
  /\ err \in PoolErrors

(* Stats adds up: every address of the range is allocated, allocatable or  *)
(* a reserved one nobody claimed, so what CANAddressPool.status shows is   *)
(* the whole range, whatever was claimed among the reserved addresses.     *)
StatsAddUp ==
  LET s == Stats(pool)
      reservedTaken == {a \in DOMAIN pool.ownerByAddr : IsReserved(pool, a)}
  IN  s.allocated + s.autoAvailable + s.reserved = s.rangeSize + Cardinality(reservedTaken)

(* A pool can be rebuilt from its own assignments, in whatever order they  *)
(* are listed: this is what the controller does on every reconcile with    *)
(* addresses that earlier pools gave out.  Rebuild binds both maps, so a   *)
(* call that left one without the other's entry would show here.           *)
ListsOf(p) ==
  LET n == Cardinality(DOMAIN p.addrByOwner) IN
  {[i \in 1 .. n |-> [owner |-> f[i], address |-> p.addrByOwner[f[i]]]] :
     f \in {g \in [1 .. n -> DOMAIN p.addrByOwner] : Range(g) = DOMAIN p.addrByOwner}}

Rebuildable == \A as \in ListsOf(pool) : Rebuild(pool, as) = [pool |-> pool, err |-> OK]

-----------------------------------------------------------------------------
(* The pool implements the address book. *)
Book == INSTANCE AddressBook WITH
  book     <- pool.addrByOwner,
  range    <- pool.cfg.start .. pool.cfg.end,
  reserved <- Range(pool.cfg.reserved),
  op       <- op

ImplementsBook == Book!Spec

=============================================================================
