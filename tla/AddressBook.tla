---------------------------- MODULE AddressBook ----------------------------
(***************************************************************************)
(* What an address pool promises, whatever its data structures: a book in  *)
(* which no two owners share an address, where only the configured range   *)
(* is handed out, where automatic allocation takes the lowest address that *)
(* is neither held nor reserved and never moves an owner, and where only   *)
(* releasing an owner or replacing the whole book takes an address away.   *)
(***************************************************************************)
EXTENDS Integers

VARIABLES
  book,       \* function from the owners holding an address to that address
  range,      \* the configured addresses
  reserved,   \* the addresses automatic allocation never chooses
  op          \* the operation that led here

bookVars == <<book, range, reserved, op>>

Held == {book[o] : o \in DOMAIN book}

OneToOne(b) == \A o1, o2 \in DOMAIN b : b[o1] = b[o2] => o1 = o2

WithinRange(b) == \A o \in DOMAIN b : b[o] \in range

Lowest(S, a) == a \in S /\ \A x \in S : a <= x

(* Enter binds owner o, which holds nothing, to address a. *)
Enter(o, a) ==
  /\ o \notin DOMAIN book
  /\ a \in range \ Held
  /\ book' = [x \in DOMAIN book \cup {o} |-> IF x = o THEN a ELSE book[x]]

Init ==
  /\ book = [o \in {} |-> 0]
  /\ op = "new"

Replace ==
  /\ op' = "rebuild"
  /\ OneToOne(book') /\ WithinRange(book')

AutoAssign ==
  /\ op' = "allocate"
  /\ \/ UNCHANGED book
     \/ \E o \in DOMAIN book' :
          /\ Lowest(range \ (Held \cup reserved), book'[o])
          /\ Enter(o, book'[o])

Adopt ==
  /\ op' = "claim"
  /\ \/ UNCHANGED book
     \/ \E o \in DOMAIN book' : Enter(o, book'[o])

Drop ==
  /\ op' = "release"
  /\ \/ UNCHANGED book
     \/ \E o \in DOMAIN book : book' = [x \in DOMAIN book \ {o} |-> book[x]]

Next == (Replace \/ AutoAssign \/ Adopt \/ Drop) /\ UNCHANGED <<range, reserved>>

Spec == Init /\ [][Next]_bookVars

=============================================================================
