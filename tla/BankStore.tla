----------------------------- MODULE BankStore -----------------------------
(***************************************************************************)
(* What the bank manager promises to the editor, to the state that is      *)
(* saved and to whoever plays: a store of instruments, by bank and         *)
(* program, of at most Capacity banks.  A call changes the program or the  *)
(* bank it names and no other; slots, blank banks and what is still to be  *)
(* sent are no part of it.                                                 *)
(***************************************************************************)
EXTENDS Integers, FiniteSets

CONSTANTS
    BankIds,   \* the bank numbers
    Programs,  \* the program numbers of a bank
    Sounds,    \* the instruments a program can hold
    Nothing,   \* a program that holds none
    Capacity   \* how many banks may hold something

VARIABLE store

InUse(st) == {b \in BankIds : \E p \in Programs : st[b][p] # Nothing}

Init == store \in [BankIds -> [Programs -> Sounds \cup {Nothing}]]

\* An instrument comes, where none was or in the place of another.
Put(b, p, x) ==
    /\ store' = [store EXCEPT ![b][p] = x]
    /\ Cardinality(InUse(store')) <= Capacity

\* An instrument goes.
Remove(b, p) == store' = [store EXCEPT ![b][p] = Nothing]

Drop(b) == store' = [store EXCEPT ![b] = [p \in Programs |-> Nothing]]

DropAll == store' = [b \in BankIds |-> [p \in Programs |-> Nothing]]

Next ==
    \/ \E b \in BankIds, p \in Programs, x \in Sounds : Put(b, p, x)
    \/ \E b \in BankIds, p \in Programs : Remove(b, p)
    \/ \E b \in BankIds : Drop(b)
    \/ DropAll

Spec == Init /\ [][Next]_store
=============================================================================
