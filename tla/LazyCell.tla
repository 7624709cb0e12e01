------------------------------ MODULE LazyCell ------------------------------
(***************************************************************************)
(* What a lazy per-process wrapper promises: every process has a cell that *)
(* is filled at most once, with an object no cell held before; borrowers   *)
(* are lent what their own process's cell holds; a new process starts with *)
(* a copy of its parent's cell.                                            *)
(***************************************************************************)
CONSTANTS Process, Root, Borrower, HomeOf, Object, Empty

VARIABLES
    existing,  \* the processes that exist
    cell,      \* per process: the object, or Empty
    lent       \* per borrower: the object it uses, or Empty

cellVars == <<existing, cell, lent>>

Init ==
    /\ existing = {Root}
    /\ cell = [p \in Process |-> Empty]
    /\ lent = [b \in Borrower |-> Empty]

Fill(p, o) ==
    /\ cell[p] = Empty
    /\ \A q \in Process : cell[q] # o
    /\ cell' = [cell EXCEPT ![p] = o]
    /\ UNCHANGED <<existing, lent>>

Lend(b) ==
    /\ lent[b] = Empty
    /\ cell[HomeOf[b]] # Empty
    /\ lent' = [lent EXCEPT ![b] = cell[HomeOf[b]]]
    /\ UNCHANGED <<existing, cell>>

GiveBack(b) ==
    /\ lent' = [lent EXCEPT ![b] = Empty]
    /\ UNCHANGED <<existing, cell>>

Split(p, q) ==
    /\ p \in existing /\ q \notin existing
    /\ existing' = existing \cup {q}
    /\ cell' = [cell EXCEPT ![q] = cell[p]]
    /\ UNCHANGED lent

Next ==
    \/ \E p \in Process, o \in Object : Fill(p, o)
    \/ \E b \in Borrower : Lend(b) \/ GiveBack(b)
    \/ \E p, q \in Process : Split(p, q)

Spec == Init /\ [][Next]_cellVars
=============================================================================
