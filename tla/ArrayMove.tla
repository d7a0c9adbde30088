------------------------------ MODULE ArrayMove ------------------------------
(***************************************************************************)
(* MovePointer (include/ttr_array_move.h): one element of an array of      *)
(* pointers goes from one index to another, and those between shift by     *)
(* one.  Indices count from 1 here.                                        *)
(***************************************************************************)
EXTENDS Naturals, Sequences

\* The early return: both indices must be in the array.
CanMove(s, from, to) == from \in 1..Len(s) /\ to \in 1..Len(s)

\* A variant: the two elements trade places.
MovePointerSwap(s, from, to) ==
    [i \in 1..Len(s) |-> IF i = to THEN s[from] ELSE IF i = from THEN s[to] ELSE s[i]]

\* The two memmove calls and the store.
MovePointer(s, from, to) ==
    [i \in 1..Len(s) |-> IF i = to THEN s[from]
                         ELSE IF from <= i /\ i < to THEN s[i + 1]
                         ELSE IF to < i /\ i <= from THEN s[i - 1]
                         ELSE s[i]]
=============================================================================
