---------------------------- MODULE AtomicReorder ----------------------------
(***************************************************************************)
(* What MoveTaskInGroup promises to its caller: in one step a window is    *)
(* taken out of the group's list and of every taskbar's that has buttons   *)
(* and is put in where another one was, or no list changes at all; the     *)
(* answer tells which of the two.  Between calls windows come and go.      *)
(***************************************************************************)
EXTENDS Naturals, Sequences, SequencesExt

CONSTANTS Windows, Lists

VARIABLES
    lists,     \* the windows in each list
    answer     \* of the call that has just ended: none, moved or refused

vars == <<lists, answer>>

Init == lists = [l \in Lists |-> <<>>] /\ answer = "none"

Has(s, w)   == \E i \in 1..Len(s) : s[i] = w
Place(s, w) == CHOOSE i \in 1..Len(s) : s[i] = w

\* The window at i is taken out and put in at j.
Put(s, i, j) == InsertAt(RemoveAt(s, i), j, s[i])

Move(w, d) ==
    /\ answer = "none" /\ answer' = "moved"
    /\ \E l \in Lists : lists[l] # <<>>
    /\ \A l \in Lists : lists[l] # <<>> => Has(lists[l], w) /\ Has(lists[l], d)
    /\ lists' = [l \in Lists |->
                    IF lists[l] = <<>> THEN <<>>
                    ELSE Put(lists[l], Place(lists[l], w), Place(lists[l], d))]

Refuse == answer = "none" /\ answer' = "refused" /\ UNCHANGED lists
Return == answer # "none" /\ answer' = "none" /\ UNCHANGED lists

Open(w) ==
    /\ answer = "none" /\ UNCHANGED answer
    /\ \A l \in Lists : ~Has(lists[l], w)
    /\ \E some \in SUBSET Lists :
          lists' = [l \in Lists |-> IF l \in some THEN Append(lists[l], w) ELSE lists[l]]

Close(w) ==
    /\ answer = "none" /\ UNCHANGED answer
    /\ lists' = [l \in Lists |-> IF Has(lists[l], w)
                                 THEN RemoveAt(lists[l], Place(lists[l], w))
                                 ELSE lists[l]]

Next == \/ \E w, d \in Windows : w # d /\ Move(w, d)
        \/ Refuse \/ Return
        \/ \E w \in Windows : Open(w) \/ Close(w)

Spec == Init /\ [][Next]_vars
=============================================================================
