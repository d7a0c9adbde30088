----------------------------- MODULE MCXamlDrag -----------------------------
(***************************************************************************)
(* XamlDrag for TLC: thumbnails, groups, taskbars and tasks are only ever  *)
(* compared, so they are interchangeable.                                  *)
(***************************************************************************)
EXTENDS XamlDrag, TLC

Symmetry ==
    Permutations(Thumbnails) \cup Permutations(Groups)
        \cup Permutations(Uis) \cup Permutations(Tasks)
=============================================================================
