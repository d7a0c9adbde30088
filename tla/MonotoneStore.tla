---------------------------- MODULE MonotoneStore ----------------------------
(***************************************************************************)
(* What the signed-manifest files promise to the tray host: whatever an    *)
(* update, a failure or a crash does to them, a later load never gives an  *)
(* older manifest than the one the host already used.                      *)
(***************************************************************************)
EXTENDS Naturals

VARIABLES
    inUse,     \* the sequence of the manifest the host works with
    durable    \* the sequence a load from the files would select now

vars == <<inUse, durable>>

Init == inUse \in Nat /\ durable = inUse

\* The files change; what they select is never older than what is in use.
Store ==
    /\ durable' \in Nat /\ durable' >= inUse
    /\ UNCHANGED inUse

\* The host loads the files.
Adopt == inUse' = durable /\ UNCHANGED durable

Next == Store \/ Adopt
Spec == Init /\ [][Next]_vars
=============================================================================
