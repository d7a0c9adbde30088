---------------------------- MODULE DetourContract ----------------------------
(***************************************************************************)
(* What the payload promises about Explorer's functions, whichever backend *)
(* it uses and however it puts the detours in place: they change only      *)
(* while the gate is closed, the gate opens only over detours, after a     *)
(* fault neither comes back before the DLL is new, and an answer says what *)
(* is there when it is given.                                              *)
(***************************************************************************)

VARIABLES
    patched,   \* a function of Explorer leads into the DLL
    gate,      \* callbacks run custom logic
    faulted,
    answer,    \* the last one to a command: none, Active, Faulted or Unloading
    stuck      \* a detour that was to be removed could not be

vars == <<patched, gate, faulted, answer, stuck>>

Init == ~patched /\ ~gate /\ ~faulted /\ answer = "none" /\ ~stuck

\* Within a command, detours come, unless there was a fault, or go.
Alter ==
    /\ ~gate /\ (patched' => patched \/ ~faulted)
    /\ UNCHANGED <<gate, faulted, answer>>

Open ==
    /\ ~gate /\ ~faulted /\ patched' /\ gate' /\ answer' = "Active"
    /\ UNCHANGED <<faulted, stuck>>

\* A second Enable.
Confirm == gate /\ answer' = "Active" /\ UNCHANGED <<patched, gate, faulted, stuck>>

\* A callback may fault as the gate closes.
Close ==
    /\ gate /\ ~gate' /\ (faulted => faulted')
    /\ UNCHANGED <<patched, answer, stuck>>

\* An open gate closes over detours that stay.
Fault ==
    /\ ~gate' /\ faulted' /\ answer' = "Faulted"
    /\ patched' => patched \/ ~faulted
    /\ gate => UNCHANGED <<patched, stuck>>

\* The host may let the DLL go.
Unload ==
    /\ ~gate /\ (patched' => patched /\ stuck') /\ answer' = "Unloading"
    /\ UNCHANGED <<gate, faulted>>

\* The answer to a command that is not about detours, or none yet.
Forget == answer' = "none" /\ UNCHANGED <<patched, gate, faulted, stuck>>

\* The DLL is freed, or Explorer ends.
Fresh ==
    /\ ~patched' /\ ~gate' /\ ~faulted' /\ ~stuck'
    /\ answer' \in {answer, "none"}

Next ==
    Alter \/ Open \/ Confirm \/ Close \/ Fault \/ Unload \/ Forget \/ Fresh

Spec == Init /\ [][Next]_vars
=============================================================================
