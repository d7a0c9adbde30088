---------------------------- MODULE HookTransaction ----------------------------
(***************************************************************************)
(* Patching and unpatching Explorer's functions: the two backends' detours *)
(* (payload/xaml_backend.cpp, classic_backend.cpp), each put in place by a *)
(* HookTransaction (payload/hook_transaction.cpp) on MinHook, as the       *)
(* payload's commands call for it (ProcessCommand, payload_state.cpp).     *)
(*                                                                         *)
(* Each call of MinHook is a step of its own and may fail: the two         *)
(* backends share MinHook and two of the functions, a transaction that     *)
(* fails is rolled back, and nobody looks at what MH_RemoveHook and        *)
(* MH_Uninitialize return.  The commands run on one thread.  A callback    *)
(* that runs in a detour appears as what it can do to the commands: fault, *)
(* or stay for longer than PrepareUnload waits.                            *)
(***************************************************************************)
EXTENDS Naturals, FiniteSets

CONSTANTS
    Function,   \* the functions that are patched
    Wanted      \* those that each backend patches

Backends == {"xaml", "classic"}

ASSUME WantedAssumption ==
    /\ Wanted \in [Backends -> SUBSET Function]
    /\ \A b \in Backends : IsFiniteSet(Wanted[b]) /\ Wanted[b] # {}

VARIABLES
    heap,           \* g_hHeap: MinHook is initialised
    created,        \* g_hooks: the functions that have an entry and a trampoline
    live,           \* the functions that jump to a detour
    users,          \* HookTransaction's count of transactions
    initialized,    \* of each backend's transaction
    targets,        \* of each backend's transaction
    flags,          \* compatibility.backendFlags
    gate,           \* state.enabled
    faulted,        \* state.faulted
    payloadState, payloadError, hookCount, activeBackend,   \* TtrSessionControlV1
    pc, cur, goal,  \* where the command is: the backend, and what a reset is for
    todo,           \* the functions that the loop at pc has still to do
    stuck           \* history: MH_Uninitialize failed and has not succeeded since

minhook == <<heap, created, live, stuck>>
transactions == <<users, initialized, targets>>
control == <<payloadState, payloadError, hookCount, activeBackend>>
place == <<pc, cur, goal, todo>>
vars == <<minhook, transactions, flags, gate, faulted, control, place>>

PayloadStates == {"None", "Unsupported", "Disabled", "Active", "Faulted", "Unloading"}
PayloadErrors ==
    {"None", "UnsupportedModules", "HookCreateFailed", "CallbackDrainTimeout",
     "InternalError"}
Goals == {"begin", "next", "fault", "unload"}

Init ==
    /\ heap = FALSE /\ created = {} /\ live = {} /\ stuck = FALSE
    /\ users = 0
    /\ initialized = [b \in Backends |-> FALSE] /\ targets = [b \in Backends |-> {}]
    /\ flags = {} /\ gate = FALSE /\ faulted = FALSE
    /\ payloadState = "None" /\ payloadError = "None"
    /\ hookCount = 0 /\ activeBackend = "none"
    /\ pc = "idle" /\ cur = "xaml" /\ goal = "begin" /\ todo = {}

SetResult(s, e) == payloadState' = s /\ payloadError' = e

-----------------------------------------------------------------------------
(* HookTransaction and MinHook.                                            *)

\* Go on to the Reset of a backend's transaction.
StartReset(b, g) == pc' = "reset" /\ cur' = b /\ goal' = g /\ todo' = targets'[b]

\* Begin, after its Reset: another heap is no failure.
Begin ==
    /\ pc = "begin"
    /\ heap' = TRUE /\ users' = users + 1
    /\ initialized' = [initialized EXCEPT ![cur] = TRUE]
    /\ pc' = "add" /\ todo' = Wanted[cur]
    /\ UNCHANGED <<created, live, stuck, targets, flags, gate, faulted, control, cur, goal>>

\* MH_Initialize finds no memory, or comctl32 is not there.
BeginFails ==
    /\ pc = "begin"
    /\ UNCHANGED transactions
    /\ StartReset(cur, "next")
    /\ UNCHANGED <<minhook, flags, gate, faulted, control>>

Add ==
    /\ pc = "add"
    /\ \E t \in todo \ created :
          /\ created' = created \cup {t}
          /\ targets' = [targets EXCEPT ![cur] = @ \cup {t}]
          /\ todo' = todo \ {t}
    /\ UNCHANGED <<heap, live, stuck, users, initialized, flags, gate, faulted, control,
                   pc, cur, goal>>

\* MH_CreateHook: no memory, a function that cannot be patched, or one that has
\* an entry already.
AddFails ==
    /\ pc = "add" /\ todo # {}
    /\ UNCHANGED transactions
    /\ StartReset(cur, "next")
    /\ UNCHANGED <<minhook, flags, gate, faulted, control>>

\* A Commit that does not ask what MH_ApplyQueued did.
CommitUnchecked ==
    /\ pc = "add" /\ todo = {}
    /\ \E done \in SUBSET targets[cur] : live' = live \cup done
    /\ hookCount' = Cardinality(targets[cur])
    /\ gate' = TRUE /\ SetResult("Active", "None") /\ activeBackend' = cur
    /\ pc' = "idle"
    /\ UNCHANGED <<heap, created, stuck, transactions, flags, faulted, cur, goal, todo>>

\* Commit, the rest of the backend's Enable, and of the command: the callbacks
\* go by the gate, which opens last.
Commit ==
    /\ pc = "add" /\ todo = {}
    /\ live' = live \cup targets[cur]
    /\ hookCount' = Cardinality(targets[cur])
    /\ gate' = TRUE /\ SetResult("Active", "None") /\ activeBackend' = cur
    /\ pc' = "idle"
    /\ UNCHANGED <<heap, created, stuck, transactions, flags, faulted, cur, goal, todo>>

\* MH_ApplyQueued stops at the first function that it cannot write to.
CommitFails ==
    /\ pc = "add" /\ todo = {}
    /\ \E done \in SUBSET targets[cur] :
          done # targets[cur] /\ live' = live \cup done
    /\ UNCHANGED transactions
    /\ StartReset(cur, "next")
    /\ UNCHANGED <<heap, created, stuck, flags, gate, faulted, control>>

\* Reset, one function: the entry and the trampoline go with the detour.
Remove ==
    /\ pc = "reset" /\ initialized[cur]
    /\ \E t \in todo :
          /\ created' = created \ {t} /\ live' = live \ {t}
          /\ todo' = todo \ {t}
    /\ UNCHANGED <<heap, stuck, transactions, flags, gate, faulted, control,
                   pc, cur, goal>>

\* MH_RemoveHook cannot write to the function, and Reset does not ask.
RemoveFails ==
    /\ pc = "reset" /\ initialized[cur]
    /\ \E t \in todo \cap live : todo' = todo \ {t}
    /\ UNCHANGED <<minhook, transactions, flags, gate, faulted, control, pc, cur, goal>>

\* MH_Uninitialize removes what is left, and gives up all of MinHook, or nothing
\* but the detours that it could write.
Uninitialize ==
    /\ heap' = FALSE /\ created' = {} /\ live' = {} /\ stuck' = FALSE
UninitializeFails ==
    /\ \E left \in (SUBSET live) \ {{}} : live' = left
    /\ stuck' = TRUE /\ UNCHANGED <<heap, created>>

\* The end of Reset, for the last transaction and for another one.
ResetTransactionKeepingUser ==
    /\ initialized[cur]
    /\ UNCHANGED <<users, minhook>>
    /\ initialized' = [initialized EXCEPT ![cur] = FALSE]
    /\ targets' = [targets EXCEPT ![cur] = {}]
ResetTransaction ==
    /\ initialized[cur]
    /\ users' = users - 1
    /\ IF users' = 0 THEN Uninitialize \/ UninitializeFails ELSE UNCHANGED minhook
    /\ initialized' = [initialized EXCEPT ![cur] = FALSE]
    /\ targets' = [targets EXCEPT ![cur] = {}]
ResetNothing ==
    /\ ~initialized[cur]
    /\ targets' = [targets EXCEPT ![cur] = {}]
    /\ UNCHANGED <<minhook, users, initialized>>

-----------------------------------------------------------------------------
(* What follows a Reset.                                                   *)

\* The backend that Enable tries after one that failed: classic, if the record
\* has it.  Without one, both are disabled once more.
NextBackend ==
    IF cur = "xaml" /\ "classic" \in flags
    THEN StartReset("classic", "begin") ELSE StartReset("classic", "fault")

\* Also where the backend is on already, or there is nothing to reset.
EndReset ==
    /\ pc = "reset" /\ todo = {}
    /\ ResetTransaction \/ ResetNothing
    /\ \/ /\ goal = "begin"
          /\ pc' = "begin"
          /\ UNCHANGED <<cur, goal, todo, gate, faulted, control>>
       \/ /\ goal = "next" /\ NextBackend
          /\ UNCHANGED <<gate, faulted, control>>
       \/ /\ goal \in {"fault", "unload"} /\ cur = "classic"
          /\ StartReset("xaml", goal) /\ hookCount' = 0
          /\ UNCHANGED <<gate, faulted, payloadState, payloadError, activeBackend>>
       \/ /\ goal = "fault" /\ cur = "xaml"
          /\ pc' = "idle" /\ hookCount' = 0
          /\ gate' = FALSE /\ faulted' = TRUE
          /\ SetResult("Faulted", "HookCreateFailed")
          /\ UNCHANGED <<cur, goal, todo, activeBackend>>
       \/ /\ goal = "unload" /\ cur = "xaml"
          /\ pc' = "idle" /\ hookCount' = 0 /\ activeBackend' = "none"
          /\ SetResult("Unloading", "None")
          /\ UNCHANGED <<cur, goal, todo, gate, faulted>>
    /\ UNCHANGED flags

-----------------------------------------------------------------------------
(* ProcessCommand.                                                         *)

Initialize ==
    /\ pc = "idle" /\ payloadState \in {"None", "Unloading"}
    /\ \/ /\ \E f \in (SUBSET Backends) \ {{}} : flags' = f
          /\ SetResult("Disabled", "None")
       \/ flags' = {} /\ SetResult("Unsupported", "UnsupportedModules")
    /\ UNCHANGED <<minhook, transactions, gate, faulted, hookCount, activeBackend, place>>

\* An Enable that has forgotten the fault.
EnableAnyway ==
    /\ pc = "idle" /\ payloadState = "Disabled" /\ ~gate
    /\ UNCHANGED transactions
    /\ StartReset(IF "xaml" \in flags THEN "xaml" ELSE "classic", "begin")
    /\ UNCHANGED <<minhook, flags, gate, faulted, control>>

\* EnableXaml if the record has the flag, then EnableClassic.
Enable ==
    /\ pc = "idle" /\ payloadState = "Disabled" /\ ~faulted /\ ~gate
    /\ UNCHANGED transactions
    /\ StartReset(IF "xaml" \in flags THEN "xaml" ELSE "classic", "begin")
    /\ UNCHANGED <<minhook, flags, gate, faulted, control>>

EnableRefused ==
    /\ pc = "idle" /\ payloadState = "Disabled" /\ faulted
    /\ SetResult("Faulted", "InternalError")
    /\ UNCHANGED <<minhook, transactions, flags, gate, faulted, hookCount, activeBackend,
                   place>>

\* A callback that was let in may still fault while PrepareUnload waits for it.
PrepareUnload ==
    /\ pc = "idle" /\ payloadState # "None"
    /\ gate' = FALSE /\ (faulted' = faulted \/ (gate /\ faulted'= TRUE))
    /\ UNCHANGED transactions
    /\ StartReset("classic", "unload")
    /\ UNCHANGED <<minhook, flags, control>>

DrainTimesOutForgetting ==
    /\ pc = "idle" /\ payloadState # "None" /\ live # {}
    /\ gate' = FALSE /\ faulted' = TRUE
    /\ SetResult("Faulted", "CallbackDrainTimeout") /\ hookCount' = 0
    /\ UNCHANGED <<minhook, transactions, flags, activeBackend, place>>
DrainTimesOut ==
    /\ pc = "idle" /\ payloadState # "None" /\ live # {}
    /\ gate' = FALSE /\ faulted' = TRUE
    /\ SetResult("Faulted", "CallbackDrainTimeout")
    /\ UNCHANGED <<minhook, transactions, flags, hookCount, activeBackend, place>>

-----------------------------------------------------------------------------
(* Explorer.                                                               *)

\* MarkFault: a callback that was let in.
CallbackFaults ==
    /\ gate
    /\ gate' = FALSE /\ faulted' = TRUE
    /\ SetResult("Faulted", "InternalError")
    /\ UNCHANGED <<minhook, transactions, flags, hookCount, activeBackend, place>>

\* The DLL is freed after PrepareUnload, or Explorer ends and starts again.  A DLL
\* that is freed under a detour takes Explorer with it.
FreshDll ==
    /\ heap' = FALSE /\ created' = {} /\ live' = {} /\ stuck' = FALSE
    /\ users' = 0
    /\ initialized' = [b \in Backends |-> FALSE] /\ targets' = [b \in Backends |-> {}]
    /\ flags' = {} /\ gate' = FALSE /\ faulted' = FALSE
    /\ SetResult("None", "None") /\ hookCount' = 0 /\ activeBackend' = "none"
    /\ pc' = "idle" /\ cur' = "xaml" /\ goal' = "begin" /\ todo' = {}

Next ==
    \/ Initialize \/ Enable \/ EnableRefused \/ PrepareUnload \/ DrainTimesOut
    \/ Begin \/ BeginFails \/ Add \/ AddFails \/ Commit \/ CommitFails
    \/ Remove \/ RemoveFails \/ EndReset
    \/ CallbackFaults \/ FreshDll

Spec == Init /\ [][Next]_vars

\* What the commands show of it.
Answer == IF payloadState \in {"Active", "Faulted", "Unloading"} THEN payloadState ELSE "none"

Detours == INSTANCE DetourContract WITH patched <- (live # {}), answer <- Answer

-----------------------------------------------------------------------------
(* Properties.                                                             *)

TypeOK ==
    /\ heap \in BOOLEAN /\ stuck \in BOOLEAN /\ gate \in BOOLEAN /\ faulted \in BOOLEAN
    /\ created \subseteq Function /\ live \subseteq created
    /\ users \in 0..1 /\ initialized \in [Backends -> BOOLEAN]
    /\ targets \in [Backends -> SUBSET Function]
    /\ flags \subseteq Backends
    /\ payloadState \in PayloadStates /\ payloadError \in PayloadErrors
    /\ hookCount \in Nat /\ activeBackend \in Backends \cup {"none"}
    /\ pc \in {"idle", "reset", "begin", "add"} /\ cur \in Backends /\ goal \in Goals
    /\ todo \subseteq Function

\* Once PrepareUnload has reported Unloading, upon which the host lets the DLL go,
\* or Enable has failed, no function of Explorer jumps into the DLL, no entry and
\* no heap are left: a detour that MH_RemoveHook left in place has been removed by
\* the MH_Uninitialize of the last transaction, unless that failed as well.
NothingLeft ==
    (pc = "idle" /\ (payloadState = "Unloading" \/ payloadError = "HookCreateFailed")
        /\ ~stuck)
    => live = {} /\ created = {} /\ ~heap

\* While the gate is open, one backend is in place, the one that the host is told,
\* with all of its functions, and nothing of the other one: what is left of a
\* backend that failed (EnableXaml before EnableClassic) can only be what MinHook
\* failed to remove, twice.
ActiveIsComplete ==
    gate => /\ activeBackend \in flags /\ Wanted[activeBackend] \subseteq live
            /\ live # Wanted[activeBackend] => stuck

\* Between commands the number of hooks in the session control, which diagnostics
\* and qualification compare (docs/MANUAL-QUALIFICATION.md:56), is that of the
\* functions that are patched: after a fault and after a drain that timed out too.
HookCountTrue == (pc = "idle" /\ ~stuck) => hookCount = Cardinality(live)

\* However MinHook's calls end, and whichever backend is tried after which, the
\* payload keeps the contract: functions are patched or restored only behind the
\* closed gate, none is patched and the gate is not opened after a fault, which the
\* statics of the DLL remember over further sessions, and the host is told
\* Unloading only when nothing is patched or MH_Uninitialize has failed.
Contract == Detours!Spec
=============================================================================
