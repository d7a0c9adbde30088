---------------------------- MODULE HookSession ----------------------------
(***************************************************************************)
(* One tray host, the Explorer process it attaches to, and the payload DLL *)
(* it puts there: the loader's Attach / CommandAndWait / Detach            *)
(* (host/hook_loader.cpp) as driven by App (host/app.cpp), the shared      *)
(* control block (include/ttr_protocol.h), the payload's ProcessCommand    *)
(* (payload/payload_state.cpp), the callbacks that run in the detours it   *)
(* installs (payload/xaml_backend.cpp), and the life of the DLL.           *)
(*                                                                         *)
(* Covered: every interleaving of the three, a command that times out on   *)
(* the host and is executed later, an Enable whose first or second backend *)
(* fails with detours in place, structured exceptions, Explorer exiting    *)
(* and restarting at any point, payload statics that outlive a session,    *)
(* and the store buffer of the processor that runs PrepareUnload.          *)
(*                                                                         *)
(* Not covered: which detours a backend has and what its callbacks compute *)
(* (other modules); a MH_RemoveHook that fails; MinHook's trampolines,     *)
(* which a removal frees also under threads that are counted but not in    *)
(* custom logic, or not counted yet; the callbacks of the classic backend, *)
(* whose DisableClassic can re-enter ProcessCommand by ReleaseCapture; more*)
(* than one detour nested on a thread, folded into the outermost one; the  *)
(* reuse of a process id; the 32-bit wrap of the command sequence; App's   *)
(* session shutdown, its timers, the further Detach of TaskbarCreated, and *)
(* a removal in About whose helper fails, which goes on as before a Detach.*)
(***************************************************************************)
EXTENDS Naturals, FiniteSets

CONSTANTS
    Taskbar,       \* the thread that owns Shell_TrayWnd: hooked, runs commands
    OtherThreads,  \* further Explorer threads that reach a patched function
    MaxSeq         \* bound: commands the host issues in one session

ASSUME ThreadAssumption == Taskbar \notin OtherThreads /\ IsFiniteSet(OtherThreads)
ASSUME MaxSeqAssumption == MaxSeq \in Nat

Threads == {Taskbar} \cup OtherThreads

VARIABLES
    \* The host: App::state_, and the call of App or HookLoader in progress.
    status,        \* HostState shown in the tray
    hpc,           \* where the host thread is
    goal,          \* which call of Detach or CommandAndWait this is
    result,        \* what that call returned (at hpc = "return")
    validated,     \* the Explorer that FindAndValidateExplorer saw still runs
    \* The shared mapping, TtrSessionControlV1.
    commandSequence, acknowledgedSequence, command, payloadState,
    \* What Windows keeps.
    alive,         \* an Explorer process runs
    hooked,        \* the host's hook_ is a WH_CALLWNDPROC hook
    stale,         \* hook_ belongs to an Explorer that has exited
    loaded,        \* TTRHook64.dll is mapped in the running Explorer
    liveUnload,    \* history: the DLL was unmapped under a thread inside it
    \* Statics of the DLL.
    lastCommand, enabled, faulted,
    patched,       \* the MinHook detours are installed
    buffered,      \* enabled := false waits in the taskbar thread's buffer
    \* ProcessCommand on the taskbar thread: program counter and locals.
    pc, curSequence, curCommand,
    \* Where each thread is in a detour.
    stage

hostVars    == <<status, hpc, goal, result, validated>>
blockVars   == <<commandSequence, acknowledgedSequence, command, payloadState>>
osVars      == <<alive, hooked, stale, loaded, liveUnload>>
staticVars  == <<lastCommand, enabled, faulted, patched, buffered>>
frameVars   == <<pc, curSequence, curCommand>>
vars == <<hostVars, blockVars, osVars, staticVars, frameVars, stage>>

Statuses == {"Disabled", "ValidatingCompatibility", "Attaching", "Active",
             "Unsupported", "ExplorerUnavailable", "Faulted"}
HostPCs  == {"idle", "detach", "write", "bump", "wait", "unhook", "return", "open"}

\* The goals whose call is HookLoader::Detach; the others are CommandAndWait.
DetachGoals  == {"preDetach", "attachDetach", "initDetach", "failDetach",
                 "enableDetach", "off", "lost"}
CommandGoals == {"init", "enable"}
Goals        == DetachGoals \cup CommandGoals

Commands      == {"None", "Initialize", "Enable", "PrepareUnload"}
PayloadStates == {"Unloaded", "Disabled", "Active", "Unsupported", "Faulted",
                  "Unloading"}
FramePCs == {"none", "read", "resolve", "enable", "rollback", "fallback", "undo",
             "publish", "gate", "drain", "remove", "ack"}
Stages   == {"out", "entered", "counted", "gated", "passing", "leaving", "dpa"}

CommandOf(g) == IF g \in DetachGoals THEN "PrepareUnload"
                ELSE IF g = "init" THEN "Initialize" ELSE "Enable"

\* CallbackScope: a thread counts from the constructor to the destructor.
Counted(t)      == stage[t] \in {"counted", "gated", "passing"}
activeCallbacks == Cardinality({t \in Threads : Counted(t)})

FlagsOK ==
    /\ result \in BOOLEAN /\ validated \in BOOLEAN
    /\ alive \in BOOLEAN /\ hooked \in BOOLEAN /\ stale \in BOOLEAN
    /\ loaded \in BOOLEAN /\ liveUnload \in BOOLEAN
    /\ enabled \in BOOLEAN /\ faulted \in BOOLEAN
    /\ patched \in BOOLEAN /\ buffered \in BOOLEAN

DataOK ==
    /\ status \in Statuses /\ hpc \in HostPCs /\ goal \in Goals
    /\ commandSequence \in Nat /\ acknowledgedSequence \in Nat
    /\ command \in Commands /\ payloadState \in PayloadStates
    /\ lastCommand \in Nat
    /\ pc \in FramePCs /\ curSequence \in Nat /\ curCommand \in Commands
    /\ stage \in [Threads -> Stages]

TypeOK == FlagsOK /\ DataOK

Init ==
    /\ status = "Disabled" /\ hpc = "idle" /\ goal = "off"
    /\ result = TRUE /\ validated = FALSE
    /\ commandSequence = 0 /\ acknowledgedSequence = 0
    /\ command = "None" /\ payloadState = "Unloaded"
    /\ alive = TRUE /\ hooked = FALSE /\ stale = FALSE
    /\ loaded = FALSE /\ liveUnload = FALSE
    /\ lastCommand = 0 /\ enabled = FALSE /\ faulted = FALSE
    /\ patched = FALSE /\ buffered = FALSE
    /\ pc = "none" /\ curSequence = 0 /\ curCommand = "None"
    /\ stage = [t \in Threads |-> "out"]

-----------------------------------------------------------------------------
(* The host: one message handler of App at a time.                         *)

\* The handler starts the call `g`.
Call(g) == goal' = g /\ hpc' = IF g \in DetachGoals THEN "detach" ELSE "write"

\* The handler ends and shows `s`.
Finish(s) == hpc' = "idle" /\ status' = s /\ UNCHANGED goal

\* Everything but the host's own state is as it was.
HostOnly == UNCHANGED <<blockVars, osVars, staticVars, frameVars, stage>>

\* What is shown without an Explorer: Faulted when the retries are used up or
\* Explorer has restarted too often.
Unavailable == {"ExplorerUnavailable", "Faulted"}

\* Room for n commands in the current session (Open starts a fresh one).
RoomFor(n) == hooked => commandSequence + n <= MaxSeq

\* AttachIfPossible: ToggleEnabled, the retry timer, TaskbarCreated, a reloaded
\* manifest. Up to three PrepareUnload commands go to the current session.
BeginAttach ==
    /\ hpc = "idle" /\ RoomFor(3)
    /\ Call("preDetach") /\ status' = "ValidatingCompatibility"
    /\ UNCHANGED <<result, validated>> /\ HostOnly

\* ToggleEnabled switching off; IdExit, --replace-current.
BeginOff ==
    /\ hpc = "idle" /\ RoomFor(1)
    /\ Call("off")
    /\ UNCHANGED <<status, result, validated>> /\ HostOnly

\* WM_APP + 2: the wait on the Explorer process has fired.
BeginExplorerExited ==
    /\ hpc = "idle" /\ (stale \/ ~alive) /\ RoomFor(1)
    /\ Call("lost")
    /\ UNCHANGED <<status, result, validated>> /\ HostOnly

\* AttachIfPossible goes on after its first Detach, whatever that returned.
AfterPreDetach ==
    /\ hpc = "return" /\ goal = "preDetach"
    /\ \/ UNCHANGED validated /\ \E s \in Unavailable : Finish(s)
       \/ alive /\ Finish("Unsupported") /\ UNCHANGED validated
       \/ /\ alive
          /\ Call("attachDetach") /\ status' = "Attaching" /\ validated' = TRUE
    /\ UNCHANGED result /\ HostOnly

\* Attach detaches once more and refuses to go on if that fails.
AfterAttachDetach ==
    /\ hpc = "return" /\ goal = "attachDetach"
    /\ IF result THEN hpc' = "open" /\ UNCHANGED goal ELSE Call("failDetach")
    /\ UNCHANGED <<status, result, validated>> /\ HostOnly

\* Attach fails before SetWindowsHookExW has succeeded: no payload, no mapping,
\* the validated Explorer gone. Its own Detach finds no hook; App's follows.
OpenFails ==
    /\ hpc = "open" /\ Call("failDetach")
    /\ UNCHANGED <<status, result, validated>> /\ HostOnly

\* The mapping is created (or, where the payload still holds it open, found),
\* zeroed and filled in, and the hook installed on the taskbar thread.
Open ==
    /\ hpc = "open" /\ validated
    /\ commandSequence' = 0 /\ acknowledgedSequence' = 0
    /\ command' = "None" /\ payloadState' = "Unloaded"
    /\ hooked' = TRUE
    /\ Call("init")
    /\ UNCHANGED <<status, result, validated, alive, stale, loaded, liveUnload,
                   staticVars, frameVars, stage>>

AfterInit ==
    /\ hpc = "return" /\ goal = "init"
    /\ Call(IF result THEN "enable" ELSE "initDetach")
    /\ UNCHANGED <<status, result, validated>> /\ HostOnly

\* Attach has detached; AttachIfPossible detaches again.
AfterInitDetach ==
    /\ hpc = "return" /\ goal = "initDetach"
    /\ Call("failDetach")
    /\ UNCHANGED <<status, result, validated>> /\ HostOnly

AfterEnable ==
    /\ hpc = "return" /\ goal = "enable"
    /\ IF result THEN Finish("Active") ELSE Call("enableDetach") /\ UNCHANGED status
    /\ UNCHANGED <<result, validated>> /\ HostOnly

\* The end of the handlers that show a status after their last Detach.
AfterLastDetach ==
    /\ hpc = "return"
    /\ \/ goal \in {"failDetach", "enableDetach"} /\ Finish("Faulted")
       \/ goal = "off" /\ Finish(IF result THEN "Disabled" ELSE "Faulted")
       \/ goal = "lost" /\ \E s \in Unavailable : Finish(s)
    /\ UNCHANGED <<result, validated>> /\ HostOnly

(* HookLoader::Detach and HookLoader::CommandAndWait.                      *)

\* Without a session there is nothing to detach.
Detach ==
    /\ hpc = "detach"
    /\ IF hooked THEN hpc' = "write" /\ UNCHANGED result
                 ELSE hpc' = "return" /\ result' = TRUE
    /\ UNCHANGED <<status, goal, validated>> /\ HostOnly

WriteCommand ==
    /\ hpc = "write" /\ hpc' = "bump"
    /\ command' = CommandOf(goal)
    /\ UNCHANGED <<status, goal, result, validated, commandSequence,
                   acknowledgedSequence, payloadState>>
    /\ UNCHANGED <<osVars, staticVars, frameVars, stage>>

BumpSequence ==
    /\ hpc = "bump" /\ hpc' = "wait"
    /\ commandSequence' = commandSequence + 1
    /\ UNCHANGED <<status, goal, result, validated, acknowledgedSequence,
                   command, payloadState>>
    /\ UNCHANGED <<osVars, staticVars, frameVars, stage>>

\* Variant: Detach goes on to unhook although PrepareUnload failed.
CommandReturnsUnchecked(ok) ==
    /\ IF goal \in DetachGoals
         THEN hpc' = "unhook" /\ UNCHANGED result
         ELSE hpc' = "return" /\ result' = ok
    /\ UNCHANGED <<status, goal, validated>> /\ HostOnly

\* CommandAndWait returns ok. A Detach whose PrepareUnload failed stops there
\* while the Explorer it is attached to is alive.
CommandReturns(ok) ==
    /\ IF goal \in DetachGoals /\ (ok \/ stale)
         THEN hpc' = "unhook" /\ UNCHANGED result
         ELSE hpc' = "return" /\ result' = ok
    /\ UNCHANGED <<status, goal, validated>> /\ HostOnly

\* Variant: the acknowledgement of the command before is good enough.
AcknowledgedEarly ==
    /\ hpc = "wait" /\ acknowledgedSequence + 1 >= commandSequence
    /\ CommandReturns(payloadState \notin {"Faulted", "Unsupported"})

Acknowledged ==
    /\ hpc = "wait" /\ acknowledgedSequence >= commandSequence
    /\ CommandReturns(payloadState \notin {"Faulted", "Unsupported"})

\* Variant: the host gives up only on an Explorer that is gone.
TimesOutIfGone == hpc = "wait" /\ stale /\ CommandReturns(FALSE)

\* SendMessageTimeoutW fails, or no acknowledgement comes in time: at any point,
\* even when the command is still to be executed.
TimesOut == hpc = "wait" /\ CommandReturns(FALSE)

Unhook ==
    /\ hpc = "unhook" /\ hpc' = "return"
    /\ \/ result' = TRUE /\ hooked' = FALSE /\ stale' = FALSE
       \/ result' = FALSE /\ UNCHANGED <<hooked, stale>>
    /\ UNCHANGED <<status, goal, validated, alive, loaded, liveUnload>>
    /\ UNCHANGED <<blockVars, staticVars, frameVars, stage>>

-----------------------------------------------------------------------------
(* The payload: ProcessCommand on the taskbar thread, under the hook       *)
(* procedure, also from inside a callback that makes Explorer send itself  *)
(* a message.                                                              *)

ControlUnchanged == UNCHANGED <<commandSequence, acknowledgedSequence, command>>

\* SetResult.
SetResult(s) == payloadState' = s /\ ControlUnchanged

\* MarkFault; its sequentially consistent stores drain the store buffer.
MarkFault ==
    /\ enabled' = FALSE /\ faulted' = TRUE /\ buffered' = FALSE
    /\ SetResult("Faulted")

CanRunHook == stage[Taskbar] \in {"out", "gated", "passing"}

\* ProcessCommand is off the stack.
FrameEnds == pc' = "none" /\ curSequence' = 0 /\ curCommand' = "None"

\* The hook procedure sees a sequence it has not seen.
PickCommand ==
    /\ loaded /\ hooked /\ pc = "none" /\ CanRunHook
    /\ commandSequence # lastCommand
    /\ lastCommand' = commandSequence /\ curSequence' = commandSequence
    /\ pc' = "read"
    /\ UNCHANGED <<curCommand, enabled, faulted, patched, buffered>>
    /\ UNCHANGED <<hostVars, blockVars, osVars, stage>>

ReadCommand ==
    /\ pc = "read"
    /\ curCommand' = command
    /\ \/ command = "Initialize"    /\ pc' = "resolve"
       \/ command = "Enable"        /\ pc' = "enable"
       \/ command = "PrepareUnload" /\ pc' = "gate"
       \/ command = "None"          /\ pc' = "ack"
    /\ UNCHANGED curSequence
    /\ UNCHANGED <<hostVars, blockVars, osVars, staticVars, stage>>

\* Initialize: ResolveCompatibility accepts the record or it does not. (The state
\* Initializing shown meanwhile is read by nobody before the acknowledgement.)
Resolve ==
    /\ pc = "resolve" /\ pc' = "ack"
    /\ \E s \in {"Disabled", "Unsupported"} : SetResult(s)
    /\ UNCHANGED <<curSequence, curCommand, hostVars, osVars, staticVars, stage>>

\* Variant: Enable does not look at `faulted`.
EnableBackendAnyway ==
    /\ pc = "enable" /\ ~enabled
    /\ patched' = TRUE /\ pc' = "publish"
    /\ UNCHANGED <<blockVars, lastCommand, enabled, faulted, buffered>>
    /\ UNCHANGED <<curSequence, curCommand, hostVars, osVars, stage>>

\* Detours come: all of them, or some until HookTransaction::Commit fails.
Installs(failed) ==
    /\ patched' = TRUE /\ pc' \in {"publish", failed}
    /\ UNCHANGED <<blockVars, lastCommand, enabled, faulted, buffered>>

\* Or no backend is left to try: DisableClassic, DisableXaml, MarkFault.
NoBackend ==
    /\ patched' = FALSE /\ MarkFault /\ pc' = "ack"
    /\ UNCHANGED lastCommand

\* Enable: refused after a fault, a no-op when enabled; otherwise one of the
\* backends installs its detours.  The gate is closed meanwhile.
EnableBackend ==
    /\ pc = "enable"
    /\ \/ /\ faulted /\ SetResult("Faulted") /\ pc' = "ack"
          /\ UNCHANGED staticVars
       \/ /\ ~faulted /\ enabled /\ SetResult("Active") /\ pc' = "ack"
          /\ UNCHANGED staticVars
       \/ /\ ~faulted /\ ~enabled /\ (Installs("rollback") \/ NoBackend)
    /\ UNCHANGED <<curSequence, curCommand, hostVars, osVars, stage>>

\* HookTransaction::Reset after EnableXaml's failed Commit, without a drain; then
\* the classic backend, if the record has it and it gets as far as its Commit.
RollBack ==
    /\ pc = "rollback"
    /\ \/ /\ patched' = FALSE /\ pc' = "fallback"
          /\ UNCHANGED <<blockVars, lastCommand, enabled, faulted, buffered>>
       \/ NoBackend
    /\ UNCHANGED <<curSequence, curCommand, hostVars, osVars, stage>>

FallBack ==
    /\ pc = "fallback" /\ Installs("undo")
    /\ UNCHANGED <<curSequence, curCommand, hostVars, osVars, stage>>

\* The Reset after EnableClassic's failed Commit, and no third backend.
Undo ==
    /\ pc = "undo" /\ NoBackend
    /\ UNCHANGED <<curSequence, curCommand, hostVars, osVars, stage>>

\* enabled.store(true), then Active.
PublishEnabled ==
    /\ pc = "publish" /\ pc' = "ack"
    /\ enabled' = TRUE /\ SetResult("Active")
    /\ UNCHANGED <<curSequence, curCommand, lastCommand, faulted, patched, buffered>>
    /\ UNCHANGED <<hostVars, osVars, stage>>

\* Variant: the drain starts with the gate open.
CloseGateNot ==
    /\ pc = "gate" /\ pc' = "drain"
    /\ UNCHANGED <<curSequence, curCommand, staticVars>>
    /\ UNCHANGED <<hostVars, blockVars, osVars, stage>>

\* PrepareUnload: enabled.store(false, release).
CloseGate ==
    /\ pc = "gate" /\ pc' = "drain"
    /\ enabled' = FALSE
    /\ UNCHANGED <<curSequence, curCommand, lastCommand, faulted, patched, buffered>>
    /\ UNCHANGED <<hostVars, blockVars, osVars, stage>>

\* The same store, if it stays in the buffer until the next interlocked instruction
\* of this thread or until the buffer drains; only in DelayedSpec.
CloseGateLater ==
    /\ pc = "gate" /\ pc' = "drain"
    /\ enabled /\ buffered' = TRUE
    /\ UNCHANGED <<curSequence, curCommand, lastCommand, enabled, faulted, patched>>
    /\ UNCHANGED <<hostVars, blockVars, osVars, stage>>

StoreDrains ==
    /\ buffered /\ buffered' = FALSE /\ enabled' = FALSE
    /\ UNCHANGED <<lastCommand, faulted, patched>>
    /\ UNCHANGED <<hostVars, blockVars, osVars, frameVars, stage>>

\* Variant: the drain waits for the other threads only, as if a callback on whose
\* stack ProcessCommand itself runs did not matter.
DrainedOthers ==
    /\ pc = "drain" /\ pc' = "remove"
    /\ \A t \in OtherThreads : ~Counted(t)
    /\ UNCHANGED <<curSequence, curCommand, hostVars, blockVars, osVars,
                   staticVars, stage>>

\* The last read of activeCallbacks decides. The 200 ms may be over at any time.
Drained ==
    /\ pc = "drain" /\ activeCallbacks = 0 /\ pc' = "remove"
    /\ UNCHANGED <<curSequence, curCommand, hostVars, blockVars, osVars,
                   staticVars, stage>>

\* Variant: the drain has no time limit.
DrainTimesOutNever == pc = "drain" /\ activeCallbacks # 0 /\ UNCHANGED vars

DrainTimesOut ==
    /\ pc = "drain" /\ activeCallbacks # 0 /\ pc' = "ack"
    /\ MarkFault
    /\ UNCHANGED <<curSequence, curCommand, lastCommand, patched>>
    /\ UNCHANGED <<hostVars, osVars, stage>>

\* DisableXaml; MinHook's spin lock drains the store buffer first.
RemoveHooks ==
    /\ pc = "remove" /\ pc' = "ack"
    /\ patched' = FALSE /\ SetResult("Unloading")
    /\ buffered' = FALSE /\ enabled' = (enabled /\ ~buffered)
    /\ UNCHANGED <<curSequence, curCommand, lastCommand, faulted>>
    /\ UNCHANGED <<hostVars, osVars, stage>>

\* Variant: acknowledges what the control block says now, not what was executed.
AcknowledgeLatest ==
    /\ pc = "ack" /\ FrameEnds
    /\ acknowledgedSequence' = commandSequence
    /\ UNCHANGED <<commandSequence, command, payloadState>>
    /\ UNCHANGED <<hostVars, osVars, staticVars, stage>>

Acknowledge ==
    /\ pc = "ack" /\ FrameEnds
    /\ acknowledgedSequence' = curSequence
    /\ UNCHANGED <<commandSequence, command, payloadState>>
    /\ UNCHANGED <<hostVars, osVars, staticVars, stage>>

\* A structured exception where foreign memory is touched unwinds ProcessCommand:
\* faulted, no acknowledgement, and detours that were being installed or removed
\* are in either state.
CommandFaults ==
    /\ \/ pc = "resolve" /\ UNCHANGED patched
       \/ pc = "enable" /\ ~faulted /\ ~enabled /\ patched' \in {patched, TRUE}
       \/ pc = "fallback" /\ patched' \in {patched, TRUE}
       \/ pc \in {"rollback", "undo"} /\ patched' \in {patched, FALSE}
       \/ pc = "remove"  /\ patched' \in {patched, FALSE}
    /\ FrameEnds /\ MarkFault
    /\ UNCHANGED lastCommand
    /\ UNCHANGED <<hostVars, osVars, stage>>

-----------------------------------------------------------------------------
(* The callbacks: a thread inside a detour.                                *)

\* The thread is not suspended under ProcessCommand.
Runs(t) == t = Taskbar => pc = "none"

Move(t, from, to) ==
    /\ Runs(t) /\ stage[t] \in from /\ stage' = [stage EXCEPT ![t] = to]
    /\ UNCHANGED <<hostVars, osVars, frameVars, lastCommand, patched>>

\* A patched function is called. DpaHook has no CallbackScope.
Enter(t)    == patched /\ Move(t, {"out"}, "entered")
               /\ UNCHANGED <<blockVars, enabled, faulted, buffered>>
EnterDpa(t) == patched /\ Move(t, {"out"}, "dpa")
               /\ UNCHANGED <<blockVars, enabled, faulted, buffered>>
CountIn(t)  == Move(t, {"entered"}, "counted")
               /\ UNCHANGED <<blockVars, enabled, faulted, buffered>>

\* `if (GetState().enabled)`: first (FilterHook), or after the original (the
\* constructors).
CheckGate(t) == enabled /\ Move(t, {"counted", "passing"}, "gated")
                /\ UNCHANGED <<blockVars, enabled, faulted, buffered>>
CallOriginal(t) == Move(t, {"counted", "gated"}, "passing")
                /\ UNCHANGED <<blockVars, enabled, faulted, buffered>>
CountOut(t) == Move(t, {"counted", "gated", "passing"}, "leaving")
               /\ UNCHANGED <<blockVars, enabled, faulted, buffered>>
Leave(t)    == Move(t, {"leaving", "dpa"}, "out")
               /\ UNCHANGED <<blockVars, enabled, faulted, buffered>>

\* PointerGuard: the custom logic faults, the original still runs.
CallbackFaults == Move(Taskbar, {"gated"}, "passing") /\ MarkFault

Callback(t) ==
    \/ Enter(t) \/ EnterDpa(t) \/ CountIn(t) \/ CheckGate(t) \/ CallOriginal(t)
    \/ CountOut(t) \/ Leave(t)

-----------------------------------------------------------------------------
(* Windows: loading and unloading the DLL, Explorer exiting and starting.  *)

FreshStatics ==
    /\ lastCommand' = 0 /\ enabled' = FALSE /\ faulted' = FALSE
    /\ patched' = FALSE /\ buffered' = FALSE

\* The first message to the hooked thread maps the DLL.
LoadDll ==
    /\ alive /\ hooked /\ ~stale /\ ~loaded /\ loaded' = TRUE
    /\ FreshStatics
    /\ UNCHANGED <<alive, hooked, stale, liveUnload>>
    /\ UNCHANGED <<hostVars, blockVars, frameVars, stage>>

ProcessGone ==
    /\ alive' = FALSE /\ loaded' = FALSE /\ stale' = (stale \/ hooked)
    /\ validated' = FALSE
    /\ FreshStatics
    /\ FrameEnds /\ stage' = [t \in Threads |-> "out"]
    /\ UNCHANGED <<status, hpc, goal, result, blockVars, hooked>>

\* Once unhooked, Windows unmaps the DLL whenever it likes. A thread that still
\* executes it, or a detour that still leads to it, takes Explorer down.
UnloadDll ==
    /\ loaded /\ ~hooked /\ pc = "none"
    /\ IF patched \/ \E t \in Threads : stage[t] # "out"
         THEN liveUnload' = TRUE /\ ProcessGone
         ELSE /\ loaded' = FALSE /\ FreshStatics
              /\ UNCHANGED <<alive, hooked, stale, liveUnload, stage>>
              /\ UNCHANGED <<hostVars, blockVars, frameVars>>

ExplorerExits == alive /\ ProcessGone /\ UNCHANGED liveUnload

ExplorerStarts ==
    /\ ~alive /\ alive' = TRUE
    /\ UNCHANGED <<hooked, stale, loaded, liveUnload>>
    /\ UNCHANGED <<hostVars, blockVars, staticVars, frameVars, stage>>

-----------------------------------------------------------------------------
HostStep ==
    \/ AfterPreDetach \/ AfterAttachDetach \/ OpenFails \/ Open \/ AfterInit
    \/ AfterInitDetach \/ AfterEnable \/ AfterLastDetach
    \/ Detach \/ WriteCommand \/ BumpSequence \/ Acknowledged \/ TimesOut \/ Unhook

PayloadStep ==
    \/ ReadCommand \/ Resolve \/ EnableBackend \/ RollBack \/ FallBack \/ Undo
    \/ PublishEnabled \/ CloseGate
    \/ Drained \/ DrainTimesOut \/ RemoveHooks \/ Acknowledge

Next ==
    \/ BeginAttach \/ BeginOff \/ BeginExplorerExited \/ HostStep
    \/ PickCommand \/ PayloadStep \/ CommandFaults
    \/ CallbackFaults \/ \E t \in Threads : Callback(t)
    \/ LoadDll \/ UnloadDll \/ ExplorerExits \/ ExplorerStarts

Spec == Init /\ [][Next]_vars

\* The same on x64, where a store may be delayed past later loads.
DelayedNext == Next \/ CloseGateLater \/ StoreDrains
DelayedSpec == Init /\ [][DelayedNext]_vars

\* Both threads are scheduled: a handler and a command in progress go on. No
\* callback is assumed ever to return, no message ever to arrive, and the user
\* need never act.
FairSpec == Spec /\ WF_vars(HostStep) /\ WF_vars(PayloadStep)

\* What the answers say of the detours.
Answer ==
    IF payloadState \in {"Active", "Faulted", "Unloading"} THEN payloadState ELSE "none"

Detours == INSTANCE DetourContract WITH gate <- enabled, answer <- Answer, stuck <- FALSE

-----------------------------------------------------------------------------
(* Properties.                                                             *)

\* Explorer's code is patched only while the host's hook keeps the DLL mapped:
\* Detach never takes the hook away from under installed detours, however late
\* or in whatever order the payload executes what it was sent.
HooksKeepDll == patched => alive /\ hooked /\ ~stale /\ loaded

\* When PrepareUnload removes the detours no thread is in custom logic: a thread
\* the drain did not count finds the gate closed.
RemovalQuiesced == pc = "remove" => \A t \in Threads : stage[t] # "gated"

\* Custom logic runs over installed detours in a loaded DLL: whichever removal or
\* failed Enable takes the detours away, nobody is between them and the original
\* that the custom logic is to call next, not even the callback on whose stack the
\* command itself is executed.
CustomLogicKept ==
    \A t \in Threads : stage[t] = "gated" => patched /\ loaded /\ hooked /\ ~stale

\* Whatever the host, Explorer and the callbacks do meanwhile, the payload keeps the
\* contract that each backend keeps by itself (HookTransaction): detours change only
\* behind the closed gate, and neither they nor the gate come back after a fault
\* before the DLL is loaded afresh, over any number of sessions.
Contract == Detours!Spec

\* A host that shows Active and is at rest has detours installed in the Explorer
\* it is attached to, unless that Explorer has just exited: an acknowledgement
\* of an older or an unfinished command is never taken for that of Enable.
ActiveMeansHooked ==
    status = "Active" /\ hpc = "idle" /\ ~stale => hooked /\ patched

\* After a fault no custom behaviour until the DLL has been unloaded, over any
\* number of further sessions.
FaultContained == faulted => ~enabled

\* An Initialize or Enable the host waits for is not mistaken for one already
\* processed, though lastCommand outlives the session that set it. (PrepareUnload
\* can be: a session whose Initialize Explorer never looked at may detach with the
\* very sequence the previous session ended on; the next Detach gets through.)
FreshCommandSeen ==
    hpc = "wait" /\ ~stale /\ loaded /\ lastCommand = commandSequence
            /\ command # "PrepareUnload"
        => \/ acknowledgedSequence = commandSequence
           \/ pc # "none" /\ curSequence = commandSequence
           \/ faulted

\* ProcessCommand always comes to its end, also when it is nested in a callback
\* of its own thread, for which the drain would wait forever.
CommandTerminates == pc # "none" ~> pc = "none"

\* Every handler of the host comes to its end, whatever Explorer does.
HostReturns == hpc # "idle" ~> hpc = "idle"

\* No thread executes the DLL when it is unmapped, as the plan's risk table
\* (build plan, line 1686) has it. Does not hold: DpaHook is not counted, and a
\* thread is inside a detour before it counts and after it has stopped counting.
NoLiveUnload == ~liveUnload

-----------------------------------------------------------------------------
(* Why handlers and commands end: each step of theirs lowers a rank, and   *)
(* nothing else raises it.                                                 *)

\* Which calls a handler of the host may still make, the longest chain first.
GoalRank ==
    CASE goal = "preDetach" -> 4 [] goal = "attachDetach" -> 3 [] goal = "init" -> 2
      [] goal \in {"enable", "initDetach"} -> 1 [] OTHER -> 0

\* What is left of the call it is in.
CallRank ==
    CASE hpc = "detach" -> 7 [] hpc = "write" -> 6 [] hpc = "bump" -> 5
      [] hpc = "wait" -> 4 [] hpc = "unhook" -> 3 [] hpc = "return" -> 2 [] OTHER -> 1

HostRank == IF hpc = "idle" THEN 0 ELSE 8 * GoalRank + CallRank

\* What is left of ProcessCommand.
CommandRank ==
    CASE pc = "none" -> 0 [] pc = "ack" -> 1 [] pc \in {"publish", "remove"} -> 2
      [] pc \in {"undo", "drain"} -> 3 [] pc \in {"fallback", "gate"} -> 4
      [] pc = "rollback" -> 5 [] pc \in {"enable", "resolve"} -> 6 [] OTHER -> 7

\* AttachIfPossible makes no call twice and never starts over: a handler that has
\* begun comes nearer to its end with each step, and no step of the payload,
\* Explorer or Windows sets it back.
HandlerShrinks ==
    [][IF HostStep THEN HostRank' < HostRank
       ELSE hpc # "idle" => UNCHANGED <<hpc, goal>>]_vars

\* The same for ProcessCommand, which only its own steps move and an exception or
\* the end of Explorer cut short.
CommandShrinks ==
    [][IF PayloadStep THEN CommandRank' < CommandRank
       ELSE pc # "none" => pc' \in {pc, "none"}]_vars

-----------------------------------------------------------------------------
(* The inductive invariant behind the properties, in named parts.          *)

\* What the host's control point says about its session.
HostInv ==
    /\ hpc \in {"write", "bump", "wait", "unhook"} => hooked
    /\ hpc = "return" /\ goal \in CommandGoals => hooked
    /\ hpc = "open" => ~hooked /\ goal = "attachDetach"
    /\ hpc = "return" /\ goal = "attachDetach" /\ result => ~hooked
    /\ hpc \in {"detach", "unhook"} => goal \in DetachGoals
    /\ hpc \in {"bump", "wait"} => command = CommandOf(goal)
    /\ hpc = "wait" => commandSequence > 0

\* What is loaded where.
DllInv ==
    /\ stale => hooked /\ ~loaded
    /\ loaded => alive
    /\ validated => alive
    /\ ~alive /\ hooked => stale
    /\ patched => hooked /\ loaded

\* A backend has failed after some of its detours were in place.
Attempting == {"rollback", "fallback", "undo"}

\* ProcessCommand on the stack, its locals and the block.
FrameInv ==
    /\ acknowledgedSequence <= commandSequence
    /\ pc # "none" => /\ loaded /\ hooked
                     /\ curSequence = lastCommand
                     /\ curSequence <= commandSequence
    /\ pc = "resolve" => curCommand = "Initialize"
    /\ pc \in {"enable", "publish"} \cup Attempting => curCommand = "Enable"
    /\ pc \in {"gate", "drain", "remove"} => curCommand = "PrepareUnload"
    /\ hpc = "wait" /\ pc \notin {"none", "read"} /\ curSequence = commandSequence
         => curCommand = command

\* The gate, the fault flag and the detours.
GateInv ==
    /\ faulted => ~enabled
    /\ enabled => patched
    /\ buffered => pc \in {"drain", "remove"}
    /\ pc \in {"drain", "remove"} /\ enabled => buffered
    /\ pc = "publish" => patched /\ ~faulted
    /\ pc \in Attempting => ~enabled /\ ~faulted

\* The payload has dealt with everything the host has sent.
CaughtUp == loaded /\ hooked /\ lastCommand = commandSequence /\ pc = "none"

AllAcknowledged == commandSequence > 0 /\ acknowledgedSequence = commandSequence

\* What an acknowledged command has done.
ResultInv ==
    /\ pc = "ack" /\ curCommand = "PrepareUnload" /\ patched
         => payloadState = "Faulted"
    /\ pc = "ack" /\ curCommand = "Enable" /\ ~patched
         => payloadState = "Faulted"
    /\ hooked /\ ~stale /\ AllAcknowledged => CaughtUp
    /\ hpc = "wait" /\ ~stale /\ AllAcknowledged /\ payloadState # "Faulted"
         => /\ command = "PrepareUnload" => ~patched
            /\ command = "Enable" => patched
    /\ hpc = "unhook" /\ ~stale => CaughtUp /\ ~patched
    /\ hpc = "return" /\ goal = "enable" /\ result /\ ~stale => CaughtUp /\ patched
    /\ hpc = "idle" /\ status = "Active" /\ ~stale => CaughtUp /\ patched

IInv == TypeOK /\ HostInv /\ DllInv /\ FrameInv /\ GateInv /\ ResultInv
=============================================================================
