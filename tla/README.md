# A TLA+ verification of Taskbar Thumbnail Reorder

Taskbar Thumbnail Reorder (TTR) lets the user drag the thumbnails of a grouped
taskbar button into another order. It does so from inside Explorer: a tray
**host** process puts a **payload** DLL into Explorer with a window hook, the
payload patches functions of Explorer at addresses that a signed
**compatibility manifest** names, and the two talk through a small block of
shared memory. The hard part is not the dragging. It is to be inside another
process only as long as the code there can be trusted, to get out again while
its threads run, and never to be left with half of anything.

These modules state what that takes, check it with TLC on small instances, and
prove the safety of the central parts for every instance with TLAPS.

    tlc -workers 2 -config HookSession.cfg HookSession      # a run
    tlapm HookSessionProofs.tla                             # the proofs

## 1. The system

| component | code | state it keeps | operations |
|---|---|---|---|
| Host application | `host/app.*`, `host/main.cpp` | `HostState`, timers, retry and crash counts, `explorerGeneration_`, the wait on Explorer, `sessionEnding_` | one handler per message: toggle, Explorer exited, TaskbarCreated, two timers, update installed, exit, replace, query/end/cancel session |
| Hook loader | `host/hook_loader.*` | hook handle, mapping, payload library, command sequence | `Attach`, `CommandAndWait`, `Detach` |
| Session protocol | `include/ttr_protocol.h` | `TtrSessionControlV1` in shared memory: sequences, command, payload state | written by the host, read and answered by the payload |
| Payload core | `payload/payload_state.*`, `bootstrap_hook.cpp`, `dllmain.cpp` | `State`: `enabled`, `faulted`, `activeCallbacks`, the static `lastCommand` | `ProcessCommand`, `CallbackScope`, `MarkFault`, `TtrCallWndProcHook` |
| XAML backend | `payload/xaml_backend.*`, `thumbnail_context.h`, `winrt_visual_tree.cpp` | thumbnail mappings, the drag | eleven detours, `EnableXaml`, `DisableXaml` |
| Classic backend | `payload/classic_backend.*` | dragged index, two flags, tick of the last inclusion | `WndHook`/`WndLogic`, `Move`, `EnableClassic`, `DisableClassic` |
| Task model | `payload/task_model.*` | `filterGate`, reentrancy guard | `MoveTaskInGroup`, `FilterHook` |
| Reorder transaction | `payload/reorder_transaction.h`, `include/ttr_array_move.h` | the moves of one call | `ApplyPointerMoves`, `RollbackPointerMoves`, `MovePointer` |
| Manifest installation | `common/manifest_install.*` | six files in the compat directory | `InstallSignedManifestPair` |
| Manifest selection and store | `common/manifest_selection.*`, `host/manifest_store.*` | the manifest in use and its sequence | `SelectSignedManifest`, `ManifestStore::Load` |
| Compatibility update | `host/manifest_update.*` | the registry's highest sequence | `RunCompatibilityUpdate` on its own thread |
| Hook transaction | `payload/hook_transaction.*` | per backend: `initialized_`, `targets_`; the static `users`; MinHook's entries | `Begin`, `Add`, `Commit`, `Reset` |
| Manifest format | `common/manifest.*`, `include/ttr_manifest.h` | none | `ParseManifest`, `SelectExactRecord` |
| Discovery and identity | `host/explorer_session.*`, `common/pe_identity.*` | `ExplorerInfo::modules` | `FindAndValidateExplorer`, `ReadPeIdentity`, `ValidateSymbolRva` |
| Payload compatibility check | `payload/manifest_runtime.*` | `state.compatibility` | `ResolveCompatibility` |
| Others | hashing and signatures, settings, autostart, cleanup, tray, diagnostics, event log, tools | little or none | pure functions and single operating system calls |

**Who talks to whom.** App's handlers run on one thread and call the loader,
which blocks that thread while it waits for an acknowledgement. The payload
runs a command inside Explorer's taskbar thread, when a message passes the
hook, and therefore *nested in whatever that thread is doing*, a detour of its
own included. Other threads of Explorer run detours at the same time. Explorer
may exit at any moment; Windows may map and unmap the DLL at any moment the
hook's reference counts allow. The update worker writes files while the host
runs and posts one message at its end.

**What is hard, and what must be true.**

* *Session* (host, loader, payload, Explorer): commands time out and are carried
  out later; the DLL's statics outlive the session that set them; removing the
  detours races with threads that enter them. Detours must never outlive the
  hook that keeps their code mapped; nobody may be in custom logic when they are
  removed; Active must mean that detours are installed; a fault must be final;
  and every wait must end.
* *Host*: messages and timers arrive late. A message about the last Explorer must
  not take the session with this one, every wait for Explorer must have a retry
  before it, and retrying must end.
* *Update*: any file operation may fail, and the process or the machine may stop
  between any two. A load must never go back, and never find neither manifest.
* *Reorder*: several arrays must move together, with Explorer's code, which may
  fail or raise, in the middle.
* *Classic drag*: handlers nest, so state read before a call is stale after it.
* *Records*: the host decides over files, the payload over memory, each with its
  own reader and its own way to choose, at different times. What is patched must
  be exact for what is mapped.
* *Hooks*: nine functions are patched one after the other by calls that may fail,
  for two backends that share the patching library and two of the functions. A
  backend must be in place whole or not at all.
* *XAML drag*: the payload sees indices and addresses, and must get from them to
  windows. What it remembers was filled in earlier; a drag may move only what the
  user holds, and its release must not be a click.

`PROJECT.json` has the complete list of components and, under `hazards`, each
of these dangers at the line where it bites, with the properties that cover it
or the reason why none does.

## 2. The modules

| module | kind | models | extends / uses |
|---|---|---|---|
| `HookSession` | state machine | loader, protocol, payload core, detours, DLL life, Explorer | `DetourContract` (refined) |
| `HookSessionProofs` | proofs | | `HookSession` |
| `HostApp` | state machine | App's handlers around the loader | |
| `HostAppProofs` | proofs | | `HostApp` |
| `ManifestInstall` | state machine | update worker, installation, selection, restart | `MonotoneStore` (refined) |
| `MonotoneStore` | abstract specification | what a store of manifests promises | |
| `ManifestInstallProofs` | proofs | | `ManifestInstall` |
| `ThumbnailReorder` | state machine | `MoveTaskInGroup` with its transaction | `ArrayMove`, `AtomicReorder` (refined) |
| `AtomicReorder` | abstract specification | what `MoveTaskInGroup` promises its caller | |
| `ThumbnailReorderProofs` | proofs | | `ThumbnailReorder` |
| `ClassicDrag` | state machine | the classic window procedure | `ArrayMove` |
| `ClassicDragProofs` | proofs | | `ClassicDrag` |
| `XamlDrag` | state machine | the XAML backend's table and drag | `ArrayMove` |
| `MCXamlDrag` | model for TLC | the symmetry of `XamlDrag` | `XamlDrag` |
| `XamlDragProofs` | proofs | | `XamlDrag` |
| `ArrayMove` | operators | `MovePointer` | |
| `ManifestFormat` | operators | `ParseManifest`, `ValidateRecord`, `SelectExactRecord` | |
| `PeIdentity` | operators | the identity and the sections of an image, in a file and in memory | `ManifestFormat` |
| `RecordMatch` | state machine | from a signed manifest to the pointers of Enable, over host, payload and Explorer | `PeIdentity` |
| `MCRecordMatch` | model for TLC | images and families of manifests | `RecordMatch` |
| `RecordMatchProofs` | proofs | | `RecordMatch` |
| `HookTransaction` | state machine | the commands of the payload around MinHook's calls | `DetourContract` (refined) |
| `DetourContract` | abstract specification | what the payload promises about Explorer's functions | |
| `MCHookTransaction` | model for TLC | two backends that share functions | `HookTransaction` |
| `HookTransactionProofs` | proofs | | `HookTransaction` |

The `map` in `PROJECT.json` gives the source lines of every definition; what
follows is the correspondence in the large.

### HookSession

The host is at a control point `hpc` in one call (`goal`) of `Detach` or
`CommandAndWait`; `status` is what the tray shows. `AttachIfPossible` is the
sequence BeginAttach, Detach, AfterPreDetach, Detach (again, in `Attach`), Open,
Initialize, Enable and the clean-up after each failure, one step per place at
which another actor can interfere: writing the command and raising the sequence
are two steps, because the payload may read between them.

The payload runs `ProcessCommand` on the taskbar thread: `PickCommand` is the
comparison of `commandSequence` with `lastCommand` and sets `lastCommand` before
the command is carried out, as the code does; then the command, Initialize,
Enable (detours first, gate second) or PrepareUnload (gate, drain, removal), and
the acknowledgement. Enable goes through its backends as the code does: the first
may fail in its Commit, with detours in place that threads run into (`rollback`),
then the second may be tried (`fallback`) and fail the same way (`undo`).
`CommandFaults` is the exception filter of
`TtrCallWndProcHook`: no acknowledgement. Threads walk through a detour stage
by stage: entered, counted, gated (custom logic) or passing (the original),
leaving. `DpaHook` has a stage of its own because it does not count.

Windows' part is external and taken from how the code relies on it: a hook maps
the DLL at some message, an unmapping may follow once nothing hooks it, and the
statics start afresh when it is mapped again.

`DelayedSpec` lets the release store of the gate stay in the processor's store
buffer while the drain's loads go ahead, which x64 permits.

### HostApp

The variables are App's members, reduced: the Explorer that a handle belongs to
is none, the live one or one that has exited; a queued exit message has the
current generation or an old one; the crash window is recent or not. One action
per message, each with all that its handler does. `AttachIfPossible`,
`ScheduleExplorerRetry` (`Unavailable`) and `Detach` are shared operators, as in
the code; an attachment may have any of the outcomes that HookSession works
out. Two points of Windows' behaviour are assumed: `KillTimer` leaves no
`WM_TIMER` behind (the queue makes them up when asked), and `UnregisterWaitEx`
with `INVALID_HANDLE_VALUE` returns only after the callback has.

### ManifestInstall and MonotoneStore

A file is the sequence of the signed release its bytes belong to, 0 when it is
torn, absent or unreadable. Each file operation of `InstallSignedManifestPair`
is an action with its failure; `Crash` may come between any two and tear the
file in progress; `Restart` selects as `ManifestStore::Load` does.

`MonotoneStore` is what the host may rely on: `inUse` moves only to `durable`,
and neither ever falls below what has been in use. `ManifestInstall` implements
it with `inUse <- loaded` and `durable <- Selected`.

### ThumbnailReorder

One group and several taskbars, each with an array; `MoveTaskInGroup` collects
the moves taskbar by taskbar (`CollectTaskbar` may fail), applies all of them
(`ApplyPointerMoves`), and notifies each taskbar with two calls of
`TaskInclusionChanged`, the first behind `filterGate`; either may return an error
or raise; the rollback undoes in reverse order. Between calls windows come and
go and Explorer lays out again.

### ClassicDrag

`WndLogic` message by message. A press is two actions, because
`wndOriginal(WM_LBUTTONDOWN)` may pump messages, PrepareUnload's among them.
`ReleaseCapture` sends `WM_CAPTURECHANGED` to the same hook before it returns,
so its effect (`CaptureGone`) is part of the release.

### XamlDrag

`mappings`, `mappingOrder`, `mappingGeneration`, `currentThumbnails` and
`reordered` are the statics of `xaml_backend.cpp`; a weak reference is the object
or, once the object is gone, `None`, also when its address is in use again. One
action per detour that changes them: a constructor (`Construct`), Thumbnails
inside and outside of TargetItemKey (`Target`, `OtherThumbnails`), OnPointerMoved
with its fault (`PointerMoved`, `PointerFaults`), the click that comes with a
release (`Release`), UpdateFlyoutPosition (`Position`), and the commands. A move
is looked up as `MoveXaml` does, index by index and entry by entry; the pointer
may be over any element, or over none that is realised.

`ThumbnailsHook` may fail to record what the flyout turns to: the original returns
null, its object is no `IInspectable`, or the weak reference cannot be made (event
42). All three are one outcome of `Target` (`recorded = FALSE`): the flyout turns, and
`currentThumbnails` and the table stay. The history variable `missed` is up while, after
such a turn, another vector is remembered; it guards nothing. `OnlyPressedMoves` says
of every drag that it moves, in the remembered vector, what has the index of the held
thumbnail, and that this vector is the shown one unless `missed`.

The rest is Explorer's, and taken from how the code relies on it: the flyout shows
the vector that Explorer asks for inside TargetItemKey, recorded or not; a thumbnail is built for
a task that its flyout does not show yet; a task that moves takes its thumbnail
along; the capture keeps the held thumbnail alive; a click, if any, comes with
the release of the button. Between any two of these the flyout may turn to
another group, thumbnails may leave, die, and come back at the same address.

### ManifestFormat, PeIdentity and RecordMatch

A manifest is its header, its size and its records, and a record is what the
record table says of it (ids, flags, the offsets of its three tables) with the
entries of the tables. `ParseManifest` is a conjunction in the order of the code:
the header, the ranges (`AddRange`), each record (`ValidateRecord`), and no two
records with the same id or the same set of modules. The contents of the tables
are given apart from their offsets, which is what bytes that only one table
covers allow; that an accepted manifest has only such bytes is `TablesDisjoint`.

An image is what both readers look at: sections, debug entries, stamp and sizes.
`Readable`, `FileIdentity` and `ValidateSymbolRva` are the host's reading of a
file: every CodeView entry must be sound and exactly one of them RSDS.
`HasMemoryIdentity`, `MemoryIdentity` and `ValidRva` are the payload's reading of
what the loader mapped: the first usable RSDS entry counts, the rest is not looked
at, and a section ends where its virtual size does.

`RecordMatch` puts the two around an Explorer that lives on: the host loads the
manifest (`Load`, once for a behaviour; another manifest is another behaviour), reads the files of the
modules that Explorer has (`Scan`), takes the only record that matches
(`Select`), the payload takes the first one that fits (`Initialize`), and `Enable`
asks for its pointers. In between Explorer loads modules, files are replaced,
and Explorer restarts.

### HookTransaction

The detours in place (`live`), MinHook's entries (`created`) and heap, the count
of transactions and each backend's transaction. A command is a walk: Enable
resets and begins the transaction of the preferred backend, adds its functions
one by one in any order, commits, and on a failure resets and goes on to the other
backend or to the rollback of both; PrepareUnload resets both. Each call of
MinHook is an action, with an action for its failure: `AddFails`; `CommitFails`,
which leaves any part of the functions patched; `RemoveFails`, after which Reset
goes on as if the detour were gone; `UninitializeFails`. What runs in the detours
appears as what it can do to a command: fault (`CallbackFaults`) or not return in
time (`DrainTimesOut`). HookSession has the same commands against the host and the
threads, with the calls of a transaction as one step or two; what those leave out
is what is checked here.

### The abstract specifications

`MonotoneStore` is described above. `AtomicReorder` is `MoveTaskInGroup` as its
callers see it: one step takes a window out of every list that is not empty and puts
it in at another's place, or nothing changes, and the answer tells which. It is
written without the transaction: a place is where a window is, a move is
`RemoveAt` and `InsertAt`. `ThumbnailReorder` implements it with its arrays as they
were at the call until the call ends.

`DetourContract` is what the payload promises about the functions it patches,
whichever backend does it and however: they change only while the gate is closed,
the gate opens only over detours, after a fault neither comes back before the DLL is
loaded afresh, an answer speaks of what is there when it is given, and what a removal
could not remove is admitted (`stuck`). Both models of the payload implement it:
`HookTransaction`, call by call of MinHook under one session's commands, with
`patched <- live # {}`; and `HookSession`, with the host, the threads and Explorer
around it over many sessions, with `gate <- enabled`. So the two, written at
different grain for different questions, agree on what they say of the detours.

## 3. The runs

`session`, `install`, `classic_drag`, `reorder`, `host`, `xaml_drag`, `records` and
`hooks` must pass; every property of theirs has a mutant of the code in
`PROJECT.json` that breaks it. The others are expected violations: each states
what a document of the repository says and shows a behaviour of the code that is
otherwise.

| run | configuration | distinct states | shows |
|---|---|---|---|
| session | 2 threads, 5 commands per session | 159 972 | 6 invariants, `DetourContract`, 2 liveness properties |
| session_unload | the same | | the DLL can be unmapped under a thread |
| session_store_buffer | `DelayedSpec` | | the drain misses a thread |
| install | 4 releases, every operation and the final read may fail | 126 814 | 4 invariants, refinement of `MonotoneStore` |
| install_power | power losses only | | both pairs unreadable |
| classic_drag | 4 windows | 133 016 | 3 invariants, 1 action property |
| classic_release | 3 windows | | a release that reordered still reaches Explorer |
| reorder | 3 windows, 2 taskbars | 594 176 | 5 invariants, refinement of `AtomicReorder` |
| host | the code's limits, 8 retries and 5 crashes | 21 222 | 3 invariants, 1 action property, 1 liveness property |
| xaml_drag | 4 thumbnails, 2 groups of 2 tasks, a table of 2 | 1 110 426 | 2 invariants, 1 action property |
| records | 2 modules, 6 images, 2 records | 363 034 | 4 invariants |
| hooks | 5 functions, 2 of them shared | 33 678 | 3 invariants, refinement of `DetourContract` |

The inductive invariants, the type invariants, `NeverBelowLoaded`, `RetriesRunOut`,
`HandlerShrinks` and `CommandShrinks` are proved and no property of a run: section 4.

**Bounds, and why they are enough.** Five commands in a session are Initialize,
Enable and three removals: one that times out, one that is refused while the
first is still being carried out, one that gets through. A session may follow a
session without bound. Two threads are the one that runs commands and one that
does not; further ones differ from the second by name only (the proofs are for
any number). Four releases give an update, an interrupted one, and another
after it, over an embedded release. Three windows on two taskbars have a taskbar
that shows some windows only, and moves in both directions; four windows in the
classic list let windows before and behind the dragged one close. `HostApp` has
the limits of the code. Four thumbnails fill two flyouts of two, the smallest case
in which an index of one flyout names a window of the other, and three mappings
in a session overfill a table of two. `MaxGeneration = 1` is the worst case:
every session has the generation of the one before it, as in the code after
2^64 - 1 sessions, and distinguishes nothing. `Animated = TRUE` allows a subset
of the steps. The manifests of `records` are in three families: every offset of
two records' tables at, one before and one after each place where a table may
begin, in a file of the right size or one byte short; every single symbol missing
or one too many, for every combination of flags; and pairs of records for module
lists that are equal, differ in a version or in capitals, or contain one another, with
addresses at the edges of sections. Its images are one plain, one for each way
in which the readers treat a debug entry differently, and one whose code is not
executable; two modules suffice, for modules are compared one by one. `hooks` has functions of each
backend's own and two shared ones, as the code has (the filter and
`DPA_GetPtr`); more functions of one kind add orders only. A manifest that is
rejected, or the absence of any, stops `records`, which therefore runs without the
deadlock check. Thumbnails, groups and tasks are interchangeable, and the run uses
that. No bound is hidden: `MaxSeq`, `MaxSequence`, `Windows`, `MaxOrder`,
`MaxGeneration`, and `CrashLimit` (the count is not raised beyond what is
compared) are the only ones.

**Fairness.** `HookSession!FairSpec`: the host thread continues a handler, and
the payload continues a command it has begun; both are plain code on a thread
that is scheduled. No callback is assumed to return, no hook message to arrive:
`CommandTerminates` and `HostReturns` hold because of the time limits.
`HostApp!FairSpec`: a timer that is set fires, the wait on a process that has
exited fires, and a posted message is handled. Nothing makes Explorer start, the
user act, or an attachment succeed. Steps that the user or Windows take are
never fair.

## 4. What is proved

With TLAPS, for every value of the constants that satisfies the named
assumptions:

* **HookSessionProofs** — `TypeCorrect`, `HooksKeepDllHolds`,
  `ActiveMeansHookedHolds`, `FaultContainedHolds`, `FreshCommandSeenHolds`,
  `HandlerShrinksHolds`, for any finite set of threads and any number of commands
  and sessions, of `Spec` and of `DelayedSpec`; and of `Spec` only
  `RemovalQuiescedHolds` and `CustomLogicKeptHolds`, which a delayed store refutes,
  `ContractHolds` and `CommandShrinksHolds`. The properties are far
  from inductive: whether taking the hook away is safe depends on whether the
  acknowledgement the host has just read can belong to another command. `IInv`
  says what the control points mean: `HostInv` (which handles each point holds),
  `DllInv` (a DLL that is not mapped has fresh statics and no thread in it),
  `FrameInv` (what the locals of `ProcessCommand` say about the shared block),
  `GateInv` (faulted closes the gate; the store buffer), `ResultInv` (an
  acknowledged result speaks of the detours as they are). `RemovalQuiesced`
  rests on `GateInv` and on nothing being buffered (`QuietInv`). `CustomLogicKept`
  covers the rollbacks as well, which drain nothing: they are safe for custom logic
  because a gate that is closed without a fault has no thread behind it once a
  drain is over (`LogicInv`), and a gate closed by a fault never comes to an Enable
  that changes anything. `FreshCommandSeen` rests on a session being unhooked only
  after its second command (`CountInv`), so that no number kept in the DLL's statics
  is that of the next one's Initialize (`SeenInv`). `ContractHolds` maps each step
  to the step of `DetourContract` that it is, with one lemma per group of actions.
* **ManifestInstallProofs** — for any number of releases, each promise under as many
  kinds of faults as it bears. Any crash and any failure of a write, copy, move,
  delete, registry write or final read is allowed everywhere; `SteadyReads` says
  that an update which starts can read what is there (`readFloor`, `readPrior`):

  | theorem | reads | failing loads | power losses |
  |---|---|---|---|
  | `TypeCorrect` | any | allowed | allowed |
  | `InstalledIsLoadableHolds` | the floor is read | allowed | allowed |
  | `RunInvHolds`, `FailureRestoresPriorHolds` | `SteadyReads` | allowed | allowed |
  | `InductiveInvariant`, `NeverBelowLoadedHolds`, `RegistryBackedHolds`, `AtomicInstallHolds` | `SteadyReads` | allowed | none |
  | `MonotoneHolds` (the refinement) | `SteadyReads` | none | none |

  `RunInv` says where the prior pair can be read at each step of one update: in its
  place until both backup copies exist, in the backup from then on. `Ordering` is
  what one update hands on to the next, and what a power loss takes away (run
  `install_power`). `ReportInv` is what is left when a prior pair is taken for none
  (section 5): what is reported as installed has been read back, and nothing newer is
  anywhere.
* **ThumbnailReorderProofs** — `TypeCorrect` (every index stays within its
  array), `AllOrNothingHolds`, `ReorderInvHolds`, `FilterRestoredHolds`,
  `InStepHolds`, `MovedEverywhereHolds`, `ShownAfterMoveHolds`, and `AtomicHolds`, the
  refinement of `AtomicReorder`, for any set of windows and taskbars. The inductive invariant `IInv` relates the arrays to
  those at the call: equal before Apply, moved by exactly the collected moves
  after it; a lemma about `MovePointer` has the opposite move undo a move. `RInv`
  adds what the collection has found and who is still to be notified, and that each
  taskbar's array is a subsequence of the group's, which is what makes `InStep`
  inductive: moving the same two windows in a sequence and in a part of it leaves
  the one a part of the other (`MoveTogether`).
* **HostAppProofs** — `TypeCorrect`, `RetryPendingHolds`,
  `ActiveOnlyIfEnabledHolds`, `NoticesExitHolds`, `LiveSessionKeptHolds`,
  `RetriesRunOutHolds`, for any limits. `IInv` adds that only a host that is switched on has a retry timer,
  that an ending one waits for nothing, and that a live session excludes a
  current exit message.
* **XamlDragProofs** — `TypeCorrect`, `MappingsOKHolds`,
  `NoActivationAfterReorderHolds`, `OnlyPressedMovesHolds`, for any thumbnails,
  groups, taskbars and tasks and any limit of the table. That a bounded table
  keeps the newest entries is a fact about cardinalities (`OldestExists`,
  `PruneBounds`); that it is right rests on replacement by object *and* by task.
  `IInv` adds that a flyout shows a task once (`ListsInv`), that the remembered
  vector is the shown one while the gate is open and unless the detour has missed
  the last turn (`FlyoutInv`), and that a press which has reordered still has its
  flag (`HeldInv`). That a drag stays in the remembered vector, at the index of what
  is held, needs no such exception (`MoveIsRemembered`).
* **RecordMatchProofs** — `TablesAreDisjoint`, `ResolutionIsExact`,
  `RecordsAreTheSame`, `EnableIsComplete`, for any names, images, disks and
  manifests whose numbers are natural and whose sections the loader keeps apart.
  `RInv` says what a session knows at each step: the record behind
  `state.compatibility` resolves against the modules in memory and goes on doing
  so, for loaded modules stay. That the two readers agree rests on two lemmas:
  `SectionsAgree` (an address within the virtual size of a section is in no earlier
  section's raw range, so both readers stop at the same section) and
  `IdentitiesAgree` (where the host accepts a file, the first usable RSDS entry in
  memory is the one it found); `OnlyMatch` then makes the first record that
  fits the only one that matches.
* **HookTransactionProofs** — `TypeCorrect`, `NothingIsLeft`,
  `ActiveMeansComplete`, `HookCountIsTrue` and `ContractHolds`, the refinement of
  `DetourContract`, for any functions and any share of the backends in them. `HInv` says which transaction is open at each place of a
  command, that only the functions of the open one are patched or have an entry
  unless `MH_Uninitialize` has failed, and that the count is right between
  commands.
* **ClassicDragProofs** — `TypeCorrect`, `DraggedIsGrabbedHolds`,
  `NothingLeftBehindHolds`, `DoneMeansCapturedHolds` and the action property
  `OnlyGrabbedMovesHolds`, for any finite set of windows. `CInv` adds that a press
  suspended in the original procedure still has its detours (`FrameInv`, because the
  drain counts it) and that the dragged index is one of the array until a window
  before it closes (`IndexInv`). `MoveTyped`, `MoveKeepsOthers` and
  `RemoveAtEntries` say what a move and a removal do to an array of any length.

**Only model-checked**: the liveness properties `CommandTerminates`, `HostReturns` and
`GivesUp`, for temporal reasoning with fairness and `ENABLED` is outside what the
prover's backends do. The part of each that is about data is proved as an action
property for every instance: `CommandShrinks` and `HandlerShrinks` say that every
step of a command or handler lowers a rank (a natural number) and no other actor's
step raises it; `RetriesRunOut` says that of the retries left to a waiting host. What
TLC adds is that the steps are there to be taken.

## 5. Disagreements found

Each is a violation run; `PROJECT.json` quotes the lines.

1. *Unload under a thread* (session_unload): `DpaHook` is not counted, and no
   detour counts from its first to its last instruction.
2. *Store buffer* (session_store_buffer): a release store and an acquire load
   do not keep the gate before the drain.
3. *Power loss* (install_power): the backup copies are not flushed before the
   originals are overwritten.
4. *Release after a reorder* (classic_release): `dragDone` is reset by
   `ReleaseCapture` before it is read.

Also seen:

* When `ThumbnailsHook` cannot record the vector that the flyout turns to
  (xaml_backend.cpp:181-200), the one before it stays remembered, and `MoveXaml` looks
  the indices of the new flyout up in it: the drag moves a window of the group that
  was shown before. TLC refutes `OnlyPressedMoves` without its `~missed` in nine
  steps: two thumbnails in each of two groups, a turn that is recorded, one to the other
  group that is not, a press and a move. No document speaks of this case; the code
  compares the two mappings with each other (thumbnail_context.h:14) but neither of
  them with the flyout.
* `MH_Uninitialize`'s result is ignored (hook_transaction.cpp:52): when it fails,
  a detour that `MH_RemoveHook` could not remove stays, and the payload reports
  Unloading all the same. `NothingLeft` and the theorem about it except that case
  (`~stuck`), and `DetourContract` admits it.
* A host at rest does not learn of a fault in the payload. Active is shown with
  nothing attached when the removal helper fails after a Detach; Disabled is shown
  after a cancelled shutdown whose Detach failed.
* A stale retry timer attaches again to an Explorer that is attached. At the end
  of the Windows session, and at the end of `App::Run`, the host goes although its
  last Detach failed, and takes the hook away from under the detours.
* Five exits in a minute suppress attaching ("until the feature is toggled",
  app.cpp:335) until the next TaskbarCreated, which every new Explorer sends. So
  `GivesUp` is about the retries only; the count of exits is in `HostApp`, and no
  property says that it keeps the host from attaching.
* A prior pair that cannot be read for a moment counts as absent
  (manifest_install.cpp:133); if saving the sequence then fails, Restore deletes the
  new pair and the old one is gone: with `Faults = {"save", "readPrior"}` TLC
  refutes `FailureRestoresPrior`. What is reported as installed is installed even
  then (`InstalledIsLoadableHolds`).
* The host takes an address in the padding of a section, between its virtual and
  its raw size, for valid; the payload refuses it, and the session ends in
  Unsupported. The other way round does not happen (`ResolvedIsExact`).
* Records whose module sets differ in capitals only, or of which one contains the
  other, are accepted by `ParseManifest` though several may match: the host then
  selects none.
* If the file of a module was replaced after Explorer mapped it, or the host
  cannot read it, host and payload may choose different records; the payload's is
  right for what is mapped, the host's is what diagnostics show.
* Two symbols of a record at one address pass every check and make
  `MH_CreateHook` fail, so that the backend cannot be enabled.
* `updateInProgress_` stays set if the worker's message cannot be posted
  (manifest_update.cpp:221).

## 6. Not modelled

* MinHook's trampolines, and the threads it freezes: that a thread inside a
  patched function survives the removal is MinHook's affair, but the trampoline's
  memory is freed at once. Nobody is in custom logic then (`CustomLogicKept`); a thread
  that has entered a detour without getting into custom logic, and is about to call
  the original, may find the trampoline gone after the rollback of a failed Enable,
  which drains nothing (listed as a hazard).
* The XAML visual tree (which element is which index, its limit of 256), an
  exception that leaves TargetItemKey with `resolvingTarget` up, the end of a
  vector of Explorer's.
* An exception that `SendMessageW` or `RedrawWindow` raises in `Notify`
  (task_model.cpp:160, 178-180): it is outside the handler there and reaches the one of
  `MoveTaskInGroup` (293), which answers FALSE and rolls nothing back. `AllOrNothing` and
  the refinement of `AtomicReorder` are about the exceptions of `TaskInclusionChanged`.
* The classic backend's re-entry into `ProcessCommand` through `ReleaseCapture`
  in `DisableClassic`.
* Hashing and signatures: a pair verifies when both files come from one release.
  The headers of an image before its section table: those of a file that Explorer
  has loaded.
* Key rotation, a host upgrade that changes the embedded manifest, other programs
  that write the files.
* The overlap guard of updates (`updateInProgress_`), the lookup of a running
  instance, a wait on Explorer that cannot be registered.
* Tray, diagnostics, event log, settings, autostart, cleanup helper, build tools.

## 7. What could follow

1. HostApp's one-step Detach and attachment as the abstraction of the loader's calls
   in HookSession, as `DetourContract` is one of the payload's.
2. The trampolines in HookTransaction, with threads that enter, are counted and call
   the original while an Enable is rolled back.
