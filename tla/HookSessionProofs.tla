------------------------- MODULE HookSessionProofs -------------------------
(***************************************************************************)
(* HookSession proved for every set of threads, every bound on the number  *)
(* of commands, whether or not the gate's store may be delayed: types, that*)
(* installed detours keep the host's hook and the DLL, that Active means   *)
(* hooked, that a fault ends custom behaviour, that a command of a new     *)
(* session is not taken for one of an old, that handlers and commands come *)
(* nearer to their end; and, when the store is not delayed, that custom    *)
(* logic keeps its detours through removals and rollbacks alike, and that  *)
(* the payload implements DetourContract.                                  *)
(*                                                                         *)
(* The argument. HooksKeepDll is not inductive: whether Unhook is safe     *)
(* depends on what the payload has done with the last PrepareUnload, that  *)
(* on what its ProcessCommand read from the block and when, and that on    *)
(* the order in which the host wrote command and sequence. IInv follows    *)
(* that chain (HostInv, FrameInv, ResultInv) beside the facts on loading   *)
(* (DllInv) and on the gate (GateInv). Each part has a lemma, with one     *)
(* step per action. For the removal a second invariant says who may be in  *)
(* custom logic: only threads that are counted, and none while a drain has *)
(* ended or an Enable is trying backends.                                  *)
(***************************************************************************)
EXTENDS HookSession, FiniteSetTheorems, TLAPS

-----------------------------------------------------------------------------
(* Types.                                                                  *)

\* Every action leaves the flags Boolean.
LEMMA FlagsStep ==
  ASSUME FlagsOK, [DelayedNext]_vars PROVE FlagsOK'
<1> USE DEF FlagsOK, hostVars, blockVars, osVars, staticVars, frameVars
<1>1. CASE UNCHANGED vars
  BY <1>1, Zenon DEF vars
<1>2. CASE BeginAttach
  BY <1>2, Zenon DEF BeginAttach, Call, HostOnly
<1>3. CASE BeginOff
  BY <1>3, Zenon DEF BeginOff, Call, HostOnly
<1>4. CASE BeginExplorerExited
  BY <1>4, Zenon DEF BeginExplorerExited, Call, HostOnly
<1>5. CASE AfterPreDetach
  BY <1>5, ZenonT(40) DEF AfterPreDetach, Call, Finish, HostOnly
<1>6. CASE AfterAttachDetach
  BY <1>6, Zenon DEF AfterAttachDetach, Call, HostOnly
<1>7. CASE OpenFails
  BY <1>7, Zenon DEF OpenFails, Call, HostOnly
<1>8. CASE Open
  BY <1>8, Zenon DEF Open, Call
<1>9. CASE AfterInit
  BY <1>9, Zenon DEF AfterInit, Call, HostOnly
<1>10. CASE AfterInitDetach
  BY <1>10, Zenon DEF AfterInitDetach, Call, HostOnly
<1>11. CASE AfterEnable
  BY <1>11, Zenon DEF AfterEnable, Call, Finish, HostOnly
<1>12. CASE AfterLastDetach
  BY <1>12, Zenon DEF AfterLastDetach, Finish, HostOnly
<1>13. CASE Detach
  BY <1>13, Zenon DEF Detach, HostOnly
<1>14. CASE WriteCommand
  BY <1>14, Zenon DEF WriteCommand
<1>15. CASE BumpSequence
  BY <1>15, Zenon DEF BumpSequence
<1>16. CASE Acknowledged
  BY <1>16, Zenon DEF Acknowledged, CommandReturns, HostOnly
<1>17. CASE TimesOut
  BY <1>17, Zenon DEF TimesOut, CommandReturns, HostOnly
<1>18. CASE Unhook
  BY <1>18, Zenon DEF Unhook
<1>19. CASE PickCommand
  BY <1>19, Zenon DEF PickCommand
<1>20. CASE ReadCommand
  BY <1>20, Zenon DEF ReadCommand
<1>21. CASE Resolve
  BY <1>21, Zenon DEF Resolve, SetResult, ControlUnchanged
<1>22. CASE EnableBackend
  BY <1>22, ZenonT(40) DEF EnableBackend, Installs, NoBackend, MarkFault, SetResult, ControlUnchanged
<1>38. CASE RollBack
  BY <1>38, Zenon DEF RollBack, NoBackend, MarkFault, SetResult, ControlUnchanged
<1>39. CASE FallBack
  BY <1>39, Zenon DEF FallBack, Installs
<1>40. CASE Undo
  BY <1>40, Zenon DEF Undo, NoBackend, MarkFault, SetResult, ControlUnchanged
<1>23. CASE PublishEnabled
  BY <1>23, Zenon DEF PublishEnabled, SetResult, ControlUnchanged
<1>24. CASE CloseGate
  BY <1>24, Zenon DEF CloseGate
<1>37. CASE CloseGateLater
  BY <1>37, Zenon DEF CloseGateLater
<1>25. CASE Drained
  BY <1>25, Zenon DEF Drained
<1>26. CASE DrainTimesOut
  BY <1>26, Zenon DEF DrainTimesOut, MarkFault, SetResult, ControlUnchanged
<1>27. CASE RemoveHooks
  BY <1>27, Zenon DEF RemoveHooks, SetResult, ControlUnchanged
<1>28. CASE Acknowledge
  BY <1>28, Zenon DEF Acknowledge, FrameEnds
<1>29. CASE StoreDrains
  BY <1>29, Zenon DEF StoreDrains
<1>30. CASE CommandFaults
  BY <1>30, Zenon DEF CommandFaults, FrameEnds, MarkFault, SetResult, ControlUnchanged
<1>31. CASE CallbackFaults
  BY <1>31, Zenon DEF CallbackFaults, Move, Runs, MarkFault, SetResult,
       ControlUnchanged
<1>32. ASSUME NEW t \in Threads, Callback(t) PROVE FlagsOK'
  <2>1. UNCHANGED <<result, validated, alive, hooked, stale, loaded, liveUnload>>
    BY <1>32, Zenon DEF Callback, Enter, EnterDpa, CountIn, CheckGate,
         CallOriginal, CountOut, Leave, Move
  <2>2. UNCHANGED <<enabled, faulted, patched, buffered>>
    BY <1>32, Zenon DEF Callback, Enter, EnterDpa, CountIn, CheckGate,
         CallOriginal, CountOut, Leave, Move
  <2> QED
    BY <2>1, <2>2, Zenon
<1>33. CASE LoadDll
  BY <1>33, Zenon DEF LoadDll, FreshStatics
<1>34. CASE UnloadDll
  BY <1>34, Zenon DEF UnloadDll, FreshStatics, ProcessGone, FrameEnds
<1>35. CASE ExplorerExits
  BY <1>35, Zenon DEF ExplorerExits, ProcessGone, FreshStatics, FrameEnds
<1>36. CASE ExplorerStarts
  BY <1>36, Zenon DEF ExplorerStarts
<1> QED
  BY <1>1, <1>2, <1>3, <1>4, <1>5, <1>6, <1>7, <1>8, <1>9, <1>10, <1>11, <1>12,
       <1>13, <1>14, <1>15, <1>16, <1>17, <1>18,
     <1>19, <1>20, <1>21, <1>22, <1>23, <1>24, <1>25, <1>26, <1>27, <1>28, <1>29,
       <1>30, <1>31, <1>32, <1>33, <1>34, <1>35, <1>36, <1>37, <1>38, <1>39, <1>40
     DEF DelayedNext, Next, HostStep, PayloadStep

\* Every action leaves the other variables in their sets.
LEMMA DataStep ==
  ASSUME DataOK, [DelayedNext]_vars PROVE DataOK'
<1> USE DEF DataOK, hostVars, blockVars, osVars, staticVars, frameVars,
           Statuses, HostPCs, DetachGoals, CommandGoals, Goals, Commands,
           PayloadStates, FramePCs, Stages, CommandOf, Threads
<1>1. CASE UNCHANGED vars
  BY <1>1, SMT DEF vars
<1>2. CASE BeginAttach
  BY <1>2, SMT DEF BeginAttach, Call, HostOnly
<1>3. CASE BeginOff
  BY <1>3, SMT DEF BeginOff, Call, HostOnly
<1>4. CASE BeginExplorerExited
  BY <1>4, SMT DEF BeginExplorerExited, Call, HostOnly
<1>5. CASE AfterPreDetach
  BY <1>5, SMT DEF AfterPreDetach, Call, Finish, Unavailable, HostOnly
<1>6. CASE AfterAttachDetach
  BY <1>6, SMT DEF AfterAttachDetach, Call, HostOnly
<1>7. CASE OpenFails
  BY <1>7, SMT DEF OpenFails, Call, HostOnly
<1>8. CASE Open
  BY <1>8, SMT DEF Open, Call
<1>9. CASE AfterInit
  BY <1>9, SMT DEF AfterInit, Call, HostOnly
<1>10. CASE AfterInitDetach
  BY <1>10, SMT DEF AfterInitDetach, Call, HostOnly
<1>11. CASE AfterEnable
  BY <1>11, SMT DEF AfterEnable, Call, Finish, HostOnly
<1>12. CASE AfterLastDetach
  BY <1>12, SMT DEF AfterLastDetach, Finish, Unavailable, HostOnly
<1>13. CASE Detach
  BY <1>13, SMT DEF Detach, HostOnly
<1>14. CASE WriteCommand
  BY <1>14, SMT DEF WriteCommand
<1>15. CASE BumpSequence
  BY <1>15, SMT DEF BumpSequence
<1>16. CASE Acknowledged
  BY <1>16, SMT DEF Acknowledged, CommandReturns, HostOnly
<1>17. CASE TimesOut
  BY <1>17, SMT DEF TimesOut, CommandReturns, HostOnly
<1>18. CASE Unhook
  BY <1>18, SMT DEF Unhook
<1>19. CASE PickCommand
  BY <1>19, SMT DEF PickCommand
<1>20. CASE ReadCommand
  BY <1>20, SMT DEF ReadCommand
<1>21. CASE Resolve
  BY <1>21, SMT DEF Resolve, SetResult, ControlUnchanged
<1>22. CASE EnableBackend
  BY <1>22, SMT DEF EnableBackend, Installs, NoBackend, MarkFault, SetResult, ControlUnchanged
<1>38. CASE RollBack
  BY <1>38, SMT DEF RollBack, NoBackend, MarkFault, SetResult, ControlUnchanged
<1>39. CASE FallBack
  BY <1>39, SMT DEF FallBack, Installs
<1>40. CASE Undo
  BY <1>40, SMT DEF Undo, NoBackend, MarkFault, SetResult, ControlUnchanged
<1>23. CASE PublishEnabled
  BY <1>23, SMT DEF PublishEnabled, SetResult, ControlUnchanged
<1>24. CASE CloseGate
  BY <1>24, SMT DEF CloseGate
<1>37. CASE CloseGateLater
  BY <1>37, SMT DEF CloseGateLater
<1>25. CASE Drained
  BY <1>25, SMT DEF Drained
<1>26. CASE DrainTimesOut
  BY <1>26, SMT DEF DrainTimesOut, MarkFault, SetResult, ControlUnchanged
<1>27. CASE RemoveHooks
  BY <1>27, SMT DEF RemoveHooks, SetResult, ControlUnchanged
<1>28. CASE Acknowledge
  BY <1>28, SMT DEF Acknowledge, FrameEnds
<1>29. CASE StoreDrains
  BY <1>29, SMT DEF StoreDrains
<1>30. CASE CommandFaults
  BY <1>30, SMT DEF CommandFaults, FrameEnds, MarkFault, SetResult, ControlUnchanged
<1>31. CASE CallbackFaults
  BY <1>31, SMT DEF CallbackFaults, Move, Runs, MarkFault, SetResult, ControlUnchanged
<1>32. ASSUME NEW t \in Threads, Callback(t) PROVE DataOK'
  BY <1>32, SMT DEF Callback, Enter, EnterDpa, CountIn, CheckGate, CallOriginal,
       CountOut, Leave, Move
<1>33. CASE LoadDll
  BY <1>33, SMT DEF LoadDll, FreshStatics
<1>34. CASE UnloadDll
  BY <1>34, SMT DEF UnloadDll, FreshStatics, ProcessGone, FrameEnds
<1>35. CASE ExplorerExits
  BY <1>35, SMT DEF ExplorerExits, ProcessGone, FreshStatics, FrameEnds
<1>36. CASE ExplorerStarts
  BY <1>36, SMT DEF ExplorerStarts
<1> QED
  BY <1>1, <1>2, <1>3, <1>4, <1>5, <1>6, <1>7, <1>8, <1>9, <1>10, <1>11, <1>12,
       <1>13, <1>14, <1>15, <1>16, <1>17, <1>18,
     <1>19, <1>20, <1>21, <1>22, <1>23, <1>24, <1>25, <1>26, <1>27, <1>28, <1>29,
       <1>30, <1>31, <1>32, <1>33, <1>34, <1>35, <1>36, <1>37, <1>38, <1>39, <1>40
     DEF DelayedNext, Next, HostStep, PayloadStep

-----------------------------------------------------------------------------
(* The parts of the inductive invariant.                                   *)

\* The host's control point: a Detach owns a hook, a command on its way is the
\* one its goal asks for.
LEMMA HostInvStep ==
  ASSUME IInv, [DelayedNext]_vars PROVE HostInv'
<1> USE DEF IInv, TypeOK, DataOK, HostInv, DllInv, FrameInv, GateInv,
           ResultInv, CaughtUp, AllAcknowledged, hostVars, blockVars, osVars, staticVars, frameVars,
           Statuses, HostPCs, DetachGoals, CommandGoals, Goals, Commands,
           PayloadStates, FramePCs, Stages, CommandOf, Attempting
<1>1. CASE UNCHANGED vars
  BY <1>1 DEF vars
<1>2. CASE BeginAttach
  BY <1>2 DEF BeginAttach, Call, HostOnly
<1>3. CASE BeginOff
  BY <1>3 DEF BeginOff, Call, HostOnly
<1>4. CASE BeginExplorerExited
  BY <1>4 DEF BeginExplorerExited, Call, HostOnly
<1>5. CASE AfterPreDetach
  BY <1>5 DEF AfterPreDetach, Call, Finish, HostOnly
<1>6. CASE AfterAttachDetach
  BY <1>6 DEF AfterAttachDetach, Call, HostOnly
<1>7. CASE OpenFails
  BY <1>7 DEF OpenFails, Call, HostOnly
<1>8. CASE Open
  BY <1>8 DEF Open, Call
<1>9. CASE AfterInit
  BY <1>9 DEF AfterInit, Call, HostOnly
<1>10. CASE AfterInitDetach
  BY <1>10 DEF AfterInitDetach, Call, HostOnly
<1>11. CASE AfterEnable
  BY <1>11 DEF AfterEnable, Call, Finish, HostOnly
<1>12. CASE AfterLastDetach
  BY <1>12 DEF AfterLastDetach, Finish, HostOnly
<1>13. CASE Detach
  BY <1>13 DEF Detach, HostOnly
<1>14. CASE WriteCommand
  BY <1>14 DEF WriteCommand
<1>15. CASE BumpSequence
  BY <1>15 DEF BumpSequence
<1>16. CASE Acknowledged
  BY <1>16 DEF Acknowledged, CommandReturns, HostOnly
<1>17. CASE TimesOut
  BY <1>17 DEF TimesOut, CommandReturns, HostOnly
<1>18. CASE Unhook
  BY <1>18 DEF Unhook
<1>19. CASE PickCommand
  BY <1>19 DEF PickCommand
<1>20. CASE ReadCommand
  BY <1>20 DEF ReadCommand
<1>21. CASE Resolve
  BY <1>21 DEF Resolve, SetResult, ControlUnchanged
<1>22. CASE EnableBackend
  BY <1>22 DEF EnableBackend, Installs, NoBackend, MarkFault, SetResult, ControlUnchanged
<1>38. CASE RollBack
  BY <1>38 DEF RollBack, NoBackend, MarkFault, SetResult, ControlUnchanged
<1>39. CASE FallBack
  BY <1>39 DEF FallBack, Installs
<1>40. CASE Undo
  BY <1>40 DEF Undo, NoBackend, MarkFault, SetResult, ControlUnchanged
<1>23. CASE PublishEnabled
  BY <1>23 DEF PublishEnabled, SetResult, ControlUnchanged
<1>24. CASE CloseGate
  BY <1>24 DEF CloseGate
<1>37. CASE CloseGateLater
  BY <1>37 DEF CloseGateLater
<1>25. CASE Drained
  BY <1>25 DEF Drained
<1>26. CASE DrainTimesOut
  BY <1>26 DEF DrainTimesOut, MarkFault, SetResult, ControlUnchanged
<1>27. CASE RemoveHooks
  BY <1>27 DEF RemoveHooks, SetResult, ControlUnchanged
<1>28. CASE Acknowledge
  BY <1>28 DEF Acknowledge, FrameEnds
<1>29. CASE StoreDrains
  BY <1>29 DEF StoreDrains
<1>30. CASE CommandFaults
  BY <1>30 DEF CommandFaults, FrameEnds, MarkFault, SetResult, ControlUnchanged
<1>31. CASE CallbackFaults
  BY <1>31 DEF CallbackFaults, Move, Runs, MarkFault, SetResult, ControlUnchanged
<1>32. ASSUME NEW t \in Threads, Callback(t) PROVE HostInv'
  BY <1>32 DEF Callback, Enter, EnterDpa, CountIn, CheckGate, CallOriginal,
       CountOut, Leave, Move
<1>33. CASE LoadDll
  BY <1>33 DEF LoadDll, FreshStatics
<1>34. CASE UnloadDll
  BY <1>34 DEF UnloadDll, FreshStatics, ProcessGone, FrameEnds
<1>35. CASE ExplorerExits
  BY <1>35 DEF ExplorerExits, ProcessGone, FreshStatics, FrameEnds
<1>36. CASE ExplorerStarts
  BY <1>36 DEF ExplorerStarts
<1> QED
  BY <1>1, <1>2, <1>3, <1>4, <1>5, <1>6, <1>7, <1>8, <1>9, <1>10, <1>11, <1>12,
       <1>13, <1>14, <1>15, <1>16, <1>17, <1>18,
     <1>19, <1>20, <1>21, <1>22, <1>23, <1>24, <1>25, <1>26, <1>27, <1>28, <1>29,
       <1>30, <1>31, <1>32, <1>33, <1>34, <1>35, <1>36, <1>37, <1>38, <1>39, <1>40
     DEF DelayedNext, Next, HostStep, PayloadStep

\* Loading: detours exist only in a loaded DLL under the host's hook.
LEMMA DllInvStep ==
  ASSUME IInv, [DelayedNext]_vars PROVE DllInv'
<1> USE DEF IInv, TypeOK, DataOK, HostInv, DllInv, FrameInv, GateInv,
           ResultInv, CaughtUp, AllAcknowledged, hostVars, blockVars, osVars, staticVars, frameVars,
           Statuses, HostPCs, DetachGoals, CommandGoals, Goals, Commands,
           PayloadStates, FramePCs, Stages, CommandOf, Attempting
<1>1. CASE UNCHANGED vars
  BY <1>1 DEF vars
<1>2. CASE BeginAttach
  BY <1>2 DEF BeginAttach, Call, HostOnly
<1>3. CASE BeginOff
  BY <1>3 DEF BeginOff, Call, HostOnly
<1>4. CASE BeginExplorerExited
  BY <1>4 DEF BeginExplorerExited, Call, HostOnly
<1>5. CASE AfterPreDetach
  BY <1>5 DEF AfterPreDetach, Call, Finish, HostOnly
<1>6. CASE AfterAttachDetach
  BY <1>6 DEF AfterAttachDetach, Call, HostOnly
<1>7. CASE OpenFails
  BY <1>7 DEF OpenFails, Call, HostOnly
<1>8. CASE Open
  BY <1>8 DEF Open, Call
<1>9. CASE AfterInit
  BY <1>9 DEF AfterInit, Call, HostOnly
<1>10. CASE AfterInitDetach
  BY <1>10 DEF AfterInitDetach, Call, HostOnly
<1>11. CASE AfterEnable
  BY <1>11 DEF AfterEnable, Call, Finish, HostOnly
<1>12. CASE AfterLastDetach
  BY <1>12 DEF AfterLastDetach, Finish, HostOnly
<1>13. CASE Detach
  BY <1>13 DEF Detach, HostOnly
<1>14. CASE WriteCommand
  BY <1>14 DEF WriteCommand
<1>15. CASE BumpSequence
  BY <1>15 DEF BumpSequence
<1>16. CASE Acknowledged
  BY <1>16 DEF Acknowledged, CommandReturns, HostOnly
<1>17. CASE TimesOut
  BY <1>17 DEF TimesOut, CommandReturns, HostOnly
<1>18. CASE Unhook
  <2>1. hooked /\ (~stale => ~patched)
    BY <1>18 DEF Unhook
  <2>2. ~patched
    BY <2>1
  <2>3. UNCHANGED <<alive, loaded, validated, patched>>
    BY <1>18 DEF Unhook
  <2>4. CASE hooked' = FALSE /\ stale' = FALSE
    BY <2>2, <2>3, <2>4
  <2>5. CASE UNCHANGED <<hooked, stale>>
    BY <2>3, <2>5
  <2> QED
    BY <1>18, <2>4, <2>5 DEF Unhook
<1>19. CASE PickCommand
  BY <1>19 DEF PickCommand
<1>20. CASE ReadCommand
  BY <1>20 DEF ReadCommand
<1>21. CASE Resolve
  BY <1>21 DEF Resolve, SetResult, ControlUnchanged
<1>22. CASE EnableBackend
  BY <1>22 DEF EnableBackend, Installs, NoBackend, MarkFault, SetResult, ControlUnchanged
<1>38. CASE RollBack
  BY <1>38 DEF RollBack, NoBackend, MarkFault, SetResult, ControlUnchanged
<1>39. CASE FallBack
  BY <1>39 DEF FallBack, Installs
<1>40. CASE Undo
  BY <1>40 DEF Undo, NoBackend, MarkFault, SetResult, ControlUnchanged
<1>23. CASE PublishEnabled
  BY <1>23 DEF PublishEnabled, SetResult, ControlUnchanged
<1>24. CASE CloseGate
  BY <1>24 DEF CloseGate
<1>37. CASE CloseGateLater
  BY <1>37 DEF CloseGateLater
<1>25. CASE Drained
  BY <1>25 DEF Drained
<1>26. CASE DrainTimesOut
  BY <1>26 DEF DrainTimesOut, MarkFault, SetResult, ControlUnchanged
<1>27. CASE RemoveHooks
  BY <1>27 DEF RemoveHooks, SetResult, ControlUnchanged
<1>28. CASE Acknowledge
  BY <1>28 DEF Acknowledge, FrameEnds
<1>29. CASE StoreDrains
  BY <1>29 DEF StoreDrains
<1>30. CASE CommandFaults
  BY <1>30 DEF CommandFaults, FrameEnds, MarkFault, SetResult, ControlUnchanged
<1>31. CASE CallbackFaults
  BY <1>31 DEF CallbackFaults, Move, Runs, MarkFault, SetResult, ControlUnchanged
<1>32. ASSUME NEW t \in Threads, Callback(t) PROVE DllInv'
  BY <1>32 DEF Callback, Enter, EnterDpa, CountIn, CheckGate, CallOriginal,
       CountOut, Leave, Move
<1>33. CASE LoadDll
  BY <1>33 DEF LoadDll, FreshStatics
<1>34. CASE UnloadDll
  BY <1>34 DEF UnloadDll, FreshStatics, ProcessGone, FrameEnds
<1>35. CASE ExplorerExits
  BY <1>35 DEF ExplorerExits, ProcessGone, FreshStatics, FrameEnds
<1>36. CASE ExplorerStarts
  BY <1>36 DEF ExplorerStarts
<1> QED
  BY <1>1, <1>2, <1>3, <1>4, <1>5, <1>6, <1>7, <1>8, <1>9, <1>10, <1>11, <1>12,
       <1>13, <1>14, <1>15, <1>16, <1>17, <1>18,
     <1>19, <1>20, <1>21, <1>22, <1>23, <1>24, <1>25, <1>26, <1>27, <1>28, <1>29,
       <1>30, <1>31, <1>32, <1>33, <1>34, <1>35, <1>36, <1>37, <1>38, <1>39, <1>40
     DEF DelayedNext, Next, HostStep, PayloadStep

\* ProcessCommand executes the command that belongs to its sequence whenever the
\* host is waiting for that sequence.
LEMMA FrameInvStep ==
  ASSUME IInv, [DelayedNext]_vars PROVE FrameInv'
<1> USE DEF IInv, TypeOK, DataOK, HostInv, DllInv, FrameInv, GateInv,
           ResultInv, CaughtUp, AllAcknowledged, hostVars, blockVars, osVars, staticVars, frameVars,
           Statuses, HostPCs, DetachGoals, CommandGoals, Goals, Commands,
           PayloadStates, FramePCs, Stages, CommandOf, Attempting
<1>1. CASE UNCHANGED vars
  BY <1>1 DEF vars
<1>2. CASE BeginAttach
  BY <1>2 DEF BeginAttach, Call, HostOnly
<1>3. CASE BeginOff
  BY <1>3 DEF BeginOff, Call, HostOnly
<1>4. CASE BeginExplorerExited
  BY <1>4 DEF BeginExplorerExited, Call, HostOnly
<1>5. CASE AfterPreDetach
  BY <1>5 DEF AfterPreDetach, Call, Finish, HostOnly
<1>6. CASE AfterAttachDetach
  BY <1>6 DEF AfterAttachDetach, Call, HostOnly
<1>7. CASE OpenFails
  BY <1>7 DEF OpenFails, Call, HostOnly
<1>8. CASE Open
  BY <1>8 DEF Open, Call
<1>9. CASE AfterInit
  BY <1>9 DEF AfterInit, Call, HostOnly
<1>10. CASE AfterInitDetach
  BY <1>10 DEF AfterInitDetach, Call, HostOnly
<1>11. CASE AfterEnable
  BY <1>11 DEF AfterEnable, Call, Finish, HostOnly
<1>12. CASE AfterLastDetach
  BY <1>12 DEF AfterLastDetach, Finish, HostOnly
<1>13. CASE Detach
  BY <1>13 DEF Detach, HostOnly
<1>14. CASE WriteCommand
  BY <1>14 DEF WriteCommand
<1>15. CASE BumpSequence
  BY <1>15 DEF BumpSequence
<1>16. CASE Acknowledged
  BY <1>16 DEF Acknowledged, CommandReturns, HostOnly
<1>17. CASE TimesOut
  BY <1>17 DEF TimesOut, CommandReturns, HostOnly
<1>18. CASE Unhook
  BY <1>18 DEF Unhook
<1>19. CASE PickCommand
  BY <1>19 DEF PickCommand
<1>20. CASE ReadCommand
  BY <1>20 DEF ReadCommand
<1>21. CASE Resolve
  BY <1>21 DEF Resolve, SetResult, ControlUnchanged
<1>22. CASE EnableBackend
  BY <1>22 DEF EnableBackend, Installs, NoBackend, MarkFault, SetResult, ControlUnchanged
<1>38. CASE RollBack
  BY <1>38 DEF RollBack, NoBackend, MarkFault, SetResult, ControlUnchanged
<1>39. CASE FallBack
  BY <1>39 DEF FallBack, Installs
<1>40. CASE Undo
  BY <1>40 DEF Undo, NoBackend, MarkFault, SetResult, ControlUnchanged
<1>23. CASE PublishEnabled
  BY <1>23 DEF PublishEnabled, SetResult, ControlUnchanged
<1>24. CASE CloseGate
  BY <1>24 DEF CloseGate
<1>37. CASE CloseGateLater
  BY <1>37 DEF CloseGateLater
<1>25. CASE Drained
  BY <1>25 DEF Drained
<1>26. CASE DrainTimesOut
  BY <1>26 DEF DrainTimesOut, MarkFault, SetResult, ControlUnchanged
<1>27. CASE RemoveHooks
  BY <1>27 DEF RemoveHooks, SetResult, ControlUnchanged
<1>28. CASE Acknowledge
  BY <1>28 DEF Acknowledge, FrameEnds
<1>29. CASE StoreDrains
  BY <1>29 DEF StoreDrains
<1>30. CASE CommandFaults
  BY <1>30 DEF CommandFaults, FrameEnds, MarkFault, SetResult, ControlUnchanged
<1>31. CASE CallbackFaults
  BY <1>31 DEF CallbackFaults, Move, Runs, MarkFault, SetResult, ControlUnchanged
<1>32. ASSUME NEW t \in Threads, Callback(t) PROVE FrameInv'
  BY <1>32 DEF Callback, Enter, EnterDpa, CountIn, CheckGate, CallOriginal,
       CountOut, Leave, Move
<1>33. CASE LoadDll
  BY <1>33 DEF LoadDll, FreshStatics
<1>34. CASE UnloadDll
  BY <1>34 DEF UnloadDll, FreshStatics, ProcessGone, FrameEnds
<1>35. CASE ExplorerExits
  BY <1>35 DEF ExplorerExits, ProcessGone, FreshStatics, FrameEnds
<1>36. CASE ExplorerStarts
  BY <1>36 DEF ExplorerStarts
<1> QED
  BY <1>1, <1>2, <1>3, <1>4, <1>5, <1>6, <1>7, <1>8, <1>9, <1>10, <1>11, <1>12,
       <1>13, <1>14, <1>15, <1>16, <1>17, <1>18,
     <1>19, <1>20, <1>21, <1>22, <1>23, <1>24, <1>25, <1>26, <1>27, <1>28, <1>29,
       <1>30, <1>31, <1>32, <1>33, <1>34, <1>35, <1>36, <1>37, <1>38, <1>39, <1>40
     DEF DelayedNext, Next, HostStep, PayloadStep

\* The gate is open only over installed detours, and never after a fault.
LEMMA GateInvStep ==
  ASSUME IInv, [DelayedNext]_vars PROVE GateInv'
<1> USE DEF IInv, TypeOK, DataOK, HostInv, DllInv, FrameInv, GateInv,
           ResultInv, CaughtUp, AllAcknowledged, hostVars, blockVars, osVars, staticVars, frameVars,
           Statuses, HostPCs, DetachGoals, CommandGoals, Goals, Commands,
           PayloadStates, FramePCs, Stages, CommandOf, Attempting
<1>1. CASE UNCHANGED vars
  BY <1>1 DEF vars
<1>2. CASE BeginAttach
  BY <1>2 DEF BeginAttach, Call, HostOnly
<1>3. CASE BeginOff
  BY <1>3 DEF BeginOff, Call, HostOnly
<1>4. CASE BeginExplorerExited
  BY <1>4 DEF BeginExplorerExited, Call, HostOnly
<1>5. CASE AfterPreDetach
  BY <1>5 DEF AfterPreDetach, Call, Finish, HostOnly
<1>6. CASE AfterAttachDetach
  BY <1>6 DEF AfterAttachDetach, Call, HostOnly
<1>7. CASE OpenFails
  BY <1>7 DEF OpenFails, Call, HostOnly
<1>8. CASE Open
  BY <1>8 DEF Open, Call
<1>9. CASE AfterInit
  BY <1>9 DEF AfterInit, Call, HostOnly
<1>10. CASE AfterInitDetach
  BY <1>10 DEF AfterInitDetach, Call, HostOnly
<1>11. CASE AfterEnable
  BY <1>11 DEF AfterEnable, Call, Finish, HostOnly
<1>12. CASE AfterLastDetach
  BY <1>12 DEF AfterLastDetach, Finish, HostOnly
<1>13. CASE Detach
  BY <1>13 DEF Detach, HostOnly
<1>14. CASE WriteCommand
  BY <1>14 DEF WriteCommand
<1>15. CASE BumpSequence
  BY <1>15 DEF BumpSequence
<1>16. CASE Acknowledged
  BY <1>16 DEF Acknowledged, CommandReturns, HostOnly
<1>17. CASE TimesOut
  BY <1>17 DEF TimesOut, CommandReturns, HostOnly
<1>18. CASE Unhook
  BY <1>18 DEF Unhook
<1>19. CASE PickCommand
  BY <1>19 DEF PickCommand
<1>20. CASE ReadCommand
  BY <1>20 DEF ReadCommand
<1>21. CASE Resolve
  BY <1>21 DEF Resolve, SetResult, ControlUnchanged
<1>22. CASE EnableBackend
  BY <1>22 DEF EnableBackend, Installs, NoBackend, MarkFault, SetResult, ControlUnchanged
<1>38. CASE RollBack
  BY <1>38 DEF RollBack, NoBackend, MarkFault, SetResult, ControlUnchanged
<1>39. CASE FallBack
  BY <1>39 DEF FallBack, Installs
<1>40. CASE Undo
  BY <1>40 DEF Undo, NoBackend, MarkFault, SetResult, ControlUnchanged
<1>23. CASE PublishEnabled
  BY <1>23 DEF PublishEnabled, SetResult, ControlUnchanged
<1>24. CASE CloseGate
  BY <1>24 DEF CloseGate
<1>37. CASE CloseGateLater
  BY <1>37 DEF CloseGateLater
<1>25. CASE Drained
  BY <1>25 DEF Drained
<1>26. CASE DrainTimesOut
  BY <1>26 DEF DrainTimesOut, MarkFault, SetResult, ControlUnchanged
<1>27. CASE RemoveHooks
  BY <1>27 DEF RemoveHooks, SetResult, ControlUnchanged
<1>28. CASE Acknowledge
  BY <1>28 DEF Acknowledge, FrameEnds
<1>29. CASE StoreDrains
  BY <1>29 DEF StoreDrains
<1>30. CASE CommandFaults
  BY <1>30 DEF CommandFaults, FrameEnds, MarkFault, SetResult, ControlUnchanged
<1>31. CASE CallbackFaults
  BY <1>31 DEF CallbackFaults, Move, Runs, MarkFault, SetResult, ControlUnchanged
<1>32. ASSUME NEW t \in Threads, Callback(t) PROVE GateInv'
  BY <1>32 DEF Callback, Enter, EnterDpa, CountIn, CheckGate, CallOriginal,
       CountOut, Leave, Move
<1>33. CASE LoadDll
  BY <1>33 DEF LoadDll, FreshStatics
<1>34. CASE UnloadDll
  BY <1>34 DEF UnloadDll, FreshStatics, ProcessGone, FrameEnds
<1>35. CASE ExplorerExits
  BY <1>35 DEF ExplorerExits, ProcessGone, FreshStatics, FrameEnds
<1>36. CASE ExplorerStarts
  BY <1>36 DEF ExplorerStarts
<1> QED
  BY <1>1, <1>2, <1>3, <1>4, <1>5, <1>6, <1>7, <1>8, <1>9, <1>10, <1>11, <1>12,
       <1>13, <1>14, <1>15, <1>16, <1>17, <1>18,
     <1>19, <1>20, <1>21, <1>22, <1>23, <1>24, <1>25, <1>26, <1>27, <1>28, <1>29,
       <1>30, <1>31, <1>32, <1>33, <1>34, <1>35, <1>36, <1>37, <1>38, <1>39, <1>40
     DEF DelayedNext, Next, HostStep, PayloadStep

\* What an acknowledged command has done to the detours.
LEMMA ResultInvStep ==
  ASSUME IInv, [DelayedNext]_vars PROVE ResultInv'
<1> USE DEF IInv, TypeOK, DataOK, HostInv, DllInv, FrameInv, GateInv,
           ResultInv, CaughtUp, AllAcknowledged, hostVars, blockVars, osVars, staticVars, frameVars,
           Statuses, HostPCs, DetachGoals, CommandGoals, Goals, Commands,
           PayloadStates, FramePCs, Stages, CommandOf, Attempting
<1>1. CASE UNCHANGED vars
  BY <1>1 DEF vars
<1>2. CASE BeginAttach
  BY <1>2 DEF BeginAttach, Call, HostOnly
<1>3. CASE BeginOff
  BY <1>3 DEF BeginOff, Call, HostOnly
<1>4. CASE BeginExplorerExited
  BY <1>4 DEF BeginExplorerExited, Call, HostOnly
<1>5. CASE AfterPreDetach
  BY <1>5 DEF AfterPreDetach, Call, Finish, Unavailable, HostOnly
<1>6. CASE AfterAttachDetach
  BY <1>6 DEF AfterAttachDetach, Call, HostOnly
<1>7. CASE OpenFails
  BY <1>7 DEF OpenFails, Call, HostOnly
<1>8. CASE Open
  BY <1>8 DEF Open, Call
<1>9. CASE AfterInit
  BY <1>9 DEF AfterInit, Call, HostOnly
<1>10. CASE AfterInitDetach
  BY <1>10 DEF AfterInitDetach, Call, HostOnly
<1>11. CASE AfterEnable
  BY <1>11 DEF AfterEnable, Call, Finish, HostOnly
<1>12. CASE AfterLastDetach
  BY <1>12 DEF AfterLastDetach, Finish, Unavailable, HostOnly
<1>13. CASE Detach
  BY <1>13 DEF Detach, HostOnly
<1>14. CASE WriteCommand
  BY <1>14 DEF WriteCommand
<1>15. CASE BumpSequence
  BY <1>15 DEF BumpSequence
<1>16. CASE Acknowledged
  <2>1. AllAcknowledged /\ hooked /\ (hpc = "wait")
    BY <1>16 DEF Acknowledged
  <2>2. UNCHANGED <<blockVars, osVars, staticVars, frameVars, goal, status>>
    BY <1>16 DEF Acknowledged, CommandReturns, HostOnly
  <2>3. CASE hpc' = "unhook"
    <3>1. stale \/ (payloadState # "Faulted" /\ goal \in DetachGoals)
      BY <1>16, <2>3 DEF Acknowledged, CommandReturns
    <3> QED
      BY <2>1, <2>2, <2>3, <3>1
  <2>4. CASE hpc' = "return" /\ result' = (payloadState \notin {"Faulted", "Unsupported"})
    <3>1. result' /\ goal = "enable" /\ ~stale => CaughtUp /\ patched
      BY <2>1, <2>4
    <3> QED
      BY <2>1, <2>2, <2>4, <3>1
  <2> QED
    BY <1>16, <2>3, <2>4 DEF Acknowledged, CommandReturns
<1>17. CASE TimesOut
  BY <1>17 DEF TimesOut, CommandReturns, HostOnly
<1>18. CASE Unhook
  BY <1>18 DEF Unhook
<1>19. CASE PickCommand
  BY <1>19 DEF PickCommand
<1>20. CASE ReadCommand
  BY <1>20 DEF ReadCommand
<1>21. CASE Resolve
  BY <1>21 DEF Resolve, SetResult, ControlUnchanged
<1>22. CASE EnableBackend
  BY <1>22 DEF EnableBackend, Installs, NoBackend, MarkFault, SetResult, ControlUnchanged
<1>38. CASE RollBack
  BY <1>38 DEF RollBack, NoBackend, MarkFault, SetResult, ControlUnchanged
<1>39. CASE FallBack
  BY <1>39 DEF FallBack, Installs
<1>40. CASE Undo
  BY <1>40 DEF Undo, NoBackend, MarkFault, SetResult, ControlUnchanged
<1>23. CASE PublishEnabled
  BY <1>23 DEF PublishEnabled, SetResult, ControlUnchanged
<1>24. CASE CloseGate
  BY <1>24 DEF CloseGate
<1>37. CASE CloseGateLater
  BY <1>37 DEF CloseGateLater
<1>25. CASE Drained
  BY <1>25 DEF Drained
<1>26. CASE DrainTimesOut
  BY <1>26 DEF DrainTimesOut, MarkFault, SetResult, ControlUnchanged
<1>27. CASE RemoveHooks
  BY <1>27 DEF RemoveHooks, SetResult, ControlUnchanged
<1>28. CASE Acknowledge
  BY <1>28 DEF Acknowledge, FrameEnds
<1>29. CASE StoreDrains
  BY <1>29 DEF StoreDrains
<1>30. CASE CommandFaults
  BY <1>30 DEF CommandFaults, FrameEnds, MarkFault, SetResult, ControlUnchanged
<1>31. CASE CallbackFaults
  BY <1>31 DEF CallbackFaults, Move, Runs, MarkFault, SetResult, ControlUnchanged
<1>32. ASSUME NEW t \in Threads, Callback(t) PROVE ResultInv'
  BY <1>32 DEF Callback, Enter, EnterDpa, CountIn, CheckGate, CallOriginal,
       CountOut, Leave, Move
<1>33. CASE LoadDll
  BY <1>33 DEF LoadDll, FreshStatics
<1>34. CASE UnloadDll
  BY <1>34 DEF UnloadDll, FreshStatics, ProcessGone, FrameEnds
<1>35. CASE ExplorerExits
  BY <1>35 DEF ExplorerExits, ProcessGone, FreshStatics, FrameEnds
<1>36. CASE ExplorerStarts
  BY <1>36 DEF ExplorerStarts
<1> QED
  BY <1>1, <1>2, <1>3, <1>4, <1>5, <1>6, <1>7, <1>8, <1>9, <1>10, <1>11, <1>12,
       <1>13, <1>14, <1>15, <1>16, <1>17, <1>18,
     <1>19, <1>20, <1>21, <1>22, <1>23, <1>24, <1>25, <1>26, <1>27, <1>28, <1>29,
       <1>30, <1>31, <1>32, <1>33, <1>34, <1>35, <1>36, <1>37, <1>38, <1>39, <1>40
     DEF DelayedNext, Next, HostStep, PayloadStep

-----------------------------------------------------------------------------
(* Theorems.                                                               *)

\* The initial state satisfies the invariant.
LEMMA InitIInv == Init => IInv
<1> SUFFICES ASSUME Init PROVE IInv
  OBVIOUS
<1>1. FlagsOK
  BY Zenon DEF Init, FlagsOK
<1>2. DataOK
  BY SMT DEF Init, DataOK, Statuses, HostPCs, DetachGoals, CommandGoals, Goals,
         Commands, PayloadStates, FramePCs, Stages, Threads
<1>3. HostInv /\ DllInv /\ FrameInv /\ GateInv /\ ResultInv
  BY DEF Init, HostInv, DllInv, FrameInv, GateInv, ResultInv, AllAcknowledged, Attempting
<1> QED
  BY <1>1, <1>2, <1>3 DEF IInv, TypeOK

\* Every variable keeps its type, whatever the host, the payload, Explorer and
\* Windows do (all the actions of HookSession).
THEOREM TypeCorrect == Spec \/ DelayedSpec => []TypeOK
<1>0. [Next]_vars => [DelayedNext]_vars
  BY DEF DelayedNext
<1>1. Init => TypeOK
  BY InitIInv DEF IInv
<1>2. TypeOK /\ [DelayedNext]_vars => TypeOK'
  BY FlagsStep, DataStep DEF TypeOK
<1> QED
  BY <1>1, <1>2, <1>0, PTL DEF Spec, DelayedSpec

\* The chain from the host's writes to the state of the detours always holds.
THEOREM InductiveInvariant == Spec \/ DelayedSpec => []IInv
<1>0. [Next]_vars => [DelayedNext]_vars
  BY DEF DelayedNext
<1>1. IInv /\ [DelayedNext]_vars => IInv'
  <2> SUFFICES ASSUME IInv, [DelayedNext]_vars PROVE IInv'
    OBVIOUS
  <2>1. FlagsOK' /\ DataOK'
    BY FlagsStep, DataStep DEF IInv, TypeOK
  <2>2. HostInv' /\ DllInv' /\ FrameInv'
    BY HostInvStep, DllInvStep, FrameInvStep
  <2>3. GateInv' /\ ResultInv'
    BY GateInvStep, ResultInvStep
  <2> QED
    BY <2>1, <2>2, <2>3 DEF IInv, TypeOK
<1> QED
  BY InitIInv, <1>1, <1>0, PTL DEF Spec, DelayedSpec

\* While detours are installed the host's hook, and so the DLL, stays: Detach
\* (host/hook_loader.cpp) never unhooks an Explorer that is still patched.
THEOREM HooksKeepDllHolds == Spec \/ DelayedSpec => []HooksKeepDll
<1>1. IInv => HooksKeepDll
  BY DEF IInv, DllInv, HooksKeepDll
<1> QED
  BY InductiveInvariant, <1>1, PTL

\* A host at rest in Active has a patched Explorer: the acknowledgement that
\* AttachIfPossible (host/app.cpp) acts on is that of its own Enable.
THEOREM ActiveMeansHookedHolds == Spec \/ DelayedSpec => []ActiveMeansHooked
<1>1. IInv => ActiveMeansHooked
  BY DEF IInv, ResultInv, CaughtUp, ActiveMeansHooked
<1> QED
  BY InductiveInvariant, <1>1, PTL

\* MarkFault (payload/payload_state.cpp) is final for the loaded DLL: no later
\* session's Enable opens the gate again.
THEOREM FaultContainedHolds == Spec \/ DelayedSpec => []FaultContained
<1>1. IInv => FaultContained
  BY DEF IInv, GateInv, FaultContained
<1> QED
  BY InductiveInvariant, <1>1, PTL

-----------------------------------------------------------------------------
(* The drain.                                                              *)

\* The drain has seen a count of zero: no thread is counted.
LEMMA NobodyCounted ==
  ASSUME activeCallbacks = 0 PROVE \A t \in Threads : ~Counted(t)
<1> DEFINE S == {t \in Threads : Counted(t)}
<1>1. IsFiniteSet(Threads)
  <2>1. IsFiniteSet(OtherThreads \cup {Taskbar})
    BY ThreadAssumption, FS_AddElement
  <2>2. Threads = OtherThreads \cup {Taskbar}
    BY DEF Threads
  <2> QED
    BY <2>1, <2>2
<1>2. IsFiniteSet(S)
  BY <1>1, FS_Subset
<1>3. S = {}
  BY <1>2, FS_EmptySet DEF activeCallbacks
<1> QED
  BY <1>3

\* Without a delayed store nothing is ever buffered.
QuietInv == ~buffered /\ RemovalQuiesced

\* Between the drain and the removal the gate is closed, so nobody new gets in.
LEMMA QuietStep ==
  ASSUME IInv, QuietInv, [Next]_vars PROVE QuietInv'
<1> USE DEF QuietInv, RemovalQuiesced
<1> DEFINE Still == UNCHANGED <<buffered, pc, stage>>
<1>1. ASSUME Still PROVE QuietInv'
  BY <1>1
<1>2. CASE UNCHANGED vars
  BY <1>1, <1>2 DEF vars, staticVars, frameVars
<1>3. CASE BeginAttach \/ BeginOff \/ BeginExplorerExited
  BY <1>1, <1>3 DEF BeginAttach, BeginOff, BeginExplorerExited, HostOnly, staticVars,
     frameVars
<1>4. CASE HostStep
  <2>1. UNCHANGED <<staticVars, frameVars, stage>>
    BY <1>4, Zenon DEF HostStep, AfterPreDetach, AfterAttachDetach, OpenFails, Open,
       AfterInit, AfterInitDetach, AfterEnable, AfterLastDetach, Detach,
       WriteCommand, BumpSequence, Acknowledged, TimesOut, CommandReturns, Unhook,
       HostOnly
  <2> QED
    BY <1>1, <2>1 DEF staticVars, frameVars
<1>5. CASE PickCommand \/ ReadCommand
  BY <1>5 DEF PickCommand, ReadCommand, staticVars
<1>6. CASE Resolve \/ EnableBackend \/ RollBack \/ FallBack \/ Undo
  <2>1. pc' # "remove"
    BY <1>6 DEF Resolve, EnableBackend, RollBack, FallBack, Undo, Installs, NoBackend
  <2>2. ~buffered'
    BY <1>6 DEF Resolve, EnableBackend, RollBack, FallBack, Undo, Installs, NoBackend,
       MarkFault, staticVars
  <2> QED
    BY <2>1, <2>2
<1>7. CASE PublishEnabled \/ CloseGate
  BY <1>7 DEF PublishEnabled, CloseGate
<1>8. CASE Drained
  BY <1>8, NobodyCounted DEF Drained, Counted, staticVars
<1>9. CASE DrainTimesOut \/ RemoveHooks
  BY <1>9 DEF DrainTimesOut, RemoveHooks, MarkFault
<1>10. CASE Acknowledge \/ CommandFaults
  <2>1. pc' # "remove"
    BY <1>10 DEF Acknowledge, CommandFaults, FrameEnds
  <2>2. ~buffered'
    BY <1>10 DEF Acknowledge, CommandFaults, MarkFault, staticVars
  <2> QED
    BY <2>1, <2>2
<1>11. ASSUME NEW t \in Threads, Callback(t) PROVE QuietInv'
  <2>1. UNCHANGED <<buffered, pc>>
    BY <1>11, Zenon DEF Callback, Enter, EnterDpa, CountIn, CheckGate, CallOriginal,
       CountOut, Leave, Move, frameVars
  <2>2. pc = "remove" => ~enabled
    BY DEF IInv, GateInv
  <2>3. \/ enabled
        \/ \E s \in {"entered", "dpa", "counted", "passing", "leaving", "out"} :
              stage' = [stage EXCEPT ![t] = s]
    BY <1>11 DEF Callback, Enter, EnterDpa, CountIn, CheckGate, CallOriginal,
       CountOut, Leave, Move
  <2>4. stage \in [Threads -> Stages]
    BY DEF IInv, TypeOK, DataOK
  <2> QED
    BY <2>1, <2>2, <2>3, <2>4
<1>12. CASE CallbackFaults
  <2>1. stage \in [Threads -> Stages]
    BY DEF IInv, TypeOK, DataOK
  <2> QED
    BY <1>12, <2>1 DEF CallbackFaults, Move, MarkFault, frameVars, Threads
<1>13. CASE LoadDll \/ ExplorerStarts
  BY <1>13 DEF LoadDll, ExplorerStarts, FreshStatics, staticVars, frameVars
<1>14. CASE UnloadDll \/ ExplorerExits
  BY <1>14 DEF UnloadDll, ExplorerExits, ProcessGone, FreshStatics, FrameEnds, frameVars
<1> QED
  BY <1>2, <1>3, <1>4, <1>5, <1>6, <1>7, <1>8, <1>9, <1>10, <1>11, <1>12, <1>13,
     <1>14 DEF Next, PayloadStep

\* PrepareUnload (payload/payload_state.cpp:152-164) removes the detours when no
\* thread is in custom logic, however many threads there are. Of Spec, not of
\* DelayedSpec: with the store delayed it does not hold.
THEOREM RemovalQuiescedHolds == Spec => []RemovalQuiesced
<1>1. Init => QuietInv
  BY DEF Init, QuietInv, RemovalQuiesced
<1>2. IInv /\ QuietInv /\ [Next]_vars => QuietInv'
  BY QuietStep
<1>3. QuietInv => RemovalQuiesced
  BY DEF QuietInv
<1> QED
  BY InductiveInvariant, <1>1, <1>2, <1>3, PTL DEF Spec

\* With the gate closed and no fault nobody is in custom logic once the drain is
\* over; a gate closed by a fault leaves the detours where they are.
LogicInv ==
    /\ \A t \in Threads : stage[t] = "gated" => patched
    /\ ~enabled /\ ~faulted /\ pc # "drain" => \A t \in Threads : stage[t] # "gated"

\* Removal, rollback and a failed Enable take detours from nobody's custom logic.
LEMMA LogicStep ==
  ASSUME IInv, QuietInv, LogicInv, [Next]_vars PROVE LogicInv'
<1> USE DEF LogicInv
<1> DEFINE Still == UNCHANGED <<enabled, faulted, patched, pc, stage>>
<1>1. ASSUME Still PROVE LogicInv'
  BY <1>1
<1>0. /\ ~buffered
      /\ pc = "remove" => \A t \in Threads : stage[t] # "gated"
      /\ enabled => ~faulted
      /\ enabled => patched
      /\ pc = "publish" => patched
      /\ pc \in Attempting => ~enabled /\ ~faulted
  BY DEF QuietInv, RemovalQuiesced, IInv, GateInv
<1>2. CASE UNCHANGED vars
  BY <1>1, <1>2 DEF vars, staticVars, frameVars
<1>3. CASE BeginAttach \/ BeginOff \/ BeginExplorerExited
  BY <1>1, <1>3 DEF BeginAttach, BeginOff, BeginExplorerExited, HostOnly, staticVars,
     frameVars
<1>4. CASE HostStep
  <2>1. UNCHANGED <<staticVars, frameVars, stage>>
    BY <1>4, Zenon DEF HostStep, AfterPreDetach, AfterAttachDetach, OpenFails, Open,
       AfterInit, AfterInitDetach, AfterEnable, AfterLastDetach, Detach,
       WriteCommand, BumpSequence, Acknowledged, TimesOut, CommandReturns, Unhook,
       HostOnly
  <2> QED
    BY <1>1, <2>1 DEF staticVars, frameVars
<1>5. CASE PickCommand \/ ReadCommand \/ Resolve
  BY <1>5 DEF PickCommand, ReadCommand, Resolve, staticVars
<1>6. CASE EnableBackend
  BY <1>6 DEF EnableBackend, Installs, NoBackend, MarkFault, staticVars
<1>7. CASE RollBack \/ FallBack \/ Undo
  BY <1>0, <1>7 DEF RollBack, FallBack, Undo, Installs, NoBackend, MarkFault, Attempting
<1>8. CASE PublishEnabled \/ CloseGate
  BY <1>0, <1>8 DEF PublishEnabled, CloseGate
<1>9. CASE Drained
  BY <1>9, NobodyCounted DEF Drained, Counted, staticVars
<1>10. CASE DrainTimesOut
  BY <1>10 DEF DrainTimesOut, MarkFault
<1>11. CASE RemoveHooks
  BY <1>0, <1>11 DEF RemoveHooks
<1>12. CASE Acknowledge
  BY <1>12 DEF Acknowledge, FrameEnds, staticVars
<1>13. CASE CommandFaults
  <2>1. patched' = patched \/ patched' = TRUE \/ \A t \in Threads : stage[t] # "gated"
    BY <1>0, <1>13 DEF CommandFaults, Attempting
  <2>2. faulted' /\ stage' = stage
    BY <1>13 DEF CommandFaults, MarkFault
  <2> QED
    BY <2>1, <2>2
<1>14. ASSUME NEW t \in Threads, Callback(t) PROVE LogicInv'
  <2>1. UNCHANGED <<enabled, faulted, patched, pc>>
    BY <1>14, Zenon DEF Callback, Enter, EnterDpa, CountIn, CheckGate, CallOriginal,
       CountOut, Leave, Move, frameVars
  <2>2. \/ enabled
        \/ \E s \in {"entered", "dpa", "counted", "passing", "leaving", "out"} :
              stage' = [stage EXCEPT ![t] = s]
    BY <1>14 DEF Callback, Enter, EnterDpa, CountIn, CheckGate, CallOriginal,
       CountOut, Leave, Move
  <2>3. stage \in [Threads -> Stages]
    BY DEF IInv, TypeOK, DataOK
  <2> QED
    BY <1>0, <2>1, <2>2, <2>3
<1>15. CASE CallbackFaults
  <2>1. stage \in [Threads -> Stages]
    BY DEF IInv, TypeOK, DataOK
  <2> QED
    BY <1>15, <2>1 DEF CallbackFaults, Move, MarkFault, Threads
<1>16. CASE LoadDll
  <2>1. ~patched
    BY <1>16 DEF LoadDll, IInv, DllInv
  <2> QED
    BY <1>16, <2>1 DEF LoadDll, FreshStatics
<1>17. CASE ExplorerStarts
  BY <1>1, <1>17 DEF ExplorerStarts, staticVars, frameVars
<1>18. CASE UnloadDll
  BY <1>18 DEF UnloadDll, ProcessGone, FreshStatics
<1>19. CASE ExplorerExits
  BY <1>19 DEF ExplorerExits, ProcessGone, FreshStatics
<1> QED
  BY <1>2, <1>3, <1>4, <1>5, <1>6, <1>7, <1>8, <1>9, <1>10, <1>11, <1>12, <1>13,
     <1>14, <1>15, <1>16, <1>17, <1>18, <1>19 DEF Next, PayloadStep

\* Whoever runs custom logic has the detours, and with them the trampoline to the
\* original, still in place: neither PrepareUnload nor the rollback of a failed
\* Commit (payload/payload_state.cpp:122-170) takes them from under it, however
\* many threads there are.  Of Spec: with the gate's store delayed it does not hold.
THEOREM CustomLogicKeptHolds == Spec => []CustomLogicKept
<1>1. Init => QuietInv /\ LogicInv
  BY DEF Init, QuietInv, RemovalQuiesced, LogicInv
<1>2. IInv /\ QuietInv /\ LogicInv /\ [Next]_vars => QuietInv' /\ LogicInv'
  BY QuietStep, LogicStep
<1>3. IInv /\ LogicInv => CustomLogicKept
  BY DEF IInv, DllInv, LogicInv, CustomLogicKept
<1> QED
  BY InductiveInvariant, <1>1, <1>2, <1>3, PTL DEF Spec

-----------------------------------------------------------------------------
(* The contract: which steps touch the detours, the gate or the answer.    *)

USE DEF Detours!vars

\* What the contract's state is made of.
contractState == <<patched, enabled, faulted, payloadState>>

\* The host's steps but one, and those of a command that only move it on.
LEMMA ElsewhereRefines ==
  ASSUME UNCHANGED contractState
  PROVE  [Detours!Next]_(Detours!vars)
  BY DEF contractState, Answer

LEMMA HostRefines ==
  ASSUME BeginAttach \/ BeginOff \/ BeginExplorerExited \/ HostStep
  PROVE  [Detours!Next]_(Detours!vars)
<1>1. CASE Open
  BY <1>1 DEF Open, staticVars, Answer, Detours!Forget, Detours!Next
<1>2. CASE BeginAttach \/ BeginOff \/ BeginExplorerExited \/ AfterPreDetach
           \/ AfterAttachDetach \/ OpenFails \/ AfterInit \/ AfterInitDetach \/ AfterEnable
           \/ AfterLastDetach \/ Detach
  <2>1. HostOnly
    BY <1>2, Zenon DEF BeginAttach, BeginOff, BeginExplorerExited, AfterPreDetach,
       AfterAttachDetach, OpenFails, AfterInit, AfterInitDetach, AfterEnable,
       AfterLastDetach, Detach
  <2> QED
    BY <2>1, ElsewhereRefines DEF HostOnly, blockVars, staticVars, contractState
<1>3. CASE WriteCommand \/ BumpSequence \/ Acknowledged \/ TimesOut \/ Unhook
  <2>1. UNCHANGED staticVars /\ payloadState' = payloadState
    BY <1>3, Zenon DEF WriteCommand, BumpSequence, Acknowledged, TimesOut, CommandReturns,
       HostOnly, Unhook, blockVars
  <2> QED
    BY <2>1, ElsewhereRefines DEF staticVars, contractState
<1> QED
  BY <1>1, <1>2, <1>3 DEF HostStep

\* Enable, with its attempts: detours come and go behind the closed gate.
LEMMA EnableRefines ==
  ASSUME IInv, EnableBackend \/ RollBack \/ FallBack \/ Undo \/ PublishEnabled
  PROVE  [Detours!Next]_(Detours!vars)
<1> USE DEF Answer, MarkFault, SetResult, Detours!Next
<1>1. /\ enabled => patched /\ ~faulted
      /\ pc = "publish" => patched /\ ~faulted
      /\ pc \in Attempting => ~enabled /\ ~faulted
      /\ enabled \in BOOLEAN /\ faulted \in BOOLEAN /\ patched \in BOOLEAN
  BY DEF IInv, GateInv, TypeOK, FlagsOK
<1>2. CASE EnableBackend
  BY <1>1, <1>2 DEF EnableBackend, Installs, NoBackend, blockVars, staticVars,
     Detours!Alter, Detours!Confirm, Detours!Fault
<1>3. CASE RollBack \/ FallBack \/ Undo
  BY <1>1, <1>3 DEF RollBack, FallBack, Undo, Installs, NoBackend, Attempting, blockVars,
     Detours!Alter, Detours!Fault
<1>4. CASE PublishEnabled
  BY <1>1, <1>4 DEF PublishEnabled, Detours!Open, Detours!Confirm
<1> QED
  BY <1>2, <1>3, <1>4

\* PrepareUnload: the gate closes first, and whatever a drain that takes too long or
\* an exception leaves behind stays behind it.
LEMMA UnloadRefines ==
  ASSUME IInv, QuietInv,
         CloseGate \/ Drained \/ DrainTimesOut \/ RemoveHooks \/ CommandFaults
  PROVE  [Detours!Next]_(Detours!vars)
<1> USE DEF Answer, MarkFault, SetResult, Detours!Next
<1>1. /\ pc = "remove" => ~enabled
      /\ pc \in Attempting => ~enabled /\ ~faulted
      /\ enabled \in BOOLEAN /\ faulted \in BOOLEAN /\ patched \in BOOLEAN
  BY DEF QuietInv, IInv, GateInv, TypeOK, FlagsOK
<1>2. CASE CloseGate
  BY <1>1, <1>2 DEF CloseGate, blockVars, Detours!Close
<1>3. CASE Drained
  BY <1>3, ElsewhereRefines DEF Drained, blockVars, staticVars, contractState
<1>4. CASE DrainTimesOut
  BY <1>4 DEF DrainTimesOut, Detours!Fault
<1>5. CASE RemoveHooks
  BY <1>1, <1>5 DEF RemoveHooks, Detours!Unload
<1>6. CASE CommandFaults
  <2>1. patched' = patched \/ (~enabled /\ (patched' = FALSE \/ ~faulted))
    BY <1>1, <1>6 DEF CommandFaults, Attempting
  <2> QED
    BY <1>6, <2>1 DEF CommandFaults, Detours!Fault
<1> QED
  BY <1>2, <1>3, <1>4, <1>5, <1>6

\* The rest of ProcessCommand, and the callbacks.
LEMMA CallbacksRefine ==
  ASSUME \/ PickCommand \/ ReadCommand \/ Resolve \/ Acknowledge \/ CallbackFaults
         \/ \E t \in Threads : Callback(t)
  PROVE  [Detours!Next]_(Detours!vars)
<1>1. CASE PickCommand \/ ReadCommand \/ Acknowledge
  BY <1>1, ElsewhereRefines DEF PickCommand, ReadCommand, Acknowledge, blockVars,
     staticVars, contractState
<1>2. CASE Resolve
  BY <1>2 DEF Resolve, SetResult, staticVars, Answer, Detours!Forget, Detours!Next
<1>3. CASE CallbackFaults
  BY <1>3 DEF CallbackFaults, Move, MarkFault, SetResult, Answer, Detours!Fault,
     Detours!Next
<1>4. ASSUME NEW t \in Threads, Callback(t) PROVE UNCHANGED contractState
  BY <1>4, Zenon DEF Callback, Enter, EnterDpa, CountIn, CheckGate, CallOriginal, CountOut,
     Leave, Move, blockVars, contractState
<1> QED
  BY <1>1, <1>2, <1>3, <1>4, ElsewhereRefines

\* A DLL that is loaded or gone knows of no fault.
LEMMA WindowsRefines ==
  ASSUME LoadDll \/ UnloadDll \/ ExplorerExits \/ ExplorerStarts
  PROVE  [Detours!Next]_(Detours!vars)
<1>1. CASE LoadDll \/ UnloadDll \/ ExplorerExits
  <2>1. FreshStatics /\ payloadState' = payloadState
    BY <1>1, Zenon DEF LoadDll, UnloadDll, ExplorerExits, ProcessGone, blockVars
  <2> QED
    BY <2>1 DEF FreshStatics, Answer, Detours!Fresh, Detours!Next
<1>2. CASE ExplorerStarts
  BY <1>2, ElsewhereRefines DEF ExplorerStarts, blockVars, staticVars, contractState
<1> QED
  BY <1>1, <1>2

\* The payload keeps its contract under every interleaving with the host, its own
\* callbacks and the end of Explorer.  Of Spec: a gate whose store is delayed is
\* open while the detours go.
THEOREM ContractHolds == Spec => Contract
<1>1. Init => Detours!Init /\ QuietInv
  BY DEF Init, QuietInv, RemovalQuiesced, Detours!Init, Answer
<1>2. IInv /\ QuietInv /\ [Next]_vars => QuietInv'
  BY QuietStep
<1>3. IInv /\ QuietInv /\ [Next]_vars => [Detours!Next]_(Detours!vars)
  <2> SUFFICES ASSUME IInv, QuietInv, [Next]_vars PROVE [Detours!Next]_(Detours!vars)
    OBVIOUS
  <2>1. CASE UNCHANGED vars
    BY <2>1, ElsewhereRefines DEF vars, blockVars, staticVars, contractState
  <2> QED
    BY <2>1, HostRefines, EnableRefines, UnloadRefines, CallbacksRefine, WindowsRefines
    DEF Next, PayloadStep
<1> QED
  BY InductiveInvariant, <1>1, <1>2, <1>3, PTL DEF Spec, Contract, Detours!Spec

-----------------------------------------------------------------------------
(* Progress: the ranks.                                                    *)

\* Nobody but the host moves the host.
LEMMA OthersLeaveHost ==
  ASSUME [DelayedNext]_vars, ~HostStep, hpc # "idle"
  PROVE  UNCHANGED <<hpc, goal>>
<1> USE DEF hostVars
<1>1. CASE UNCHANGED vars
  BY <1>1, Zenon DEF vars
<1>2. CASE BeginAttach \/ BeginOff \/ BeginExplorerExited
  BY <1>2, Zenon DEF BeginAttach, BeginOff, BeginExplorerExited
<1>3. CASE PickCommand \/ PayloadStep \/ CommandFaults \/ CloseGateLater \/ StoreDrains
  BY <1>3, Zenon DEF PickCommand, PayloadStep, CommandFaults, CloseGateLater, StoreDrains,
     ReadCommand, Resolve, EnableBackend, RollBack, FallBack, Undo, PublishEnabled,
     CloseGate, Drained, DrainTimesOut, RemoveHooks, Acknowledge
<1>4. ASSUME NEW t \in Threads, Callback(t) PROVE UNCHANGED <<hpc, goal>>
  BY <1>4, Zenon DEF Callback, Enter, EnterDpa, CountIn, CheckGate, CallOriginal, CountOut,
     Leave, Move
<1>5. CASE CallbackFaults \/ LoadDll \/ UnloadDll \/ ExplorerExits \/ ExplorerStarts
  BY <1>5, Zenon DEF CallbackFaults, Move, LoadDll, UnloadDll, ExplorerExits, ExplorerStarts,
     ProcessGone
<1> QED
  BY <1>1, <1>2, <1>3, <1>4, <1>5 DEF DelayedNext, Next

\* Every step of a handler of App goes on to a later call or further in this one:
\* the chain AttachIfPossible runs through has at most five calls, none made twice.
THEOREM HandlerShrinksHolds == Spec \/ DelayedSpec => HandlerShrinks
<1>0. [Next]_vars => [DelayedNext]_vars
  BY DEF DelayedNext
<1>1. ASSUME IInv, [DelayedNext]_vars, HostStep PROVE HostRank' < HostRank
  <2> USE DEF HostRank, GoalRank, CallRank, Call, Finish, DetachGoals, CommandGoals
  <2>0. /\ goal \in Goals /\ (hpc \in {"detach", "unhook"} => goal \in DetachGoals)
        /\ hpc = "open" => goal = "attachDetach"
    BY <1>1 DEF IInv, TypeOK, DataOK, HostInv
  <2>1. CASE AfterPreDetach
    BY <2>1 DEF AfterPreDetach
  <2>2. CASE AfterAttachDetach \/ OpenFails \/ Open
    BY <2>0, <2>2 DEF AfterAttachDetach, OpenFails, Open
  <2>3. CASE AfterInit \/ AfterInitDetach
    BY <2>3 DEF AfterInit, AfterInitDetach
  <2>4. CASE AfterEnable
    BY <2>4 DEF AfterEnable
  <2>5. CASE AfterLastDetach
    BY <2>0, <2>5 DEF AfterLastDetach
  <2>6. CASE Detach \/ WriteCommand \/ BumpSequence
    BY <2>0, <2>6 DEF Detach, WriteCommand, BumpSequence, Goals
  <2>7. CASE Acknowledged \/ TimesOut
    BY <2>0, <2>7 DEF Acknowledged, TimesOut, CommandReturns, Goals
  <2>8. CASE Unhook
    BY <2>0, <2>8 DEF Unhook, Goals
  <2> QED
    BY <1>1, <2>1, <2>2, <2>3, <2>4, <2>5, <2>6, <2>7, <2>8 DEF HostStep
<1>2. IInv /\ [DelayedNext]_vars =>
         IF HostStep THEN HostRank' < HostRank ELSE hpc # "idle" => UNCHANGED <<hpc, goal>>
  BY <1>1, OthersLeaveHost
<1> QED
  BY InductiveInvariant, <1>0, <1>2, PTL DEF Spec, DelayedSpec, HandlerShrinks

\* Every step of ProcessCommand is a later one of it, on every path through its
\* branches: the drain, the removal and both backends' attempts come to an end.
THEOREM CommandShrinksHolds == Spec => CommandShrinks
<1>1. ASSUME PayloadStep PROVE CommandRank' < CommandRank
  <2> USE DEF CommandRank
  <2>1. CASE ReadCommand \/ Resolve \/ PublishEnabled \/ CloseGate \/ Drained
    BY <2>1 DEF ReadCommand, Resolve, PublishEnabled, CloseGate, Drained
  <2>2. CASE EnableBackend \/ RollBack \/ FallBack \/ Undo
    BY <2>2 DEF EnableBackend, RollBack, FallBack, Undo, Installs, NoBackend
  <2>3. CASE DrainTimesOut \/ RemoveHooks \/ Acknowledge
    BY <2>3 DEF DrainTimesOut, RemoveHooks, Acknowledge, FrameEnds
  <2> QED
    BY <1>1, <2>1, <2>2, <2>3 DEF PayloadStep
<1>2. ASSUME [Next]_vars, ~PayloadStep, pc # "none" PROVE pc' \in {pc, "none"}
  <2>1. CASE UNCHANGED vars
    BY <2>1, Zenon DEF vars, frameVars
  <2>2. CASE BeginAttach \/ BeginOff \/ BeginExplorerExited
    BY <2>2, Zenon DEF BeginAttach, BeginOff, BeginExplorerExited, HostOnly, frameVars
  <2>3. CASE HostStep
    BY <2>3, Zenon DEF HostStep, AfterPreDetach, AfterAttachDetach, OpenFails, Open,
       AfterInit, AfterInitDetach, AfterEnable, AfterLastDetach, Detach, WriteCommand,
       BumpSequence, Acknowledged, TimesOut, CommandReturns, Unhook, HostOnly, frameVars
  <2>4. CASE PickCommand
    BY <1>2, <2>4, Zenon DEF PickCommand
  <2>5. CASE CommandFaults \/ LoadDll \/ ExplorerStarts
    BY <2>5, Zenon DEF CommandFaults, LoadDll, ExplorerStarts, FrameEnds, frameVars
  <2>6. CASE UnloadDll \/ ExplorerExits
    BY <1>2, <2>6, Zenon DEF UnloadDll, ExplorerExits, ProcessGone, FrameEnds
  <2>7. CASE CallbackFaults
    BY <2>7, Zenon DEF CallbackFaults, Move, frameVars
  <2>8. ASSUME NEW t \in Threads, Callback(t) PROVE pc' = pc
    BY <2>8, Zenon DEF Callback, Enter, EnterDpa, CountIn, CheckGate, CallOriginal,
       CountOut, Leave, Move, frameVars
  <2> QED
    BY <1>2, <2>1, <2>2, <2>3, <2>4, <2>5, <2>6, <2>7, <2>8 DEF Next
<1>3. [Next]_vars =>
         IF PayloadStep THEN CommandRank' < CommandRank
         ELSE pc # "none" => pc' \in {pc, "none"}
  BY <1>1, <1>2
<1> QED
  BY <1>3, PTL DEF Spec, CommandShrinks

-----------------------------------------------------------------------------
(* What the sequence numbers of two sessions have to do with each other.   *)

\* A session counts from one, and at least to two before it is unhooked: with one
\* for its Initialize, and more for its Detach.
CountInv ==
    /\ hooked => (commandSequence = 0 <=> goal = "init" /\ hpc \in {"write", "bump"})
    /\ hpc \in {"wait", "unhook"} /\ goal \in DetachGoals => commandSequence > 1

\* So no number that is kept over a session is that of a new one's Initialize; and
\* the Enable after it has the number after the one that was acknowledged.
SeenInv ==
    /\ loaded /\ ~hooked => lastCommand # 1
    /\ loaded /\ goal \in CommandGoals
              /\ (hpc \in {"write", "bump"} \/ (hpc = "return" /\ result))
         => lastCommand # commandSequence + 1
    /\ FreshCommandSeen

\* The host alone counts.
LEMMA CountStep ==
  ASSUME IInv, CountInv, [DelayedNext]_vars PROVE CountInv'
<1> USE DEF CountInv, hostVars, blockVars, osVars, DetachGoals
<1>1. ASSUME UNCHANGED <<hpc, goal, commandSequence>>, hooked' = hooked PROVE CountInv'
  BY <1>1
<1>2. CASE UNCHANGED vars
  BY <1>1, <1>2 DEF vars
<1>3. commandSequence \in Nat
  BY DEF IInv, TypeOK, DataOK
<1>4. /\ hpc \in {"write", "bump", "wait", "unhook"} => hooked
      /\ hpc \in {"detach", "unhook"} => goal \in DetachGoals
      /\ hpc = "open" => ~hooked
      /\ hpc = "return" /\ goal \in CommandGoals => hooked
  BY DEF IInv, HostInv
<1>5. CASE BeginAttach \/ BeginOff \/ BeginExplorerExited
  BY <1>3, <1>4, <1>5 DEF BeginAttach, BeginOff, BeginExplorerExited, Call, HostOnly
<1>6. CASE AfterPreDetach \/ AfterAttachDetach \/ OpenFails
  BY <1>3, <1>4, <1>6 DEF AfterPreDetach, AfterAttachDetach, OpenFails, Call, Finish, HostOnly
<1>7. CASE Open
  BY <1>7 DEF Open, Call
<1>8. CASE AfterInit \/ AfterInitDetach \/ AfterEnable \/ AfterLastDetach
  BY <1>3, <1>4, <1>8 DEF AfterInit, AfterInitDetach, AfterEnable, AfterLastDetach, Call,
     Finish, HostOnly
<1>9. CASE Detach \/ WriteCommand
  BY <1>3, <1>4, <1>9 DEF Detach, WriteCommand, HostOnly
<1>10. CASE BumpSequence
  BY <1>3, <1>4, <1>10 DEF BumpSequence
<1>11. CASE Acknowledged \/ TimesOut
  BY <1>3, <1>4, <1>11 DEF Acknowledged, TimesOut, CommandReturns, HostOnly
<1>12. CASE Unhook
  BY <1>3, <1>4, <1>12 DEF Unhook
<1>13. CASE PickCommand \/ PayloadStep \/ CommandFaults \/ CloseGateLater \/ StoreDrains
  BY <1>1, <1>13, Zenon DEF PickCommand, PayloadStep, CommandFaults, CloseGateLater,
     StoreDrains, ReadCommand, Resolve, EnableBackend, RollBack, FallBack, Undo, Installs,
     NoBackend, PublishEnabled, CloseGate, Drained,
     DrainTimesOut, RemoveHooks, Acknowledge, MarkFault, SetResult, ControlUnchanged
<1>14. ASSUME NEW t \in Threads, Callback(t) PROVE CountInv'
  BY <1>1, <1>14, Zenon DEF Callback, Enter, EnterDpa, CountIn, CheckGate, CallOriginal,
     CountOut, Leave, Move
<1>15. CASE CallbackFaults \/ LoadDll \/ ExplorerStarts
  BY <1>1, <1>15, Zenon DEF CallbackFaults, LoadDll, ExplorerStarts, Move, MarkFault,
     SetResult, ControlUnchanged
<1>16. CASE UnloadDll \/ ExplorerExits
  BY <1>1, <1>16, Zenon DEF UnloadDll, ExplorerExits, ProcessGone
<1> QED
  BY <1>2, <1>5, <1>6, <1>7, <1>8, <1>9, <1>10, <1>11, <1>12, <1>13, <1>14, <1>15, <1>16
     DEF DelayedNext, Next, HostStep

\* What the payload has last looked at.
LEMMA SeenStep ==
  ASSUME IInv, CountInv, SeenInv, [DelayedNext]_vars PROVE SeenInv'
<1> USE DEF SeenInv, FreshCommandSeen, hostVars, blockVars, osVars, staticVars, frameVars
<1>1. /\ commandSequence \in Nat /\ lastCommand \in Nat /\ acknowledgedSequence \in Nat
      /\ acknowledgedSequence <= commandSequence
      /\ curSequence \in Nat /\ hpc \in HostPCs /\ goal \in Goals
      /\ pc # "none" => loaded /\ hooked /\ curSequence = lastCommand
      /\ stale => ~loaded
  BY DEF IInv, TypeOK, DataOK, FrameInv, DllInv
<1>2. CASE UNCHANGED vars
  BY <1>2 DEF vars
<1>3. CASE BeginAttach \/ BeginOff \/ BeginExplorerExited
  BY <1>3 DEF BeginAttach, BeginOff, BeginExplorerExited, Call, HostOnly, CommandGoals,
     DetachGoals
<1>4. CASE AfterPreDetach \/ AfterAttachDetach \/ OpenFails
  BY <1>4 DEF AfterPreDetach, AfterAttachDetach, OpenFails, Call, Finish, HostOnly,
     CommandGoals, DetachGoals
<1>5. CASE Open
  <2>1. hpc = "open" /\ ~hooked
    BY <1>5 DEF Open, IInv, HostInv
  <2> QED
    BY <1>1, <1>5, <2>1 DEF Open, Call, CommandGoals, DetachGoals
<1>6. CASE AfterInit
  BY <1>6 DEF AfterInit, Call, HostOnly, CommandGoals, DetachGoals
<1>7. CASE AfterInitDetach \/ AfterEnable \/ AfterLastDetach
  BY <1>7 DEF AfterInitDetach, AfterEnable, AfterLastDetach, Call, Finish, HostOnly,
     CommandGoals, DetachGoals
<1>8. CASE Detach
  <2>1. goal \notin CommandGoals
    BY <1>8 DEF Detach, IInv, HostInv, CommandGoals, DetachGoals
  <2> QED
    BY <1>8, <2>1 DEF Detach, HostOnly
<1>9. CASE WriteCommand
  BY <1>9 DEF WriteCommand
<1>10. CASE BumpSequence
  <2>1. /\ hpc' = "wait" /\ hpc = "bump" /\ commandSequence' = commandSequence + 1
        /\ UNCHANGED <<goal, command, loaded, hooked, lastCommand, stale>>
    BY <1>10 DEF BumpSequence
  <2>2. command # "PrepareUnload" => goal \in CommandGoals
    BY <1>1, <2>1 DEF IInv, HostInv, CommandOf, Goals
  <2>3. ~(loaded' /\ lastCommand' = commandSequence' /\ command' # "PrepareUnload")
    BY <2>1, <2>2
  <2> QED
    BY <2>1, <2>3
<1>11. CASE Acknowledged
  <2>1. AllAcknowledged
    BY <1>1, <1>11 DEF Acknowledged, AllAcknowledged, IInv, HostInv
  <2>2. loaded /\ hooked => lastCommand = commandSequence
    BY <1>1, <2>1 DEF IInv, ResultInv, CaughtUp
  <2>3. hooked
    BY <1>11 DEF Acknowledged, IInv, HostInv
  <2>4. hpc' \in {"unhook", "return"}
    BY <1>11 DEF Acknowledged, CommandReturns
  <2>5. UNCHANGED <<loaded, hooked, lastCommand, commandSequence>>
    BY <1>11 DEF Acknowledged, CommandReturns, HostOnly
  <2> QED
    BY <1>1, <2>2, <2>3, <2>4, <2>5
<1>12. CASE TimesOut
  <2>1. goal' = goal /\ (hpc' = "unhook" \/ (hpc' = "return" /\ result' = FALSE))
    BY <1>12, Zenon DEF TimesOut, CommandReturns
  <2>2. UNCHANGED <<loaded, hooked, lastCommand, commandSequence>>
    BY <1>12 DEF TimesOut, CommandReturns, HostOnly
  <2> QED
    BY <2>1, <2>2
<1>13. CASE Unhook
  <2>1. hpc = "unhook" /\ hpc' = "return" /\ goal' = goal /\ goal \in DetachGoals
    BY <1>13 DEF Unhook, IInv, HostInv
  <2>2. loaded => lastCommand = commandSequence /\ commandSequence > 1
    BY <1>1, <2>1 DEF IInv, ResultInv, CaughtUp, CountInv
  <2>3. UNCHANGED <<loaded, lastCommand, commandSequence>>
    BY <1>13 DEF Unhook
  <2>4. goal' \notin CommandGoals
    BY <2>1 DEF DetachGoals, CommandGoals
  <2> QED
    BY <1>1, <2>1, <2>2, <2>3, <2>4
<1>14. CASE PickCommand
  BY <1>1, <1>14 DEF PickCommand
<1>15. CASE Acknowledge
  BY <1>1, <1>15 DEF Acknowledge, FrameEnds
<1>16. CASE CommandFaults
  BY <1>16 DEF CommandFaults, MarkFault, SetResult, ControlUnchanged
<1>17. CASE ReadCommand \/ Resolve \/ CloseGate \/ CloseGateLater \/ Drained \/ StoreDrains
  BY <1>17 DEF ReadCommand, Resolve, CloseGate, CloseGateLater, Drained, StoreDrains,
     SetResult, ControlUnchanged
<1>24. CASE EnableBackend \/ RollBack \/ FallBack \/ Undo
  BY <1>24 DEF EnableBackend, RollBack, FallBack, Undo, Installs, NoBackend, MarkFault,
     SetResult, ControlUnchanged
<1>18. CASE PublishEnabled \/ DrainTimesOut \/ RemoveHooks
  BY <1>18 DEF PublishEnabled, DrainTimesOut, RemoveHooks, MarkFault,
     SetResult, ControlUnchanged
<1>19. ASSUME NEW t \in Threads, Callback(t) PROVE SeenInv'
  <2>1. UNCHANGED <<hostVars, blockVars, osVars, frameVars, lastCommand, faulted>>
    BY <1>19, Zenon DEF Callback, Enter, EnterDpa, CountIn, CheckGate, CallOriginal,
       CountOut, Leave, Move
  <2> QED
    BY <2>1
<1>20. CASE CallbackFaults
  BY <1>20 DEF CallbackFaults, Move, MarkFault, SetResult, ControlUnchanged
<1>21. CASE LoadDll
  <2>1. hpc = "wait" => commandSequence > 0
    BY DEF IInv, HostInv
  <2>2. lastCommand' = 0 /\ hooked /\ UNCHANGED <<hooked, hpc, goal, commandSequence>>
    BY <1>21 DEF LoadDll, FreshStatics
  <2> QED
    BY <1>1, <2>1, <2>2
<1>22. CASE UnloadDll \/ ExplorerExits
  <2>1. ~loaded'
    BY <1>22 DEF UnloadDll, ExplorerExits, ProcessGone
  <2> QED
    BY <2>1
<1>23. CASE ExplorerStarts
  BY <1>23 DEF ExplorerStarts
<1> QED
  BY <1>2, <1>3, <1>4, <1>5, <1>6, <1>7, <1>8, <1>9, <1>10, <1>11, <1>12, <1>13, <1>14,
     <1>15, <1>16, <1>17, <1>18, <1>19, <1>20, <1>21, <1>22, <1>23, <1>24
     DEF DelayedNext, Next, HostStep, PayloadStep

\* The payload never takes the Initialize or the Enable that the host waits for to be
\* the one of an earlier session (ProcessCommand's comparison with lastCommand,
\* payload/payload_state.cpp:105), over any number of sessions and commands.
THEOREM FreshCommandSeenHolds == Spec \/ DelayedSpec => []FreshCommandSeen
<1>0. [Next]_vars => [DelayedNext]_vars
  BY DEF DelayedNext
<1>1. Init => CountInv /\ SeenInv
  BY DEF Init, CountInv, SeenInv, FreshCommandSeen, CommandGoals, DetachGoals
<1>2. IInv /\ CountInv /\ SeenInv /\ [DelayedNext]_vars => CountInv' /\ SeenInv'
  BY CountStep, SeenStep
<1>3. SeenInv => FreshCommandSeen
  BY DEF SeenInv
<1> QED
  BY InductiveInvariant, <1>0, <1>1, <1>2, <1>3, PTL DEF Spec, DelayedSpec
=============================================================================
