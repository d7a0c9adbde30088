--------------------------- MODULE HostAppProofs ---------------------------
(***************************************************************************)
(* Proofs about HostApp, for every number of retries and every crash limit.*)
(*                                                                         *)
(* IInv is inductive: it adds to the properties what a host that does not  *)
(* run and one whose Windows session ends have given up (ExitingInv,       *)
(* EndingInv), that only a host that is switched on retries (RetryInv),    *)
(* and which Explorer session, wait and messages are about (SessionInv).   *)
(***************************************************************************)
EXTENDS HostApp, TLAPS

USE RetryAssumption, CrashAssumption

\* The members of App before Run.
LEMMA InitIInv == Init => IInv
<1> SUFFICES ASSUME Init PROVE IInv
  OBVIOUS
<1> USE DEF Init, IInv, TypeOK, FlagsOK, DataOK, States, Processes, ExitingInv, EndingInv,
        RetryInv, SessionInv, RetryPending, ActiveOnlyIfEnabled, NoticesExit,
        Running, Heeding
<1>1. FlagsOK
  OBVIOUS
<1>2. DataOK
  OBVIOUS
<1>3. ExitingInv /\ EndingInv /\ RetryInv /\ SessionInv
  OBVIOUS
<1>4. RetryPending /\ ActiveOnlyIfEnabled /\ NoticesExit
  OBVIOUS
<1>5. QED BY <1>1, <1>2, <1>3, <1>4

-----------------------------------------------------------------------------
(* Each handler and each event around the host keeps the invariant.        *)

\* What Run does before the message loop is one attempt or none.
LEMMA StartKeeps ==
  ASSUME IInv, Start PROVE IInv'
<1> USE DEF IInv, TypeOK, FlagsOK, DataOK, States, Processes, ExitingInv, EndingInv,
        RetryInv, SessionInv, RetryPending, ActiveOnlyIfEnabled, NoticesExit,
        Running, Heeding,
        Start, StatesWithoutAttach, AttachIfPossible, Unavailable,
        Exhausted, Attempted, Detached, Aged
<1>1. FlagsOK'
  OBVIOUS
<1>2. DataOK'
  OBVIOUS
<1>3. ExitingInv' /\ EndingInv' /\ RetryInv' /\ SessionInv'
  OBVIOUS
<1>4. RetryPending' /\ ActiveOnlyIfEnabled' /\ NoticesExit'
  OBVIOUS
<1>5. QED BY <1>1, <1>2, <1>3, <1>4

\* Switching off takes the retry timer with it, and switching on attaches or
\* schedules a retry.
LEMMA ToggleEnabledKeeps ==
  ASSUME IInv, ToggleEnabled PROVE IInv'
<1> USE DEF IInv, TypeOK, FlagsOK, DataOK, States, Processes, ExitingInv, EndingInv,
        RetryInv, SessionInv, RetryPending, ActiveOnlyIfEnabled, NoticesExit,
        Running, Heeding,
        ToggleEnabled, TimerAfterToggle, AttachIfPossible,
        Unavailable, Exhausted, Attempted, Detached, Aged
<1>1. FlagsOK'
  OBVIOUS
<1>2. DataOK'
  OBVIOUS
<1>3. ExitingInv' /\ EndingInv' /\ RetryInv' /\ SessionInv'
  OBVIOUS
<1>4. RetryPending' /\ ActiveOnlyIfEnabled' /\ NoticesExit'
  OBVIOUS
<1>5. QED BY <1>1, <1>2, <1>3, <1>4

\* An attachment makes every message in the queue an old one.
LEMMA TaskbarCreatedKeeps ==
  ASSUME IInv, TaskbarCreated PROVE IInv'
<1> USE DEF IInv, TypeOK, FlagsOK, DataOK, States, Processes, ExitingInv, EndingInv,
        RetryInv, SessionInv, RetryPending, ActiveOnlyIfEnabled, NoticesExit,
        Running, Heeding,
        TaskbarCreated, AttachIfPossible, Unavailable, Exhausted,
        Attempted, Detached, Aged
<1>1. FlagsOK'
  OBVIOUS
<1>2. DataOK'
  OBVIOUS
<1>3. ExitingInv' /\ EndingInv' /\ RetryInv' /\ SessionInv'
  OBVIOUS
<1>4. RetryPending' /\ ActiveOnlyIfEnabled' /\ NoticesExit'
  OBVIOUS
<1>5. QED BY <1>1, <1>2, <1>3, <1>4

\* Only a host that is switched on gets here (RetryInv).
LEMMA RetryTimerKeeps ==
  ASSUME IInv, RetryTimer PROVE IInv'
<1> USE DEF IInv, TypeOK, FlagsOK, DataOK, States, Processes, ExitingInv, EndingInv,
        RetryInv, SessionInv, RetryPending, ActiveOnlyIfEnabled, NoticesExit,
        Running, Heeding,
        RetryTimer, AttachIfPossible, Unavailable, Exhausted,
        Attempted, Detached, Aged
<1>1. FlagsOK'
  OBVIOUS
<1>2. DataOK'
  OBVIOUS
<1>3. ExitingInv' /\ EndingInv' /\ RetryInv' /\ SessionInv'
  OBVIOUS
<1>4. RetryPending' /\ ActiveOnlyIfEnabled' /\ NoticesExit'
  OBVIOUS
<1>5. QED BY <1>1, <1>2, <1>3, <1>4

\* The stable timer touches the counts only.
LEMMA StableTimerKeeps ==
  ASSUME IInv, StableTimer PROVE IInv'
<1> USE DEF IInv, TypeOK, FlagsOK, DataOK, States, Processes, ExitingInv, EndingInv,
        RetryInv, SessionInv, RetryPending, ActiveOnlyIfEnabled, NoticesExit,
        Running, Heeding,
        StableTimer, explorerVars
<1>1. FlagsOK'
  OBVIOUS
<1>2. DataOK'
  OBVIOUS
<1>3. ExitingInv' /\ EndingInv' /\ RetryInv' /\ SessionInv'
  OBVIOUS
<1>4. RetryPending' /\ ActiveOnlyIfEnabled' /\ NoticesExit'
  OBVIOUS
<1>5. QED BY <1>1, <1>2, <1>3, <1>4

\* A reload attaches, or leaves the session and shows something else than a wait.
LEMMA UpdateInstalledKeeps ==
  ASSUME IInv, UpdateInstalled PROVE IInv'
<1> USE DEF IInv, TypeOK, FlagsOK, DataOK, States, Processes, ExitingInv, EndingInv,
        RetryInv, SessionInv, RetryPending, ActiveOnlyIfEnabled, NoticesExit,
        Running, Heeding,
        UpdateInstalled, StatesWithoutAttach, AttachIfPossible,
        Unavailable, Exhausted, Attempted, Detached, Aged
<1>1. FlagsOK'
  OBVIOUS
<1>2. DataOK'
  OBVIOUS
<1>3. ExitingInv' /\ EndingInv' /\ RetryInv' /\ SessionInv'
  OBVIOUS
<1>4. RetryPending' /\ ActiveOnlyIfEnabled' /\ NoticesExit'
  OBVIOUS
<1>5. QED BY <1>1, <1>2, <1>3, <1>4

\* A host that leaves is gone, or shows that it could not detach, or goes on
\* without a session.
LEMMA LeaveKeeps ==
  ASSUME IInv, Leave PROVE IInv'
<1> USE DEF IInv, TypeOK, FlagsOK, DataOK, States, Processes, ExitingInv, EndingInv,
        RetryInv, SessionInv, RetryPending, ActiveOnlyIfEnabled, NoticesExit,
        Running, Heeding
<1>0. Heeding
  BY DEF Leave
<1>1. CASE Quit
  <2>1. FlagsOK'
    BY <1>1 DEF Quit
  <2>2. DataOK'
    BY <1>1 DEF Quit
  <2>3. ExitingInv' /\ EndingInv' /\ RetryInv' /\ SessionInv'
    BY <1>1 DEF Quit
  <2>4. RetryPending' /\ ActiveOnlyIfEnabled' /\ NoticesExit'
    BY <1>1 DEF Quit
  <2>5. QED BY <2>1, <2>2, <2>3, <2>4
<1>2. CASE /\ session # "none" /\ state' = "Faulted"
           /\ UNCHANGED <<enabled, ending, retryTimer, stableTimer, countVars,
                          explorerVars>>
  <2>1. FlagsOK'
    BY <1>0, <1>2 DEF countVars, explorerVars
  <2>2. DataOK'
    BY <1>0, <1>2 DEF countVars, explorerVars
  <2>3. ExitingInv' /\ EndingInv' /\ RetryInv' /\ SessionInv'
    BY <1>0, <1>2 DEF countVars, explorerVars
  <2>4. RetryPending' /\ ActiveOnlyIfEnabled' /\ NoticesExit'
    BY <1>0, <1>2 DEF countVars, explorerVars
  <2>5. QED BY <2>1, <2>2, <2>3, <2>4
<1>3. CASE /\ session' = "none"
           /\ UNCHANGED <<state, enabled, ending, retryTimer, stableTimer,
                          countVars, watched, exits, alive>>
  <2>1. FlagsOK'
    BY <1>3 DEF countVars
  <2>2. DataOK'
    BY <1>3 DEF countVars
  <2>3. ExitingInv' /\ EndingInv' /\ RetryInv' /\ SessionInv'
    BY <1>3 DEF countVars
  <2>4. RetryPending' /\ ActiveOnlyIfEnabled' /\ NoticesExit'
    BY <1>3 DEF countVars
  <2>5. QED BY <2>1, <2>2, <2>3, <2>4
<1>4. QED BY <1>1, <1>2, <1>3 DEF Leave

\* Nothing is waited for while Windows ends.
LEMMA QueryEndSessionKeeps ==
  ASSUME IInv, QueryEndSession PROVE IInv'
<1> USE DEF IInv, TypeOK, FlagsOK, DataOK, States, Processes, ExitingInv, EndingInv,
        RetryInv, SessionInv, RetryPending, ActiveOnlyIfEnabled, NoticesExit,
        Running, Heeding,
        QueryEndSession, Detached, Aged, countVars
<1>1. FlagsOK'
  OBVIOUS
<1>2. DataOK'
  OBVIOUS
<1>3. ExitingInv' /\ EndingInv' /\ RetryInv' /\ SessionInv'
  OBVIOUS
<1>4. RetryPending' /\ ActiveOnlyIfEnabled' /\ NoticesExit'
  OBVIOUS
<1>5. QED BY <1>1, <1>2, <1>3, <1>4

\* A shutdown that is cancelled attaches again or schedules a retry.
LEMMA CancelEndSessionKeeps ==
  ASSUME IInv, CancelEndSession PROVE IInv'
<1> USE DEF IInv, TypeOK, FlagsOK, DataOK, States, Processes, ExitingInv, EndingInv,
        RetryInv, SessionInv, RetryPending, ActiveOnlyIfEnabled, NoticesExit,
        Running, Heeding,
        CancelEndSession, AttachIfPossible, Unavailable, Exhausted,
        Attempted, Detached, Aged
<1>1. FlagsOK'
  OBVIOUS
<1>2. DataOK'
  OBVIOUS
<1>3. ExitingInv' /\ EndingInv' /\ RetryInv' /\ SessionInv'
  OBVIOUS
<1>4. RetryPending' /\ ActiveOnlyIfEnabled' /\ NoticesExit'
  OBVIOUS
<1>5. QED BY <1>1, <1>2, <1>3, <1>4

\* A host that ends leaves nothing behind.
LEMMA EndSessionKeeps ==
  ASSUME IInv, EndSession PROVE IInv'
<1> USE DEF IInv, TypeOK, FlagsOK, DataOK, States, Processes, ExitingInv, EndingInv,
        RetryInv, SessionInv, RetryPending, ActiveOnlyIfEnabled, NoticesExit,
        Running, Heeding,
        EndSession, Quit
<1>1. FlagsOK'
  OBVIOUS
<1>2. DataOK'
  OBVIOUS
<1>3. ExitingInv' /\ EndingInv' /\ RetryInv' /\ SessionInv'
  OBVIOUS
<1>4. RetryPending' /\ ActiveOnlyIfEnabled' /\ NoticesExit'
  OBVIOUS
<1>5. QED BY <1>1, <1>2, <1>3, <1>4

\* A live session was watched, so its end is one the wait will see.
LEMMA ExplorerExitsKeeps ==
  ASSUME IInv, ExplorerExits PROVE IInv'
<1> USE DEF IInv, TypeOK, FlagsOK, DataOK, States, Processes, ExitingInv, EndingInv,
        RetryInv, SessionInv, RetryPending, ActiveOnlyIfEnabled, NoticesExit,
        Running, Heeding,
        ExplorerExits, Gone, HostUnchanged
<1>1. FlagsOK'
  OBVIOUS
<1>2. DataOK'
  OBVIOUS
<1>3. ExitingInv' /\ EndingInv' /\ RetryInv' /\ SessionInv'
  OBVIOUS
<1>4. RetryPending' /\ ActiveOnlyIfEnabled' /\ NoticesExit'
  OBVIOUS
<1>5. QED BY <1>1, <1>2, <1>3, <1>4

\* A new Explorer is not one that anything is attached to.
LEMMA ExplorerStartsKeeps ==
  ASSUME IInv, ExplorerStarts PROVE IInv'
<1> USE DEF IInv, TypeOK, FlagsOK, DataOK, States, Processes, ExitingInv, EndingInv,
        RetryInv, SessionInv, RetryPending, ActiveOnlyIfEnabled, NoticesExit,
        Running, Heeding,
        ExplorerStarts, HostUnchanged
<1>1. FlagsOK'
  OBVIOUS
<1>2. DataOK'
  OBVIOUS
<1>3. ExitingInv' /\ EndingInv' /\ RetryInv' /\ SessionInv'
  OBVIOUS
<1>4. RetryPending' /\ ActiveOnlyIfEnabled' /\ NoticesExit'
  OBVIOUS
<1>5. QED BY <1>1, <1>2, <1>3, <1>4

\* The wait that fires is on a process that has exited, and so is the session.
LEMMA WaitFiresKeeps ==
  ASSUME IInv, WaitFires PROVE IInv'
<1> USE DEF IInv, TypeOK, FlagsOK, DataOK, States, Processes, ExitingInv, EndingInv,
        RetryInv, SessionInv, RetryPending, ActiveOnlyIfEnabled, NoticesExit,
        Running, Heeding,
        WaitFires, GenerationOfWait, HostUnchanged
<1>1. FlagsOK'
  OBVIOUS
<1>2. DataOK'
  OBVIOUS
<1>3. ExitingInv' /\ EndingInv' /\ RetryInv' /\ SessionInv'
  OBVIOUS
<1>4. RetryPending' /\ ActiveOnlyIfEnabled' /\ NoticesExit'
  OBVIOUS
<1>5. QED BY <1>1, <1>2, <1>3, <1>4

\* A minute that passes touches the crash window only.
LEMMA MinutePassesKeeps ==
  ASSUME IInv, MinutePasses PROVE IInv'
<1> USE DEF IInv, TypeOK, FlagsOK, DataOK, States, Processes, ExitingInv, EndingInv,
        RetryInv, SessionInv, RetryPending, ActiveOnlyIfEnabled, NoticesExit,
        Running, Heeding,
        MinutePasses, HostUnchanged, explorerVars
<1>1. FlagsOK'
  OBVIOUS
<1>2. DataOK'
  OBVIOUS
<1>3. ExitingInv' /\ EndingInv' /\ RetryInv' /\ SessionInv'
  OBVIOUS
<1>4. RetryPending' /\ ActiveOnlyIfEnabled' /\ NoticesExit'
  OBVIOUS
<1>5. QED BY <1>1, <1>2, <1>3, <1>4

\* A message that counts speaks of a session whose Explorer is gone; the handler
\* gives it up and schedules a retry. Every other message is dropped.
LEMMA ExplorerExitedKeeps ==
  ASSUME IInv, NEW m \in exits, ExplorerExited(m) PROVE IInv'
<1> USE DEF IInv, TypeOK, FlagsOK, DataOK, States, Processes, ExitingInv, EndingInv,
        RetryInv, SessionInv, RetryPending, ActiveOnlyIfEnabled, NoticesExit,
        Running, Heeding, ExplorerExited,
        Heeded, Crashes, Unavailable, Exhausted, Attempted, Detached, countVars
<1>1. FlagsOK'
  OBVIOUS
<1>2. DataOK'
  OBVIOUS
<1>3. ExitingInv' /\ EndingInv' /\ RetryInv' /\ SessionInv'
  OBVIOUS
<1>4. RetryPending' /\ ActiveOnlyIfEnabled' /\ NoticesExit'
  OBVIOUS
<1>5. QED BY <1>1, <1>2, <1>3, <1>4

LEMMA StutterKeeps ==
  ASSUME IInv, UNCHANGED vars PROVE IInv'
<1> USE DEF IInv, TypeOK, FlagsOK, DataOK, States, Processes, ExitingInv, EndingInv,
        RetryInv, SessionInv, RetryPending, ActiveOnlyIfEnabled, NoticesExit,
        Running, Heeding, vars, explorerVars, countVars
<1>1. FlagsOK'
  OBVIOUS
<1>2. DataOK'
  OBVIOUS
<1>3. ExitingInv' /\ EndingInv' /\ RetryInv' /\ SessionInv'
  OBVIOUS
<1>4. RetryPending' /\ ActiveOnlyIfEnabled' /\ NoticesExit'
  OBVIOUS
<1>5. QED BY <1>1, <1>2, <1>3, <1>4

\* IInv is kept by every step.
THEOREM InductiveInvariant == Spec => []IInv
<1>1. ASSUME IInv, [Next]_vars PROVE IInv'
  <2>1. CASE UNCHANGED vars
    BY <1>1, <2>1, StutterKeeps
  <2>2. CASE \E m \in exits : ExplorerExited(m)
    BY <1>1, <2>2, ExplorerExitedKeeps
  <2>3. CASE Start \/ ToggleEnabled \/ TaskbarCreated \/ RetryTimer \/ StableTimer
    BY <1>1, <2>3, StartKeeps, ToggleEnabledKeeps, TaskbarCreatedKeeps,
       RetryTimerKeeps, StableTimerKeeps
  <2>4. CASE UpdateInstalled \/ Leave \/ QueryEndSession \/ CancelEndSession \/ EndSession
    BY <1>1, <2>4, UpdateInstalledKeeps, LeaveKeeps, QueryEndSessionKeeps,
       CancelEndSessionKeeps, EndSessionKeeps
  <2>5. CASE ExplorerExits \/ ExplorerStarts \/ WaitFires \/ MinutePasses
    BY <1>1, <2>5, ExplorerExitsKeeps, ExplorerStartsKeeps, WaitFiresKeeps,
       MinutePassesKeeps
  <2>6. QED BY <1>1, <2>1, <2>2, <2>3, <2>4, <2>5 DEF Next
<1>2. QED BY InitIInv, <1>1, PTL DEF Spec

-----------------------------------------------------------------------------
(* What follows from it.                                                   *)

\* The type invariant: the counts stay within the limits the code compares them
\* with.
THEOREM TypeCorrect == Spec => []TypeOK
<1>1. IInv => TypeOK
  BY DEF IInv
<1>2. QED BY <1>1, InductiveInvariant, PTL

\* A host that waits for Explorer has a retry before it, whatever the limits
\* (App::ScheduleExplorerRetry and everything that kills its timer).
THEOREM RetryPendingHolds == Spec => []RetryPending
<1>1. IInv => RetryPending
  BY DEF IInv
<1>2. QED BY <1>1, InductiveInvariant, PTL

\* The host is never attached while it is switched off.
THEOREM ActiveOnlyIfEnabledHolds == Spec => []ActiveOnlyIfEnabled
<1>1. IInv => ActiveOnlyIfEnabled
  BY DEF IInv
<1>2. QED BY <1>1, InductiveInvariant, PTL

\* The end of the Explorer under an active host is always noticed.
THEOREM NoticesExitHolds == Spec => []NoticesExit
<1>1. IInv => NoticesExit
  BY DEF IInv
<1>2. QED BY <1>1, InductiveInvariant, PTL

\* An exit message never takes away the session with an Explorer that runs: one
\* that counts is about the session's own Explorer (the guard in WM_APP + 2).
THEOREM LiveSessionKeptHolds == Spec => LiveSessionKept
<1>1. IInv => [(\E m \in exits : ExplorerExited(m)) /\ session = "live"
                 => session' = session]_vars
  <2> SUFFICES ASSUME IInv, NEW m \in exits, ExplorerExited(m), session = "live"
               PROVE session' = session
    OBVIOUS
  <2>1. "current" \notin exits
    BY DEF IInv, SessionInv
  <2>2. ~Heeded(m)
    BY <2>1 DEF Heeded
  <2>3. QED BY <2>2 DEF ExplorerExited, countVars
<1>2. QED BY <1>1, InductiveInvariant, PTL DEF LiveSessionKept

\* Retries run out (ScheduleExplorerRetry, kStableTimer): what a host that waits has
\* left goes down with each attempt and never comes back while it waits, for every
\* limit.  With RetryPending this is what GivesUp rests on beside the fairness.
THEOREM RetriesRunOutHolds == Spec => RetriesRunOut
<1>1. ASSUME IInv, [Next]_vars, Waiting, Waiting'
      PROVE  IF RetryTimer \/ TaskbarCreated \/ StableTimer
             THEN RetriesLeft' < RetriesLeft ELSE RetriesLeft' <= RetriesLeft
  <2>0. /\ retryAttempt \in 0..RetryLimit /\ stableTimer \in BOOLEAN
        /\ enabled /\ ~ending /\ enabled' /\ ~ending' /\ state' = "ExplorerUnavailable"
    BY <1>1 DEF IInv, TypeOK, FlagsOK, DataOK, Waiting
  <2> DEFINE Used == (stableTimer' => stableTimer) /\ retryAttempt' = retryAttempt + 1
             Kept == stableTimer' = stableTimer /\ retryAttempt' = retryAttempt
  <2>1. ASSUME Used PROVE RetriesLeft' < RetriesLeft
    BY <2>0, <2>1 DEF RetriesLeft
  <2>2. ASSUME Kept PROVE RetriesLeft' = RetriesLeft
    BY <2>2 DEF RetriesLeft
  <2>3. ASSUME NEW timer, Unavailable(retryAttempt, timer)
        PROVE  retryAttempt' = retryAttempt + 1
    BY <2>0, <2>3 DEF Unavailable, Exhausted, Attempted
  <2>4. ASSUME NEW timer, AttachIfPossible(retryAttempt, timer, stableTimer) PROVE Used
    BY <2>0, <2>3, <2>4 DEF AttachIfPossible
  <2>5. CASE TaskbarCreated \/ RetryTimer
    <3>1. Used
      BY <2>0, <2>4, <2>5 DEF TaskbarCreated, RetryTimer
    <3> QED
      BY <2>0, <2>1, <3>1 DEF RetriesLeft
  <2>6. CASE StableTimer
    BY <2>0, <2>6 DEF StableTimer, RetriesLeft
  <2>7. CASE UpdateInstalled \/ \E m \in exits : ExplorerExited(m)
    <3>1. Used \/ Kept
      BY <2>0, <2>3, <2>4, <2>7 DEF UpdateInstalled, StatesWithoutAttach, ExplorerExited,
         countVars
    <3> QED
      BY <2>0, <2>1, <2>2, <3>1, <2>5, <2>6 DEF RetriesLeft
  <2>8. CASE Leave
    <3>1. Kept
      BY <2>0, <2>8 DEF Leave, Quit, countVars
    <3> QED
      BY <2>0, <2>2, <3>1, <2>5, <2>6 DEF RetriesLeft
  <2>9. CASE \/ UNCHANGED vars \/ ExplorerExits \/ ExplorerStarts \/ WaitFires
             \/ MinutePasses
    <3>1. Kept
      BY <2>9 DEF vars, countVars, ExplorerExits, ExplorerStarts, WaitFires, MinutePasses,
         HostUnchanged
    <3> QED
      BY <2>0, <2>2, <3>1, <2>5, <2>6 DEF RetriesLeft
  <2>10. ~(Start \/ ToggleEnabled \/ QueryEndSession \/ CancelEndSession \/ EndSession)
    BY <1>1, <2>0 DEF Waiting, Start, Running, ToggleEnabled, QueryEndSession,
       CancelEndSession, EndSession
  <2> QED
    BY <1>1, <2>5, <2>6, <2>7, <2>8, <2>9, <2>10 DEF Next
<1>2. IInv /\ [Next]_vars =>
        (Waiting /\ Waiting' => IF RetryTimer \/ TaskbarCreated \/ StableTimer
                                THEN RetriesLeft' < RetriesLeft
                                ELSE RetriesLeft' <= RetriesLeft)
  BY <1>1
<1>3. QED BY <1>2, InductiveInvariant, PTL DEF Spec, RetriesRunOut
=============================================================================
