------------------------------- MODULE HostApp -------------------------------
(***************************************************************************)
(* The tray host as a whole: App (host/app.cpp), one message handler at a  *)
(* time. It attaches to Explorer, notices that Explorer has gone, tries    *)
(* again with growing delays, gives up, is switched on and off by the user,*)
(* and ends with the Windows session or is told that it does not end.      *)
(*                                                                         *)
(* HookSession has the inside of the loader's calls; here a Detach of a    *)
(* session may fail and leave it, and an attachment may end in any of its  *)
(* outcomes. All handlers run on the host's one thread. What makes them    *)
(* hard is that messages and timers arrive late: an exit message of the    *)
(* Explorer before this one, a retry for an attachment already made.       *)
(*                                                                         *)
(* Not covered: the text shown to the user; a wait that cannot be          *)
(* registered; a second instance that finds no window; the update worker   *)
(* (ManifestInstall), whose message may arrive at any time.                *)
(***************************************************************************)
EXTENDS Naturals

CONSTANTS
    RetryLimit,   \* attempts of ScheduleExplorerRetry: 8 in the code
    CrashLimit    \* exits within a minute that suppress attaching: 5

ASSUME RetryAssumption == RetryLimit \in Nat \ {0}
ASSUME CrashAssumption == CrashLimit \in Nat \ {0}

VARIABLES
    state,         \* state_ between two handlers; "Exiting": no host runs
    enabled,       \* settings_.enabled
    ending,        \* sessionEnding_
    retryTimer, stableTimer,    \* kRetryTimer and kStableTimer are set
    retryAttempt, crashCount,
    recent,        \* crashWindowStart_ is set and at most a minute ago
    session,       \* the loader's session: none, with the Explorer that runs, or
                   \* with one that has exited
    watched,       \* the process that explorerWait_ waits for, likewise
    exits,         \* WM_APP + 2 messages in the queue: with the current
                   \* explorerGeneration_ or an old one
    alive          \* an Explorer runs

explorerVars == <<session, watched, exits, alive>>
countVars    == <<retryAttempt, crashCount, recent>>
vars == <<state, enabled, ending, retryTimer, stableTimer, countVars, explorerVars>>

States == {"Exiting", "Disabled", "Active", "Unsupported", "ExplorerUnavailable",
           "Faulted"}
Processes == {"none", "live", "dead"}

FlagsOK ==
    /\ enabled \in BOOLEAN /\ ending \in BOOLEAN /\ retryTimer \in BOOLEAN
    /\ stableTimer \in BOOLEAN /\ recent \in BOOLEAN /\ alive \in BOOLEAN

DataOK ==
    /\ state \in States /\ session \in Processes /\ watched \in Processes
    /\ \A m \in exits : m \in {"current", "old"}
    /\ retryAttempt \in 0..RetryLimit /\ crashCount \in 0..CrashLimit

TypeOK == FlagsOK /\ DataOK

\* The members of App before Run.
Init ==
    /\ state = "Exiting" /\ enabled \in BOOLEAN /\ ending = FALSE
    /\ retryTimer = FALSE /\ stableTimer = FALSE
    /\ retryAttempt = 0 /\ crashCount = 0 /\ recent = FALSE
    /\ session = "none" /\ watched = "none" /\ exits = {} /\ alive = TRUE

-----------------------------------------------------------------------------
(* What the handlers share.                                                *)

\* A message finds the host's window; most are dropped while Windows ends.
Running == state # "Exiting"
Heeding == Running /\ ~ending

\* HookLoader::Detach.
Detached == {"none", session}

\* ++explorerGeneration_, the wait being unregistered.
Aged == {"old" : m \in exits}

\* SetState(ExplorerUnavailable); ScheduleExplorerRetry. `n` and `timer` are the
\* attempts made and the timer so far.
Exhausted(n)     == n >= RetryLimit
AttemptedKept(n) == n
Attempted(n)     == n + 1

Unavailable(n, timer) ==
    IF ~enabled'
    THEN state' = "ExplorerUnavailable" /\ retryTimer' = timer /\ retryAttempt' = n
    ELSE IF Exhausted(n)
    THEN state' = "Faulted" /\ retryTimer' = timer /\ retryAttempt' = n
    ELSE state' = "ExplorerUnavailable" /\ retryTimer' = TRUE
         /\ retryAttempt' = Attempted(n)

\* AttachIfPossible. The retry timer is not touched when it succeeds, nor the
\* stable timer when it fails.
AttachIfPossible(n, timer, stable) ==
    /\ exits' = Aged
    /\ \/ /\ Unavailable(n, timer)
          /\ watched' = "none" /\ session' \in Detached /\ stableTimer' = stable
       \/ /\ alive /\ watched' = "live" /\ retryAttempt' = n /\ retryTimer' = timer
          /\ \/ state' = "Unsupported" /\ session' \in Detached /\ stableTimer' = stable
             \/ state' = "Faulted" /\ session' \in Detached \cup {"live"}
                /\ stableTimer' = stable
             \/ state' = "Active" /\ session' = "live" /\ stableTimer' = TRUE

\* The window is destroyed and the process ends, whatever the last Detach did.
Quit ==
    /\ state' = "Exiting" /\ ending' = FALSE
    /\ retryTimer' = FALSE /\ stableTimer' = FALSE
    /\ retryAttempt' = 0 /\ crashCount' = 0 /\ recent' = FALSE
    /\ session' = "none" /\ watched' = "none" /\ exits' = {}
    /\ UNCHANGED <<enabled, alive>>

-----------------------------------------------------------------------------
(* The handlers.                                                           *)

\* A manifest that cannot be loaded, or a user who has switched the host off.
StatesWithoutAttach == {"Faulted"} \cup IF enabled THEN {} ELSE {"Disabled"}

\* Run, up to the message loop.
Start ==
    /\ ~Running
    /\ UNCHANGED enabled
    /\ \/ /\ state' \in StatesWithoutAttach
          /\ UNCHANGED <<retryTimer, stableTimer, retryAttempt, session, watched, exits>>
       \/ enabled /\ AttachIfPossible(0, FALSE, FALSE)
    /\ UNCHANGED <<ending, crashCount, recent, alive>>

\* ToggleEnabled.
TimerAfterToggleKept == retryTimer
TimerAfterToggle == FALSE

ToggleEnabled ==
    /\ Heeding /\ enabled' = ~enabled
    /\ crashCount' = 0 /\ recent' = FALSE
    /\ IF enabled'
       THEN AttachIfPossible(0, TimerAfterToggle, FALSE)
       ELSE /\ retryTimer' = TimerAfterToggle /\ stableTimer' = FALSE /\ retryAttempt' = 0
            /\ session' \in Detached
            /\ state' = IF session' = "none" THEN "Disabled" ELSE "Faulted"
            /\ UNCHANGED <<watched, exits>>
    /\ UNCHANGED <<ending, alive>>

\* WM_APP + 2. Only a message of the current generation is about the Explorer of
\* this session.
HeededAny(m) == TRUE
Heeded(m)    == m = "current"

Crashes == IF ~recent THEN 1 ELSE IF crashCount < CrashLimit THEN crashCount + 1
           ELSE CrashLimit

ExplorerExited(m) ==
    /\ Running /\ m \in exits /\ exits' = exits \ {m}
    /\ IF Heeding /\ Heeded(m)
       THEN /\ watched' = "none" /\ session' \in Detached /\ stableTimer' = FALSE
            /\ UNCHANGED enabled
            /\ crashCount' = Crashes /\ recent' = TRUE
            /\ IF enabled /\ crashCount' >= CrashLimit
               THEN /\ state' = "Faulted"
                    /\ UNCHANGED <<retryTimer, retryAttempt>>
               ELSE Unavailable(retryAttempt, retryTimer)
       ELSE UNCHANGED <<state, enabled, retryTimer, stableTimer, countVars, session, watched>>
    /\ UNCHANGED <<ending, alive>>

\* TaskbarCreated: a new Explorer, or the same one after a change of resolution.
TaskbarCreated ==
    /\ Heeding
    /\ UNCHANGED enabled
    /\ IF enabled THEN AttachIfPossible(retryAttempt, retryTimer, stableTimer)
       ELSE /\ exits' = Aged /\ watched' = "none" /\ session' \in Detached
            /\ UNCHANGED <<state, retryTimer, stableTimer, retryAttempt>>
    /\ UNCHANGED <<ending, crashCount, recent, alive>>

\* kRetryTimer; the setting is not looked at.
RetryTimer ==
    /\ Heeding /\ retryTimer
    /\ UNCHANGED enabled
    /\ AttachIfPossible(retryAttempt, FALSE, stableTimer)
    /\ UNCHANGED <<ending, crashCount, recent, alive>>

\* kStableTimer: 30 seconds after an attachment.
StableTimer ==
    /\ Heeding /\ stableTimer /\ stableTimer' = FALSE
    /\ retryAttempt' = 0 /\ crashCount' = 0 /\ recent' = FALSE
    /\ UNCHANGED <<state, enabled, ending, retryTimer, explorerVars>>

\* WM_APP + 3 with an installed manifest, which cannot be loaded, or can.
UpdateInstalled ==
    /\ Heeding
    /\ UNCHANGED enabled
    /\ \/ enabled /\ AttachIfPossible(retryAttempt, retryTimer, stableTimer)
       \/ /\ state' \in StatesWithoutAttach
          /\ UNCHANGED <<retryTimer, stableTimer, retryAttempt, session, watched, exits>>
    /\ UNCHANGED <<ending, crashCount, recent, alive>>

\* IdExit, --replace-current and the removal in IdAbout. A removal whose helper
\* does not start has detached and goes on as before.
Leave ==
    /\ Heeding
    /\ \/ Quit
       \/ /\ session # "none" /\ state' = "Faulted"
          /\ UNCHANGED <<enabled, ending, retryTimer, stableTimer, countVars, explorerVars>>
       \/ /\ session' = "none"
          /\ UNCHANGED <<state, enabled, ending, retryTimer, stableTimer, countVars,
                         watched, exits, alive>>

\* WM_QUERYENDSESSION: BeginSessionShutdown. The state shown stays.
QueryEndSession ==
    /\ Heeding /\ ending' = TRUE
    /\ retryTimer' = FALSE /\ stableTimer' = FALSE
    /\ exits' = Aged /\ watched' = "none" /\ session' \in Detached
    /\ UNCHANGED <<state, enabled, countVars, alive>>

\* WM_ENDSESSION, after all not: CancelSessionShutdown.
CancelOnly ==
    /\ Running /\ ending /\ ending' = FALSE
    /\ UNCHANGED <<state, enabled, retryTimer, stableTimer, countVars, explorerVars>>

CancelEndSession ==
    /\ Running /\ ending /\ ending' = FALSE
    /\ UNCHANGED enabled
    /\ IF enabled THEN AttachIfPossible(retryAttempt, retryTimer, stableTimer)
       ELSE /\ state' = "Disabled"
            /\ UNCHANGED <<retryTimer, stableTimer, retryAttempt, session, watched, exits>>
    /\ UNCHANGED <<crashCount, recent, alive>>

\* WM_ENDSESSION.
EndSession == Running /\ ending /\ Quit

-----------------------------------------------------------------------------
(* The surroundings.                                                       *)

HostUnchanged == UNCHANGED <<state, enabled, ending, retryTimer, stableTimer,
                             retryAttempt, crashCount>>

Gone(p) == IF p = "live" THEN "dead" ELSE p

ExplorerExits ==
    /\ alive /\ alive' = FALSE
    /\ session' = Gone(session) /\ watched' = Gone(watched)
    /\ UNCHANGED <<recent, exits>> /\ HostUnchanged

ExplorerStarts ==
    /\ ~alive /\ alive' = TRUE
    /\ UNCHANGED <<recent, session, watched, exits>> /\ HostUnchanged

\* The wait's callback posts the generation it was registered with.
GenerationOfWaitBefore == "old"
GenerationOfWait == "current"

WaitFires ==
    /\ watched = "dead" /\ watched' = "none"
    /\ exits' = exits \cup {GenerationOfWait}
    /\ UNCHANGED <<recent, session, alive>> /\ HostUnchanged

MinutePasses ==
    /\ recent /\ recent' = FALSE
    /\ UNCHANGED explorerVars /\ HostUnchanged

Next ==
    \/ Start \/ ToggleEnabled \/ (\E m \in exits : ExplorerExited(m))
    \/ TaskbarCreated \/ RetryTimer \/ StableTimer \/ UpdateInstalled
    \/ Leave \/ QueryEndSession \/ CancelEndSession \/ EndSession
    \/ ExplorerExits \/ ExplorerStarts \/ WaitFires \/ MinutePasses

\* A timer that is set fires, the wait on a process that has exited fires, and a
\* message in the queue is handled. Nothing else needs to happen.
Fairness ==
    /\ WF_vars(RetryTimer) /\ WF_vars(WaitFires)
    /\ WF_vars(\E m \in exits : ExplorerExited(m))

Spec     == Init /\ [][Next]_vars
FairSpec == Spec /\ Fairness

-----------------------------------------------------------------------------
(* Properties.                                                             *)

\* An exit message never takes away the session with an Explorer that runs, though
\* it may arrive after the host has attached to the next one (WM_APP + 2).
LiveSessionKept ==
    [][(\E m \in exits : ExplorerExited(m)) /\ session = "live" => session' = session]_vars

\* A host that waits for Explorer has a retry before it: no order of toggles, exits,
\* broadcasts and cancelled shutdowns leaves it waiting for nothing.
RetryPending ==
    state = "ExplorerUnavailable" /\ enabled /\ ~ending => retryTimer

\* The host is never attached while the user has switched it off, although the
\* retry timer does not look at the setting.
ActiveOnlyIfEnabled == state = "Active" => enabled

\* An Explorer that has exited under an active host is noticed: its wait has yet to
\* fire, or the message is in the queue with the generation that counts.
NoticesExit ==
    state = "Active" /\ session = "dead" /\ ~ending
        => watched = "dead" \/ "current" \in exits

\* Why these hold, as an inductive invariant. A host that is not running has left
\* nothing behind, and one whose Windows session ends waits for nothing.
ExitingInv == ~Running => /\ ~ending /\ ~retryTimer /\ session = "none"
                          /\ watched = "none" /\ exits = {}
EndingInv  == ending => ~retryTimer /\ watched = "none" /\ "current" \notin exits

\* Only a host that is switched on retries.
RetryInv == retryTimer => enabled

\* A live session belongs to the Explorer that runs; that one is watched while the
\* host is active, and neither its wait nor a current message can speak of its end.
SessionInv ==
    /\ (session = "live" \/ watched = "live") => alive
    /\ session = "live" => watched # "dead" /\ "current" \notin exits
    /\ state = "Active" /\ ~ending /\ session = "live" => watched = "live"

IInv == /\ TypeOK /\ ExitingInv /\ EndingInv /\ RetryInv /\ SessionInv
        /\ RetryPending /\ ActiveOnlyIfEnabled /\ NoticesExit

\* Retrying ends: the host attaches, or gives up after its bounded attempts.
GivesUp ==
    state = "ExplorerUnavailable" /\ enabled
        ~> state # "ExplorerUnavailable" \/ ~enabled \/ ending

\* Why it ends: as long as the host waits, no handler gives attempts back but the
\* stable timer of an attachment before, which fires once, and each retry uses one
\* up, also one that a broadcast or an update brings forward.
Waiting     == state = "ExplorerUnavailable" /\ enabled /\ ~ending
RetriesLeft == (IF stableTimer THEN RetryLimit + 1 ELSE 0) + (RetryLimit - retryAttempt)

RetriesRunOut ==
    [][Waiting /\ Waiting' => IF RetryTimer \/ TaskbarCreated \/ StableTimer
                              THEN RetriesLeft' < RetriesLeft
                              ELSE RetriesLeft' <= RetriesLeft]_vars
=============================================================================
