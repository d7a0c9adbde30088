----------------------------- MODULE ClassicDrag -----------------------------
(***************************************************************************)
(* Dragging in the classic thumbnail window (payload/classic_backend.cpp): *)
(* WndLogic behind WndGuard and WndHook, EnableClassic and DisableClassic, *)
(* with the gate and the callback drain of ProcessCommand                  *)
(* (payload/payload_state.cpp) that decide when DisableClassic runs.       *)
(*                                                                         *)
(* All of it is on the taskbar thread.  What makes it hard is nesting: the *)
(* original window procedure may pump messages before it returns, so the   *)
(* second half of a WM_LBUTTONDOWN can run after anything, PrepareUnload   *)
(* included; and ReleaseCapture sends WM_CAPTURECHANGED to the same hook   *)
(* before it returns.                                                      *)
(*                                                                         *)
(* Not covered: the Aero Peek timer, the pointer geometry (the hovered     *)
(* index and the threshold are chosen freely), more than one suspended     *)
(* button-down, and the arrays behind a move (ThumbnailReorder).           *)
(***************************************************************************)
EXTENDS Naturals, Sequences, FiniteSets, SequencesExt, ArrayMove

CONSTANT Windows    \* bound: the windows that may be in the group

ASSUME WindowsAssumption == IsFiniteSet(Windows)

VARIABLES
    order,         \* the thumbnails, as the task group orders them
    capture,       \* the thumbnail window owns the mouse capture
    enabled, faulted, patched,   \* the gate, the fault flag, the detours
    frame,         \* "down": wndOriginal(WM_LBUTTONDOWN) has not returned
    dragged,       \* index being dragged; 0 for the code's -1
    dragDone, dragThresholdMet,
    cooling,       \* at most 60 ms since inclusionTick
    grabbed,       \* history: the window under the pointer at the press
    shifted,       \* history: a window at or before `dragged` has closed since
    moved,         \* history: this press has reordered
    activated      \* history: the release of such a press reached Explorer

dragVars == <<dragged, dragDone, dragThresholdMet>>
pastVars == <<grabbed, shifted, moved, activated>>
vars == <<order, capture, enabled, faulted, patched, frame, dragVars, cooling,
          pastVars>>

TypeOK ==
    /\ order \in Seq(Windows) /\ IsInjective(order)
    /\ {capture, enabled, faulted, patched, cooling} \subseteq BOOLEAN
    /\ {dragDone, dragThresholdMet, shifted, moved, activated} \subseteq BOOLEAN
    /\ frame \in {"none", "down"}
    /\ dragged \in Nat /\ grabbed \in Windows

Init ==
    /\ order \in SetToAllKPermutations(Windows) /\ Len(order) > 1
    /\ capture = FALSE /\ enabled = FALSE /\ faulted = FALSE /\ patched = FALSE
    /\ frame = "none" /\ dragged = 0 /\ dragDone = FALSE
    /\ dragThresholdMet = FALSE /\ cooling = FALSE
    /\ grabbed \in Windows /\ shifted = FALSE /\ moved = FALSE /\ activated = FALSE

-----------------------------------------------------------------------------
(* The window procedure.                                                   *)

\* WndLogic does more than call the original.
Custom == patched /\ enabled /\ ~faulted

ResetDrag == dragged' = 0 /\ dragDone' = FALSE /\ dragThresholdMet' = FALSE

\* WM_CAPTURECHANGED: also sent, before ReleaseCapture returns, to the window
\* that calls ReleaseCapture.
CaptureGoneUnheeded == UNCHANGED dragVars
CaptureGone == IF Custom THEN ResetDrag ELSE UNCHANGED dragVars

\* WndGuard: the fault is marked and the message goes to the original.
MarkFault == enabled' = FALSE /\ faulted' = TRUE

\* WM_LBUTTONDOWN reaches WndHook, which calls the original first.
ButtonDown ==
    /\ Custom /\ frame = "none" /\ frame' = "down"
    /\ moved' = FALSE /\ activated' = FALSE
    /\ UNCHANGED <<order, capture, enabled, faulted, patched, dragVars, cooling,
                   grabbed, shifted>>

\* The original returns; the gate is not looked at again.
StartDrag(at) ==
    /\ dragged' = at /\ dragDone' = FALSE /\ dragThresholdMet' = FALSE
    /\ capture' = TRUE

ButtonDownReturns ==
    /\ frame = "down" /\ frame' = "none"
    /\ \/ /\ \E at \in 1..Len(order) :
                StartDrag(at) /\ grabbed' = order[at] /\ shifted' = FALSE
          /\ UNCHANGED <<enabled, faulted>>
       \/ UNCHANGED <<capture, enabled, faulted, dragVars, grabbed, shifted>>
       \/ MarkFault /\ UNCHANGED <<capture, dragVars, grabbed, shifted>>
    /\ UNCHANGED <<order, patched, cooling, moved, activated>>

\* Move(object, dragged, at) succeeded: the array, then the tick, then the drag
\* state of WndLogic.
AdvanceKeeping(at) == dragged' = dragged /\ dragDone' = TRUE
Advance(at) == dragged' = at /\ dragDone' = TRUE

Reorder(at) ==
    /\ CanMove(order, dragged, at) /\ at # dragged
    /\ order' = MovePointer(order, dragged, at) /\ moved' = TRUE

\* WM_MOUSEMOVE with the capture.  The group may refuse the move.
PointerMove ==
    /\ Custom /\ capture /\ ~cooling
    /\ \E over \in BOOLEAN : dragThresholdMet' = (dragThresholdMet \/ over)
    /\ \/ /\ dragThresholdMet'
          /\ \E at \in 1..Len(order) : Reorder(at) /\ Advance(at)
          /\ cooling' = TRUE /\ UNCHANGED <<enabled, faulted>>
       \/ UNCHANGED <<order, dragged, dragDone, cooling, moved, enabled, faulted>>
    /\ UNCHANGED <<capture, patched, frame, grabbed, shifted, activated>>

\* An exception in the logic of WM_MOUSEMOVE: before the move, or in Explorer's
\* TaskReordered after it, when the group has its new order already.
PointerMoveFaults ==
    /\ Custom /\ capture /\ ~cooling /\ MarkFault
    /\ \/ dragThresholdMet /\ \E at \in 1..Len(order) : Reorder(at)
       \/ UNCHANGED <<order, moved>>
    /\ UNCHANGED <<capture, patched, frame, dragVars, cooling, grabbed, shifted,
                   activated>>

\* WM_LBUTTONUP: dragDone is read after ReleaseCapture.
DoneAfterRelease == IF Custom THEN FALSE ELSE dragDone

ButtonUp ==
    /\ patched
    /\ IF ~Custom THEN
          /\ activated' = moved
          /\ UNCHANGED <<capture, dragVars>>
       ELSE IF capture THEN
          /\ capture' = FALSE /\ ResetDrag
          /\ activated' = (moved /\ ~DoneAfterRelease)
       ELSE
          /\ dragged' = 0 /\ dragThresholdMet' = FALSE
          /\ activated' = moved
          /\ UNCHANGED <<capture, dragDone>>
    /\ moved' = FALSE
    /\ UNCHANGED <<order, enabled, faulted, patched, frame, cooling, grabbed, shifted>>

\* WM_CANCELMODE, or another window takes the capture.
CaptureEnds ==
    /\ patched /\ capture /\ capture' = FALSE /\ CaptureGone
    /\ UNCHANGED <<order, enabled, faulted, patched, frame, cooling, pastVars>>

\* 60 ms pass.
CoolDown ==
    /\ cooling /\ cooling' = FALSE
    /\ UNCHANGED <<order, capture, enabled, faulted, patched, frame, dragVars, pastVars>>

-----------------------------------------------------------------------------
(* The commands, which arrive in a message of the same thread.             *)

\* Enable: refused after a fault; nothing to do when enabled already.
EnableClassic ==
    /\ ~patched /\ ~faulted /\ patched' = TRUE /\ enabled' = TRUE
    /\ UNCHANGED <<order, capture, faulted, frame, dragVars, cooling, pastVars>>

\* PrepareUnload: the gate closes; a hook of this thread that has not returned
\* makes the drain time out; otherwise DisableClassic runs.
DrainedAnyway == TRUE
Drained == frame = "none"

PrepareUnload ==
    /\ patched /\ enabled' = FALSE
    /\ IF Drained
       THEN /\ capture' = FALSE /\ patched' = FALSE /\ ResetDrag
            /\ UNCHANGED faulted
       ELSE /\ faulted' = TRUE /\ UNCHANGED <<capture, patched, dragVars>>
    /\ UNCHANGED <<order, frame, cooling, pastVars>>

\* The DLL is unloaded and loaded again: fresh statics.
FreshDll ==
    /\ ~patched /\ faulted /\ faulted' = FALSE
    /\ UNCHANGED <<order, capture, enabled, patched, frame, dragVars, cooling, pastVars>>

-----------------------------------------------------------------------------
(* The windows of the group.                                               *)

CloseWindow ==
    /\ \E i \in 1..Len(order) :
          /\ order' = RemoveAt(order, i)
          /\ shifted' = (shifted \/ i <= dragged)
    /\ UNCHANGED <<capture, enabled, faulted, patched, frame, dragVars, cooling,
                   grabbed, moved, activated>>

OpenWindow ==
    /\ \E w \in Windows \ ToSet(order) : order' = Append(order, w)
    /\ UNCHANGED <<capture, enabled, faulted, patched, frame, dragVars, cooling, pastVars>>

Next == \/ ButtonDown \/ ButtonDownReturns \/ PointerMove \/ PointerMoveFaults
        \/ ButtonUp \/ CaptureEnds \/ CoolDown
        \/ EnableClassic \/ PrepareUnload \/ FreshDll
        \/ CloseWindow \/ OpenWindow

Spec == Init /\ [][Next]_vars

-----------------------------------------------------------------------------
(* Properties.                                                             *)

\* The index that Move reads names the window the user pressed on, through any
\* number of moves, failed moves and interrupted presses, as long as no window
\* before it has closed (WndLogic, WM_MOUSEMOVE).
DraggedIsGrabbed ==
    Custom /\ capture /\ dragged > 0 /\ ~shifted => order[dragged] = grabbed

\* With the detours removed nothing of a drag is left: the capture is released
\* (the build plan, line 1012) and the next EnableClassic starts clean, even when
\* the removal met a button-down that had not returned.
NothingLeftBehind ==
    ~patched => ~capture /\ dragged = 0 /\ ~dragDone /\ ~dragThresholdMet

\* dragDone never outlives the capture of the drag that set it: a release of
\* some later press is not taken for the end of that drag.
DoneMeansCaptured == Custom /\ dragDone => capture /\ dragThresholdMet

\* A drag moves one window: the others keep their order, whichever moves the
\* group refuses and whichever handler faults half way (Move, WM_MOUSEMOVE).
Precedes(s, v, w) == \E i, j \in 1..Len(s) : i < j /\ s[i] = v /\ s[j] = w
OnlyGrabbedMoves ==
    [][Len(order') = Len(order) /\ ~shifted =>
          \A v, w \in Windows \ {grabbed} :
              Precedes(order', v, w) = Precedes(order, v, w)]_order

\* "A successful reorder must not activate a different window on button release"
\* (the build plan, line 1011).  Not so: ReleaseCapture in WM_LBUTTONUP makes the
\* hook handle WM_CAPTURECHANGED, which resets dragDone before it is read.
NoActivationAfterReorder == ~activated
=============================================================================
