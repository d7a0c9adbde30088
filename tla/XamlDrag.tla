------------------------------- MODULE XamlDrag -------------------------------
(***************************************************************************)
(* Dragging in the XAML flyout (payload/xaml_backend.cpp).  The payload    *)
(* knows a thumbnail only as the index of a realised element of the        *)
(* flyout, and has to find out which window that is: it looks the index up *)
(* in the vector that Explorer named when it last chose what the flyout    *)
(* shows (currentThumbnails), and the object found there in a bounded      *)
(* table of what each thumbnail was constructed for (mappings).  Both are  *)
(* weak, both were filled at some earlier time, and thumbnails, windows    *)
(* and the payload's own sessions come and go in between.                  *)
(*                                                                         *)
(* The detours and the commands run on the taskbar thread, one at a time.  *)
(* Explorer's part is external: a flyout shows the vector that Explorer    *)
(* asked for while it resolved the target; a click comes with the release  *)
(* of the button; a moved task takes its thumbnail along.  The payload may *)
(* fail to record what the flyout turned to.                               *)
(*                                                                         *)
(* Not covered: an exception that leaves TargetItemKey and with it         *)
(* resolvingTarget up; the path through the visual tree and its limit of   *)
(* 256 elements; the end of a vector, after which the code finds none; the *)
(* arrays behind a move (ThumbnailReorder).                                *)
(***************************************************************************)
EXTENDS Naturals, Sequences, FiniteSets, ArrayMove

CONSTANTS
    Thumbnails,      \* bound: thumbnail objects, by address
    Groups,          \* task groups
    Uis,             \* the task lists of the taskbars
    Tasks,           \* task items, by address
    None,
    Animated,        \* the record's BackendAnimatedXaml
    kMaximumThumbnailMappings,
    MaxOrder,        \* bound: mappings added in a session
    MaxGeneration    \* the generation wraps here, the code's at 2^64 - 1

Lists == Groups \X Uis
Contexts == [taskGroup : Groups, taskItem : Tasks, taskListUi : Uis]

ASSUME NoneAssumption ==
    None \notin Thumbnails /\ None \notin Lists /\ None \notin Contexts
ASSUME BoundAssumption ==
    /\ kMaximumThumbnailMappings \in Nat \ {0} /\ MaxOrder \in Nat
    /\ MaxGeneration \in Nat \ {0} /\ Animated \in BOOLEAN

VARIABLES
    built,       \* what each live thumbnail was constructed for
    vector,      \* the thumbnails of each group on each taskbar
    flyout,      \* the vector that the flyout shows
    pressed,     \* the thumbnail that is held, with the mouse capture
    enabled, faulted, patched,  \* State, and the detours
    mappings, mappingOrder, mappingGeneration,
    currentThumbnails,
    reordered,
    missed,      \* history: the flyout turned, and an older vector stands
    moved,       \* history: this press has reordered, the payload in charge
    activated    \* history: the click of such a press reached Explorer

shellVars == <<built, vector, flyout>>
gateVars == <<enabled, faulted, patched>>
tableVars == <<mappings, mappingOrder, mappingGeneration>>
shownVars == <<currentThumbnails, missed>>
pastVars == <<moved, activated>>
vars == <<shellVars, pressed, gateVars, tableVars, shownVars, reordered,
          pastVars>>

Mapping == [thumbnail : Thumbnails \cup {None}, context : Contexts,
            generation : 1..MaxGeneration, order : 1..MaxOrder]

FlagsOK ==
    /\ enabled \in BOOLEAN /\ faulted \in BOOLEAN
    /\ patched \in BOOLEAN /\ reordered \in BOOLEAN
    /\ missed \in BOOLEAN /\ moved \in BOOLEAN /\ activated \in BOOLEAN

ShellOK ==
    /\ built \in [Thumbnails -> Contexts \cup {None}]
    /\ vector \in [Lists -> Seq(Thumbnails)]
    /\ flyout \in Lists \cup {None}
    /\ pressed \in Thumbnails \cup {None}

\* The table stays within its limit.
TableOK ==
    /\ mappings \subseteq Mapping /\ IsFiniteSet(mappings)
    /\ Cardinality(mappings) <= kMaximumThumbnailMappings
    /\ mappingOrder \in 0..MaxOrder /\ mappingGeneration \in 1..MaxGeneration
    /\ currentThumbnails \in Lists \cup {None}

TypeOK == FlagsOK /\ ShellOK /\ TableOK

Init ==
    /\ built = [t \in Thumbnails |-> None] /\ vector = [l \in Lists |-> <<>>]
    /\ flyout = None /\ pressed = None
    /\ enabled = FALSE /\ faulted = FALSE /\ patched = FALSE
    /\ mappings = {} /\ mappingOrder = 0 /\ mappingGeneration = 1
    /\ currentThumbnails = None /\ reordered = FALSE
    /\ missed = FALSE /\ moved = FALSE /\ activated = FALSE

-----------------------------------------------------------------------------
(* The table.                                                              *)

Live(ms) == {m \in ms : m.thumbnail # None}
Newer(ms, m) == {n \in ms : n.order >= m.order}

\* Prune: dead mappings go, then the oldest ones over the limit.
Prune(ms) ==
    {m \in Live(ms) : Cardinality(Newer(Live(ms), m)) <= kMaximumThumbnailMappings}

\* AddMapping replaces what is dead, of the same object or of the same task.
SupersededByObject(m, t, c) == m.thumbnail \in {None, t}
Superseded(m, t, c) ==
    \/ m.thumbnail \in {None, t}
    \/ m.context.taskGroup = c.taskGroup /\ m.context.taskItem = c.taskItem

NewMapping(t, c) == [thumbnail |-> t, context |-> c,
                     generation |-> mappingGeneration, order |-> mappingOrder + 1]

AddMapping(t, c) ==
    /\ mappingOrder < MaxOrder /\ mappingOrder' = mappingOrder + 1
    /\ mappings' = Prune({m \in mappings : ~Superseded(m, t, c)} \cup {NewMapping(t, c)})

\* A weak reference to an object that has been destroyed yields nothing, also
\* when another object has its address.
Expired(ms, t) ==
    {IF m.thumbnail = t THEN [m EXCEPT !.thumbnail = None] ELSE m : m \in ms}

-----------------------------------------------------------------------------
(* Thumbnails come and go.                                                 *)

Shows(l, w) == \E i \in 1..Len(vector[l]) : built[vector[l][i]].taskItem = w
InVector(l, t) == \E i \in 1..Len(vector[l]) : vector[l][i] = t

\* Constructor1Hook and Constructor2Hook; QueryInterface or the allocation may
\* fail, which leaves the thumbnail without a mapping.
Constructed(t, c) ==
    \/ enabled /\ AddMapping(t, c) /\ UNCHANGED mappingGeneration
    \/ UNCHANGED tableVars

Construct ==
    \E t \in Thumbnails, l \in Lists, w \in Tasks :
        LET c == [taskGroup |-> l[1], taskItem |-> w, taskListUi |-> l[2]] IN
        /\ built[t] = None /\ ~Shows(l, w)
        /\ built' = [built EXCEPT ![t] = c]
        /\ vector' = [vector EXCEPT ![l] = Append(@, t)]
        /\ Constructed(t, c)
        /\ UNCHANGED <<flyout, pressed, gateVars, shownVars,
                       reordered, pastVars>>

\* A window closes: its thumbnail leaves the flyout, and may live on.
Remove ==
    \E l \in Lists : \E i \in 1..Len(vector[l]) :
        /\ vector' = [vector EXCEPT ![l] =
              [j \in 1..(Len(@) - 1) |-> IF j < i THEN @[j] ELSE @[j + 1]]]
        /\ UNCHANGED <<built, flyout, pressed, gateVars, tableVars,
                       shownVars, reordered, pastVars>>

\* The last reference to a thumbnail goes; its address may be used again.  The
\* capture keeps the one that is held.
Destroy ==
    \E t \in Thumbnails :
        /\ built[t] # None /\ t # pressed /\ \A l \in Lists : ~InVector(l, t)
        /\ built' = [built EXCEPT ![t] = None]
        /\ mappings' = Expired(mappings, t)
        /\ UNCHANGED <<vector, flyout, pressed, gateVars, mappingOrder,
                       mappingGeneration, shownVars, reordered, pastVars>>

\* ThumbnailsHook.  It records nothing when the original returns null, when its
\* object is no IInspectable, or when the weak reference cannot be made.
ThumbnailsHookAlways(l, resolvingTarget, recorded) ==
    IF enabled /\ recorded /\ currentThumbnails # l
    THEN currentThumbnails' = l /\ mappings' = Prune(mappings)
    ELSE UNCHANGED <<currentThumbnails, mappings>>
ThumbnailsHook(l, resolvingTarget, recorded) ==
    IF enabled /\ resolvingTarget /\ recorded /\ currentThumbnails # l
    THEN currentThumbnails' = l /\ mappings' = Prune(mappings)
    ELSE UNCHANGED <<currentThumbnails, mappings>>

\* TargetHook: the flyout turns to another button, recorded or not.
Target ==
    \E l \in Lists, recorded \in {FALSE, enabled} :
        /\ flyout' = l /\ ThumbnailsHook(l, TRUE, recorded)
        /\ missed' = (enabled /\ ~recorded /\ currentThumbnails \notin {None, l})
        /\ UNCHANGED <<built, vector, pressed, gateVars, mappingOrder,
                       mappingGeneration, reordered, pastVars>>

\* Explorer asks for the thumbnails of a group on another occasion; with the gate
\* closed, the detour only forwards.
OtherThumbnails ==
    \E l \in Lists :
        /\ enabled /\ ThumbnailsHook(l, FALSE, TRUE)
        /\ UNCHANGED <<shellVars, missed, pressed, gateVars, mappingOrder,
                       mappingGeneration, reordered, pastVars>>

-----------------------------------------------------------------------------
(* The pointer.                                                            *)

\* GetCapture.
capture == pressed # None

SameReorderContext(f, t) ==
    /\ f.generation = mappingGeneration /\ t.generation = mappingGeneration
    /\ f.context.taskGroup = t.context.taskGroup
    /\ f.context.taskItem # t.context.taskItem
    /\ f.context.taskListUi = t.context.taskListUi

\* What MoveTaskInGroup does, when it succeeds, to the flyout it notifies.
Place(l, w) == CHOOSE i \in 1..Len(vector[l]) : built[vector[l][i]].taskItem = w

MoveTaskInGroup(c, to) ==
    LET l == <<c.taskGroup, c.taskListUi>> IN
    /\ Shows(l, c.taskItem) /\ Shows(l, to)
    /\ vector' = [vector EXCEPT ![l] = MovePointer(@, Place(l, c.taskItem), Place(l, to))]

\* MoveXaml: indices of the flyout, looked up in currentThumbnails.
MoveXaml(from, to) ==
    /\ Animated => from = to + 1 \/ to = from + 1
    /\ currentThumbnails # None
    /\ CanMove(vector[currentThumbnails], from, to)
    /\ \E f, t \in mappings :
          /\ f.thumbnail = vector[currentThumbnails][from]
          /\ t.thumbnail = vector[currentThumbnails][to]
          /\ SameReorderContext(f, t)
          /\ MoveTaskInGroup(f.context, t.context.taskItem)

\* PointerLogic finds both elements, and moves the one that is held.
MovesPressed ==
    \E p, h \in 1..Len(vector[flyout]) :
        vector[flyout][p] = pressed /\ p # h /\ MoveXaml(p, h)

\* An element may not be realised, and the group may refuse the move.
PointerLogic ==
    IF enabled /\ capture
    THEN \/ MovesPressed /\ reordered' = TRUE
         \/ UNCHANGED <<vector, reordered>>
    ELSE reordered' = FALSE /\ UNCHANGED vector

\* Explorer presses a thumbnail and takes the capture.
Press ==
    /\ flyout # None /\ ~capture
    /\ pressed' \in {t \in Thumbnails : InVector(flyout, t)}
    /\ moved' = FALSE /\ activated' = FALSE
    /\ UNCHANGED <<shellVars, gateVars, tableVars, shownVars, reordered>>

\* PointerHook.
PointerMoved ==
    /\ patched /\ flyout # None /\ PointerLogic
    /\ moved' = (moved \/ vector' # vector)
    /\ UNCHANGED <<built, flyout, pressed, gateVars, tableVars,
                   shownVars, activated>>

\* MarkFault.  From here on Explorer is on its own.
MarkFault == enabled' = FALSE /\ faulted' = TRUE /\ missed' = FALSE

\* PointerGuard: an exception before the move, or in the original after it.
PointerFaults ==
    /\ patched /\ flyout # None /\ PointerLogic
    /\ MarkFault /\ moved' = FALSE
    /\ UNCHANGED <<built, flyout, pressed, patched, tableVars,
                   currentThumbnails, activated>>

\* The button is released, and Explorer calls HandleExtendedUIClick, which is
\* behind ClickHook, when it takes this for a click.
Swallows == enabled /\ reordered

ClickHook ==
    /\ reordered' = IF enabled THEN FALSE ELSE reordered
    /\ activated' = (moved /\ ~Swallows)

Release ==
    /\ capture /\ pressed' = None /\ moved' = FALSE
    /\ ClickHook \/ UNCHANGED <<reordered, activated>>
    /\ UNCHANGED <<shellVars, gateVars, tableVars, shownVars>>

\* PositionHook; with the capture it leaves the flyout where it is.
DragOverAnyway == TRUE
DragOver == ~capture

Position ==
    /\ enabled /\ ~Animated /\ reordered /\ DragOver /\ reordered' = FALSE
    /\ UNCHANGED <<shellVars, pressed, gateVars, tableVars, shownVars,
                   pastVars>>

-----------------------------------------------------------------------------
(* The commands.                                                           *)

\* DisableXaml.
Cleared == mappings' = {} /\ currentThumbnails' = None /\ missed' = FALSE

NextGeneration == IF mappingGeneration = MaxGeneration THEN 1 ELSE mappingGeneration + 1

DisableXaml ==
    /\ patched' = FALSE /\ Cleared /\ mappingOrder' = 0
    /\ mappingGeneration' = NextGeneration /\ reordered' = FALSE

\* EnableXaml, then the gate of ProcessCommand; or everything is taken back.
Enable ==
    /\ ~enabled /\ ~faulted
    /\ \/ /\ patched' = TRUE /\ enabled' = TRUE
          /\ UNCHANGED <<faulted, tableVars, shownVars, reordered>>
       \/ DisableXaml /\ MarkFault
    /\ moved' = FALSE /\ UNCHANGED <<shellVars, pressed, activated>>

\* Disable and PrepareUnload; a callback that does not return stops them.
Disable ==
    /\ moved' = FALSE
    /\ \/ enabled' = FALSE /\ DisableXaml /\ UNCHANGED faulted
       \/ /\ patched /\ MarkFault
          /\ UNCHANGED <<patched, tableVars, currentThumbnails, reordered>>
    /\ UNCHANGED <<shellVars, pressed, activated>>

Next == \/ Construct \/ Remove \/ Destroy \/ Target \/ OtherThumbnails
        \/ Press \/ PointerMoved \/ PointerFaults \/ Release \/ Position
        \/ Enable \/ Disable

Spec == Init /\ [][Next]_vars

-----------------------------------------------------------------------------
(* Properties.                                                             *)

\* Whatever the table says of a thumbnail that lives is true of it, although its
\* address may have had another object and its task another thumbnail; no two
\* mappings are for one object, for one task or of one age; and a table of an
\* earlier session is gone (AddMapping, Prune, DisableXaml).
MappingsOK ==
    /\ \A m \in mappings :
          /\ m.generation = mappingGeneration /\ m.order <= mappingOrder
          /\ m.thumbnail # None => built[m.thumbnail] = m.context
    /\ \A m, n \in mappings :
          m # n => /\ m.order # n.order
                   /\ m.thumbnail = n.thumbnail => m.thumbnail = None
                   /\ \/ m.context.taskGroup # n.context.taskGroup
                      \/ m.context.taskItem # n.context.taskItem
    /\ enabled => patched
    /\ ~patched => mappings = {} /\ currentThumbnails = None

\* A drag reorders the remembered vector only, and takes in it what has the index
\* of the held thumbnail in the flyout, although a table names the window (MoveXaml).
\* The vector is the shown one, and so the window the held one, unless
\* ThumbnailsHook failed to record the last turn of the flyout: then the drag moves
\* a window of the group that was shown before.
OnlyPressedMoves ==
    [][\A l \in Lists :
          vector'[l] # vector[l] /\ Len(vector'[l]) = Len(vector[l]) =>
              /\ l = currentThumbnails /\ (~missed => l = flyout)
              /\ \E p \in 1..Len(vector[flyout]), h \in 1..Len(vector[l]) :
                    /\ capture /\ vector[flyout][p] = pressed
                    /\ vector'[l] = MovePointer(vector[l], p, h)]_vars

\* "A successful reorder must not activate a different window on button release"
\* (the build plan, line 1011), as long as the payload is in charge.
NoActivationAfterReorder == ~activated
=============================================================================
