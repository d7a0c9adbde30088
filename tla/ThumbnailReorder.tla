-------------------------- MODULE ThumbnailReorder --------------------------
(***************************************************************************)
(* One reordering of a task group: MoveTaskInGroup (payload/task_model.cpp)*)
(* with ApplyPointerMoves and RollbackPointerMoves                         *)
(* (payload/reorder_transaction.h).  The group keeps its windows in one    *)
(* array and every taskbar that shows the group keeps its own array of     *)
(* buttons, perhaps for some of the windows only; all of them must move    *)
(* together, and each taskbar must then be told to show the new order.     *)
(*                                                                         *)
(* All of it runs on the taskbar thread, but Explorer's TaskInclusion-     *)
(* Changed runs in the middle of it, can fail or raise an exception, and   *)
(* calls the filter hook, which hides every window while filterGate is up. *)
(*                                                                         *)
(* Not covered: the layout and the bounds of a DPA; windows that Explorer  *)
(* opens or closes inside TaskInclusionChanged; DPAs shared by taskbars,   *)
(* which the code refuses (here a taskbar that cannot be collected); an    *)
(* exception of SendMessageW or RedrawWindow in Notify, which gets past its*)
(* handler to that of MoveTaskInGroup, where nothing is rolled back.       *)
(***************************************************************************)
EXTENDS Naturals, Sequences, ArrayMove

CONSTANTS
    Windows,   \* bound: the windows of the group
    Taskbars,  \* the primary and the secondary taskbars
    None       \* no window, no taskbar

ASSUME NoneAssumption == None \notin Windows /\ None \notin Taskbars
ASSUME GroupAssumption == "group" \notin Taskbars

Arrays == {"group"} \cup Taskbars

VARIABLES
    orders,     \* each array's windows; <<>> on a taskbar without buttons
    shown,      \* what each taskbar last laid out
    hasUiAdjustment,   \* the record locates each taskbar's interface pointer
    filterGate,
    pc,
    source, destination, constructorUi,   \* the arguments
    uncollected,  \* taskbars EnumThreadWindows has yet to come to
    moves,        \* the PointerMoves: array |-> its two indices
    toNotify,     \* taskbars still to be notified
    current,      \* the one being notified
    notified,     \* no notification has failed so far
    before,       \* history: the arrays at the call
    outcome       \* what the last call returned

callVars == <<source, destination, constructorUi, before, hasUiAdjustment>>
vars == <<orders, shown, filterGate, pc, callVars, uncollected, moves, toNotify,
          current, notified, outcome>>

PCs == {"idle", "collect", "apply", "notify", "gated", "ungated", "finish",
        "returned"}
Outcomes == {"none", "moved", "refused"}

ArraysOK ==
    /\ orders \in [Arrays -> Seq(Windows)] /\ before \in [Arrays -> Seq(Windows)]
    /\ shown \in [Taskbars -> Seq(Windows)]

\* The indices of a PointerMove stay within its array.
MovesOK ==
    /\ DOMAIN moves \subseteq Arrays
    /\ \A a \in DOMAIN moves : CanMove(orders[a], moves[a].from, moves[a].to)

LocalsOK ==
    /\ pc \in PCs /\ outcome \in Outcomes
    /\ filterGate \in BOOLEAN /\ notified \in BOOLEAN /\ hasUiAdjustment \in BOOLEAN
    /\ source \in Windows \cup {None} /\ destination \in Windows \cup {None}
    /\ constructorUi \in Taskbars \cup {None} /\ current \in Taskbars \cup {None}
    /\ uncollected \subseteq Taskbars /\ toNotify \subseteq Taskbars

TypeOK == ArraysOK /\ MovesOK /\ LocalsOK

Holds(s, w)   == \E i \in 1..Len(s) : s[i] = w
IndexOf(s, w) == CHOOSE i \in 1..Len(s) : s[i] = w
Without(s, w) ==
    IF Holds(s, w)
    THEN [i \in 1..(Len(s) - 1) |-> IF i < IndexOf(s, w) THEN s[i] ELSE s[i + 1]]
    ELSE s

\* The group starts empty; OpenWindow fills it.
Init ==
    /\ orders = [a \in Arrays |-> <<>>] /\ before = orders
    /\ shown = [b \in Taskbars |-> <<>>] /\ filterGate = FALSE
    /\ hasUiAdjustment \in BOOLEAN
    /\ pc = "idle" /\ outcome = "none" /\ source = None /\ destination = None
    /\ constructorUi = None /\ current = None /\ uncollected = {}
    /\ toNotify = {} /\ moves = <<>> /\ notified = TRUE

-----------------------------------------------------------------------------
(* MoveTaskInGroup.                                                        *)

Refuse == pc' = "returned" /\ outcome' = "refused"

\* The indices of both windows in an array.
MoveIn(s) == [from |-> IndexOf(s, source'), to |-> IndexOf(s, destination')]
MoveOf(s) == [from |-> IndexOf(s, source), to |-> IndexOf(s, destination)]

\* The call: both windows are looked for in the group.
Call(from, to, ui) ==
    /\ pc = "idle"
    /\ source' = from /\ destination' = to /\ constructorUi' = ui
    /\ before' = orders /\ notified' = TRUE
    /\ IF Holds(orders["group"], from) /\ Holds(orders["group"], to) /\ from # to
       THEN /\ pc' = "collect" /\ UNCHANGED outcome
            /\ moves' = [a \in {"group"} |-> MoveIn(orders["group"])]
            /\ uncollected' = Taskbars
       ELSE Refuse /\ UNCHANGED <<moves, uncollected>>
    /\ toNotify' = {}
    /\ UNCHANGED <<orders, shown, filterGate, current, hasUiAdjustment>>

Begin == \E from, to \in Windows, ui \in Taskbars \cup {None} : Call(from, to, ui)

\* CollectTaskbar: a taskbar without buttons for the group is skipped; one that
\* lacks a window, or whose parts are not where they should be, ends the call.
Usable(s) == Holds(s, source) /\ Holds(s, destination)

CollectTaskbar ==
    /\ pc = "collect"
    /\ \E bar \in uncollected :
          /\ uncollected' = uncollected \ {bar}
          /\ \/ /\ orders[bar] = <<>>
                /\ UNCHANGED <<moves, toNotify, pc, outcome>>
             \/ /\ orders[bar] # <<>> /\ Usable(orders[bar])
                /\ moves' = [a \in DOMAIN moves \cup {bar} |->
                                IF a = bar THEN MoveOf(orders[bar]) ELSE moves[a]]
                /\ toNotify' = toNotify \cup {bar}
                /\ UNCHANGED <<pc, outcome>>
             \/ Refuse /\ UNCHANGED <<moves, toNotify>>
    /\ UNCHANGED <<orders, shown, filterGate, current, notified, callVars>>

\* The checks after the enumeration.
AllCollected ==
    /\ pc = "collect" /\ uncollected = {}
    /\ IF \/ toNotify = {}
          \/ constructorUi # None /\ hasUiAdjustment /\ constructorUi \notin toNotify
          \/ constructorUi = None /\ ~hasUiAdjustment
       THEN Refuse ELSE pc' = "apply" /\ UNCHANGED outcome
    /\ UNCHANGED <<orders, shown, filterGate, uncollected, moves, toNotify,
                   current, notified, callVars>>

\* ApplyPointerMoves and RollbackPointerMoves.  The arrays are distinct, so the
\* order of the moves does not matter.
AppliedToGroup(o, m) ==
    [o EXCEPT !["group"] = MovePointer(@, m["group"].from, m["group"].to)]
Applied(o, m) ==
    [a \in Arrays |-> IF a \in DOMAIN m THEN MovePointer(o[a], m[a].from, m[a].to)
                      ELSE o[a]]
RolledBackTwice(o, m) == Applied(o, m)
RolledBack(o, m) ==
    [a \in Arrays |-> IF a \in DOMAIN m THEN MovePointer(o[a], m[a].to, m[a].from)
                      ELSE o[a]]

\* With a constructor's interface only that one is notified.
NotifyAny == {CHOOSE b \in toNotify : TRUE}
NotifyTargets == IF constructorUi # None THEN {constructorUi} ELSE toNotify

Apply ==
    /\ pc = "apply" /\ pc' = "notify"
    /\ orders' = Applied(orders, moves)
    /\ toNotify' = NotifyTargets
    /\ UNCHANGED <<shown, filterGate, uncollected, moves, current, notified,
                   callVars, outcome>>

\* Notify, for one target after another; a failure does not stop the loop.
NotifyNext ==
    /\ pc = "notify"
    /\ \/ /\ toNotify = {} /\ pc' = "finish" /\ UNCHANGED <<toNotify, current, filterGate>>
       \/ \E bar \in toNotify :
             /\ toNotify' = toNotify \ {bar} /\ current' = bar
             /\ pc' = "gated" /\ filterGate' = TRUE
    /\ UNCHANGED <<orders, shown, uncollected, moves, notified, callVars, outcome>>

\* What TaskInclusionChanged lays out: nothing while the filter hides all.
LaidOut == IF filterGate THEN <<>> ELSE orders[current]
Lay(done) == shown' = IF done THEN [shown EXCEPT ![current] = LaidOut] ELSE shown

\* The first call of TaskInclusionChanged returns, with success or not.
FirstChanged ==
    /\ pc = "gated" /\ pc' = "ungated" /\ filterGate' = FALSE
    /\ \/ Lay(TRUE) /\ UNCHANGED notified
       \/ notified' = FALSE /\ \E done \in BOOLEAN : Lay(done)
    /\ UNCHANGED <<orders, uncollected, moves, toNotify, current, callVars, outcome>>

\* The second call returns.
SecondChanged ==
    /\ pc = "ungated" /\ pc' = "notify"
    /\ \/ Lay(TRUE) /\ UNCHANGED notified
       \/ notified' = FALSE /\ \E done \in BOOLEAN : Lay(done)
    /\ UNCHANGED <<orders, filterGate, uncollected, moves, toNotify, current,
                   callVars, outcome>>

\* Either call raises an exception, which Notify catches.
GateAfterFaultKept == filterGate
GateAfterFault == FALSE

ChangedFaults ==
    /\ pc \in {"gated", "ungated"} /\ pc' = "notify"
    /\ filterGate' = GateAfterFault /\ notified' = FALSE
    /\ \E done \in BOOLEAN : Lay(done)
    /\ UNCHANGED <<orders, uncollected, moves, toNotify, current, callVars, outcome>>

\* The end: a failed notification takes every move back.
Finish ==
    /\ pc = "finish"
    /\ IF notified THEN /\ pc' = "returned" /\ outcome' = "moved" /\ UNCHANGED orders
       ELSE Refuse /\ orders' = RolledBack(orders, moves)
    /\ UNCHANGED <<shown, filterGate, uncollected, moves, toNotify, current,
                   notified, callVars>>

\* The caller has its answer; the locals are gone.
Leave ==
    /\ pc = "returned" /\ pc' = "idle" /\ outcome' = "none"
    /\ source' = None /\ destination' = None /\ constructorUi' = None
    /\ uncollected' = {} /\ toNotify' = {} /\ moves' = <<>> /\ current' = None
    /\ notified' = TRUE /\ before' = [a \in Arrays |-> <<>>]
    /\ UNCHANGED <<orders, shown, filterGate, hasUiAdjustment>>

-----------------------------------------------------------------------------
(* Explorer, between two calls: it changes all arrays and lays out again.  *)

Relay(o) ==
    /\ orders' = o /\ shown' = [b \in Taskbars |-> o[b]]
    /\ UNCHANGED <<filterGate, pc, callVars, uncollected, moves, toNotify,
                   current, notified, outcome>>

OpenWindow ==
    /\ pc = "idle"
    /\ \E w \in Windows, bars \in SUBSET Taskbars :
          /\ ~Holds(orders["group"], w)
          /\ Relay([a \in Arrays |-> IF a = "group" \/ a \in bars
                                     THEN Append(orders[a], w) ELSE orders[a]])

CloseWindow ==
    /\ pc = "idle"
    /\ \E w \in Windows :
          /\ Holds(orders["group"], w)
          /\ Relay([a \in Arrays |-> Without(orders[a], w)])

Next == \/ Begin \/ CollectTaskbar \/ AllCollected \/ Apply \/ NotifyNext
        \/ FirstChanged \/ SecondChanged \/ ChangedFaults \/ Finish \/ Leave
        \/ OpenWindow \/ CloseWindow

Spec == Init /\ [][Next]_vars

-----------------------------------------------------------------------------
(* Properties.                                                             *)

\* A call that returns false has changed no array, whichever taskbar could not be
\* collected and whichever notification failed (MoveTaskInGroupImpl).
AllOrNothing == pc = "returned" /\ outcome = "refused" => orders = before

\* Why, inductively: until Apply the arrays are those at the call, and from then
\* on those with every collected move applied, which Finish can take back.
Moved == pc \in {"notify", "gated", "ungated", "finish"}

ReorderInv ==
    /\ \A a \in DOMAIN moves : CanMove(before[a], moves[a].from, moves[a].to)
    /\ pc = "idle" => moves = <<>>
    /\ pc \in {"collect", "apply"} => orders = before
    /\ Moved => orders = Applied(before, moves)
    /\ pc \in {"gated", "ungated"} => current \in Taskbars

\* The filter hides the windows of the taskbar during the first notification
\* only; an exception in it does not leave them hidden (Notify; the build plan,
\* line 956: "always restore TaskItemFilter state ... even on failure").
FilterRestored == filterGate => pc = "gated"

\* Every taskbar lists its windows in the order of the group between calls, also
\* a taskbar that shows some of them only: the two indices are found per array.
Precedes(s, v, w) == \E i, j \in 1..Len(s) : i < j /\ s[i] = v /\ s[j] = w

InStep ==
    pc \in {"idle", "returned"} =>
        \A b \in Taskbars : \A i, j \in 1..Len(orders[b]) :
            i < j => Precedes(orders["group"], orders[b][i], orders[b][j])

\* After a successful call the window is where the other one was, in the group
\* and on every taskbar with buttons for it ("update all taskbar instances").
MovedEverywhere ==
    pc = "returned" /\ outcome = "moved" =>
        \A a \in Arrays : orders[a] # <<>> =>
            orders[a][IndexOf(before[a], destination)] = source

\* After a successful call without a constructor's interface every taskbar shows
\* what its array says.
ShownAfterMove ==
    pc = "returned" /\ outcome = "moved" /\ constructorUi = None =>
        \A b \in Taskbars : shown[b] = orders[b]

-----------------------------------------------------------------------------
(* What a caller sees.                                                     *)

\* A call is one step: the arrays change when it returns true, all of them and in
\* the same way, and not at all when it returns false.  What the notifications see
\* in between is hidden.
Settled == IF Moved THEN before ELSE orders

Reorder == INSTANCE AtomicReorder WITH Lists <- Arrays, lists <- Settled, answer <- outcome
Atomic == Reorder!Spec
=============================================================================
