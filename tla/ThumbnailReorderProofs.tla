----------------------- MODULE ThumbnailReorderProofs -----------------------
(***************************************************************************)
(* ThumbnailReorder proved for every set of windows and of taskbars: a call*)
(* that is refused has changed no array, one that succeeds has moved the   *)
(* window everywhere, the taskbars stay in step with the group, and the    *)
(* filter hides windows only during the first notification.                *)
(*                                                                         *)
(* The argument.  RollbackPointerMoves undoes ApplyPointerMoves because a  *)
(* move from one index to another is undone by the move back (MoveUndone), *)
(* for any array and any two indices in it.  From Apply to Finish the      *)
(* arrays are those at the call with the collected moves applied.          *)
(* A taskbar lists a part of the group's windows in the same order; moving *)
(* the same two windows in both (MoveTogether) keeps that, as do windows   *)
(* that come and go.                                                       *)
(* To its caller the whole call is one step of AtomicReorder: the mapping  *)
(* shows the arrays as they were at the call until Finish has decided.     *)
(***************************************************************************)
EXTENDS ThumbnailReorder, SequenceTheorems, TLAPS

-----------------------------------------------------------------------------
(* MovePointer.                                                            *)

\* The result has the same length and windows.
LEMMA MoveTyped ==
  ASSUME NEW S, NEW s \in Seq(S), NEW f \in 1..Len(s), NEW t \in 1..Len(s)
  PROVE  MovePointer(s, f, t) \in Seq(S) /\ Len(MovePointer(s, f, t)) = Len(s)
<1>1. \A i \in 1..Len(s) : /\ s[i] \in S
                           /\ f <= i /\ i < t => s[i + 1] \in S
                           /\ t < i /\ i <= f => s[i - 1] \in S
  OBVIOUS
<1>2. MovePointer(s, f, t) \in [1..Len(s) -> S]
  BY <1>1 DEF MovePointer
<1>3. QED BY <1>2

\* Moving back undoes a move.
LEMMA MoveUndone ==
  ASSUME NEW S, NEW s \in Seq(S), NEW f \in 1..Len(s), NEW t \in 1..Len(s)
  PROVE  MovePointer(MovePointer(s, f, t), t, f) = s
<1> DEFINE m == MovePointer(s, f, t)
<1>1. m = [i \in 1..Len(s) |-> IF i = t THEN s[f]
                               ELSE IF f <= i /\ i < t THEN s[i + 1]
                               ELSE IF t < i /\ i <= f THEN s[i - 1]
                               ELSE s[i]]
  BY DEF MovePointer
<1>2. m \in Seq(S) /\ Len(m) = Len(s)
  BY MoveTyped
<1> HIDE DEF m
<1>3. ASSUME NEW i \in 1..Len(s) PROVE MovePointer(m, t, f)[i] = s[i]
  BY <1>1, <1>2 DEF MovePointer
<1>4. MovePointer(m, t, f) = [i \in 1..Len(s) |-> s[i]]
  BY <1>2, <1>3 DEF MovePointer
<1>5. QED BY <1>4 DEF m

\* The moves of a call, applied or taken back, leave every array one of windows
\* of the same length.
LEMMA AppliedTyped ==
  ASSUME NEW o \in [Arrays -> Seq(Windows)], NEW m, DOMAIN m \subseteq Arrays,
         \A a \in DOMAIN m : CanMove(o[a], m[a].from, m[a].to)
  PROVE  /\ Applied(o, m) \in [Arrays -> Seq(Windows)]
         /\ RolledBack(o, m) \in [Arrays -> Seq(Windows)]
         /\ \A a \in Arrays : Len(Applied(o, m)[a]) = Len(o[a])
         /\ \A a \in Arrays : Len(RolledBack(o, m)[a]) = Len(o[a])
<1>1. ASSUME NEW a \in Arrays
      PROVE  /\ Applied(o, m)[a] \in Seq(Windows)
             /\ Len(Applied(o, m)[a]) = Len(o[a])
             /\ RolledBack(o, m)[a] \in Seq(Windows)
             /\ Len(RolledBack(o, m)[a]) = Len(o[a])
  <2>1. CASE a \in DOMAIN m
    <3>1. m[a].from \in 1..Len(o[a]) /\ m[a].to \in 1..Len(o[a])
      BY <2>1, Zenon DEF CanMove
    <3>2. QED BY <2>1, <3>1, MoveTyped DEF Applied, RolledBack
  <2>2. CASE a \notin DOMAIN m
    BY <2>2 DEF Applied, RolledBack
  <2>3. QED BY <2>1, <2>2
<1>2. QED BY <1>1, Zenon DEF Applied, RolledBack

\* RollbackPointerMoves undoes ApplyPointerMoves.
LEMMA RollbackUndoes ==
  ASSUME NEW o \in [Arrays -> Seq(Windows)], NEW m, DOMAIN m \subseteq Arrays,
         \A a \in DOMAIN m : CanMove(o[a], m[a].from, m[a].to)
  PROVE  RolledBack(Applied(o, m), m) = o
<1>1. ASSUME NEW a \in Arrays PROVE RolledBack(Applied(o, m), m)[a] = o[a]
  <2>1. CASE a \in DOMAIN m
    <3>1. m[a].from \in 1..Len(o[a]) /\ m[a].to \in 1..Len(o[a])
      BY <2>1, Zenon DEF CanMove
    <3>2. o[a] \in Seq(Windows)
      OBVIOUS
    <3>3. MovePointer(MovePointer(o[a], m[a].from, m[a].to), m[a].to, m[a].from) = o[a]
      BY <3>1, <3>2, MoveUndone
    <3>4. QED BY <2>1, <3>3 DEF Applied, RolledBack
  <2>2. CASE a \notin DOMAIN m
    BY <2>2 DEF Applied, RolledBack
  <2>3. QED BY <2>1, <2>2
<1>2. QED BY <1>1, Zenon DEF RolledBack

\* An index that is looked for is in the array.
LEMMA IndexInRange ==
  ASSUME NEW s, NEW w, Holds(s, w)
  PROVE  IndexOf(s, w) \in 1..Len(s) /\ s[IndexOf(s, w)] = w
BY Zenon DEF Holds, IndexOf

\* Taking a window out leaves an array of windows.
LEMMA WithoutTyped ==
  ASSUME NEW s \in Seq(Windows), NEW w
  PROVE  Without(s, w) \in Seq(Windows)
<1>1. CASE Holds(s, w)
  <2>1. IndexOf(s, w) \in 1..Len(s)
    BY <1>1, IndexInRange
  <2>2. Without(s, w) \in [1..(Len(s) - 1) -> Windows]
    BY <1>1, <2>1 DEF Without
  <2>3. QED BY <2>1, <2>2
<1>2. CASE ~Holds(s, w)
  BY <1>2 DEF Without
<1>3. QED BY <1>1, <1>2

-----------------------------------------------------------------------------
(* The invariant.                                                          *)

\* What the steps of one call keep; ReorderInv is why AllOrNothing holds.
IInv == TypeOK /\ ReorderInv /\ AllOrNothing /\ FilterRestored

\* It holds before the first call.
LEMMA InitIInv == Init => IInv
<1> SUFFICES ASSUME Init PROVE IInv
  OBVIOUS
<1> USE DEF Init
<1>1. DOMAIN moves = {}
  OBVIOUS
<1>2. ArraysOK
  BY DEF ArraysOK
<1>3. LocalsOK
  BY Zenon DEF LocalsOK, PCs, Outcomes
<1>4. QED
  BY <1>1, <1>2, <1>3, Zenon
  DEF IInv, TypeOK, MovesOK, ReorderInv, AllOrNothing, FilterRestored, Moved

\* The call finds both indices in the group or refuses; nothing is moved yet.
LEMMA BeginKeeps ==
  ASSUME IInv, Begin PROVE IInv'
<1> USE DEF IInv, TypeOK, callVars, Begin, Call, Refuse
<1>1. ArraysOK'
  BY Zenon DEF ArraysOK
<1>2. MovesOK'
  <2>1. CASE pc' = "collect"
    <3>1. moves' = [a \in {"group"} |-> MoveIn(orders["group"])]
      BY <2>1, Zenon
    <3>2. Holds(orders["group"], source') /\ Holds(orders["group"], destination')
      BY <2>1, Zenon
    <3>3. CanMove(orders["group"], moves'["group"].from, moves'["group"].to)
      BY <3>1, <3>2, IndexInRange DEF CanMove, MoveIn
    <3>4. DOMAIN moves' = {"group"} /\ orders' = orders
      BY <3>1, Zenon
    <3>5. QED BY <3>3, <3>4, Zenon DEF MovesOK, Arrays
  <2>2. CASE pc' # "collect"
    BY <2>2, Zenon DEF MovesOK
  <2>3. QED BY <2>1, <2>2
<1>3. LocalsOK'
  BY Zenon DEF LocalsOK, PCs, Outcomes
<1>4. ReorderInv'
  <2>1. before' = orders /\ orders' = orders /\ pc' \in {"collect", "returned"}
    BY Zenon
  <2>2. QED BY <1>2, <2>1, Zenon DEF ReorderInv, MovesOK, Moved
<1>5. AllOrNothing'
  BY Zenon DEF AllOrNothing
<1>6. FilterRestored'
  <2>1. ~filterGate /\ filterGate' = filterGate
    BY Zenon DEF FilterRestored
  <2>2. QED BY <2>1, Zenon DEF FilterRestored
<1>7. QED BY <1>1, <1>2, <1>3, <1>4, <1>5, <1>6

\* Collecting only adds moves whose indices were found in that taskbar's array.
LEMMA CollectTaskbarKeeps ==
  ASSUME IInv, CollectTaskbar PROVE IInv'
<1> USE DEF IInv, TypeOK, callVars, CollectTaskbar, Refuse, Usable
<1>1. ArraysOK'
  BY Zenon DEF ArraysOK
<1>2. MovesOK'
  <2>1. ASSUME NEW bar \in uncollected, Usable(orders[bar]),
               moves' = [a \in DOMAIN moves \cup {bar} |->
                            IF a = bar THEN MoveOf(orders[bar]) ELSE moves[a]]
        PROVE  MovesOK'
    <3>1. CanMove(orders[bar], MoveOf(orders[bar]).from, MoveOf(orders[bar]).to)
      BY <2>1, IndexInRange DEF CanMove, MoveOf
    <3>2. bar \in Arrays /\ orders' = orders
      BY Zenon DEF LocalsOK, Arrays
    <3>3. QED BY <2>1, <3>1, <3>2 DEF MovesOK
  <2>2. moves' = moves => MovesOK'
    BY Zenon DEF MovesOK
  <2>3. QED BY <2>1, <2>2, Zenon
<1>3. LocalsOK'
  BY Zenon DEF LocalsOK, PCs, Outcomes
<1>4. ReorderInv'
  <2>1. orders = before /\ UNCHANGED <<orders, before>> /\ pc' \in {"collect", "returned"}
    BY Zenon DEF ReorderInv
  <2>2. QED BY <1>2, <2>1, Zenon DEF ReorderInv, MovesOK, Moved
<1>5. AllOrNothing'
  BY Zenon DEF AllOrNothing, ReorderInv
<1>6. FilterRestored'
  BY Zenon DEF FilterRestored
<1>7. QED BY <1>1, <1>2, <1>3, <1>4, <1>5, <1>6

\* The checks after the enumeration touch no array.
LEMMA AllCollectedKeeps ==
  ASSUME IInv, AllCollected PROVE IInv'
<1> USE DEF IInv, TypeOK, callVars, AllCollected, Refuse
<1>1. ArraysOK'
  BY Zenon DEF ArraysOK
<1>2. MovesOK'
  BY Zenon DEF MovesOK
<1>3. LocalsOK'
  BY Zenon DEF LocalsOK, PCs, Outcomes
<1>4. ReorderInv'
  BY SMTT(20) DEF ReorderInv, Moved
<1>5. AllOrNothing'
  BY Zenon DEF AllOrNothing, ReorderInv
<1>6. FilterRestored'
  BY Zenon DEF FilterRestored
<1>7. QED BY <1>1, <1>2, <1>3, <1>4, <1>5, <1>6

\* Apply establishes that the arrays are those at the call with the moves applied.
LEMMA ApplyKeeps ==
  ASSUME IInv, Apply PROVE IInv'
<1> USE DEF IInv, TypeOK, callVars, Apply, NotifyTargets
<1>1. ArraysOK'
  <2>1. orders' \in [Arrays -> Seq(Windows)]
    BY AppliedTyped, Zenon DEF ArraysOK, MovesOK
  <2>2. QED BY <2>1, Zenon DEF ArraysOK
<1>2. MovesOK'
  <2>1. \A a \in Arrays : Len(orders'[a]) = Len(orders[a])
    BY AppliedTyped, Zenon DEF ArraysOK, MovesOK
  <2>2. QED BY <2>1, Zenon DEF MovesOK, CanMove
<1>3. LocalsOK'
  BY SMT DEF LocalsOK, PCs, Outcomes
<1>4. ReorderInv'
  BY SMTT(20) DEF ReorderInv, Moved
<1>5. AllOrNothing'
  BY Zenon DEF AllOrNothing
<1>6. FilterRestored'
  BY Zenon DEF FilterRestored
<1>7. QED BY <1>1, <1>2, <1>3, <1>4, <1>5, <1>6

\* The gate goes up only on the way to the first notification.
LEMMA NotifyNextKeeps ==
  ASSUME IInv, NotifyNext PROVE IInv'
<1> USE DEF IInv, TypeOK, callVars, NotifyNext
<1>1. ArraysOK'
  BY Zenon DEF ArraysOK
<1>2. MovesOK'
  BY Zenon DEF MovesOK
<1>3. LocalsOK'
  <2>1. pc' \in PCs /\ current' \in Taskbars \cup {None} /\ toNotify' \subseteq Taskbars
    BY Zenon DEF LocalsOK, PCs
  <2>2. filterGate' \in BOOLEAN
    BY Zenon DEF LocalsOK
  <2>3. QED BY <2>1, <2>2, Zenon DEF LocalsOK
<1>4. ReorderInv'
  <2>1. UNCHANGED <<orders, before, moves>> /\ pc = "notify"
    BY Zenon
  <2>2. pc' = "finish" \/ (pc' = "gated" /\ current' \in Taskbars)
    BY Zenon DEF LocalsOK
  <2>3. QED BY <2>1, <2>2, Zenon DEF ReorderInv, Moved
<1>5. AllOrNothing'
  BY Zenon DEF AllOrNothing
<1>6. FilterRestored'
  <2>1. ~filterGate
    BY Zenon DEF FilterRestored
  <2>2. pc' = "gated" \/ filterGate' = filterGate
    BY Zenon
  <2>3. QED BY <2>1, <2>2, Zenon DEF FilterRestored
<1>7. QED BY <1>1, <1>2, <1>3, <1>4, <1>5, <1>6

\* What a notification lays out is an array of windows.
LEMMA LayTyped ==
  ASSUME ArraysOK, current \in Taskbars, NEW done \in BOOLEAN, Lay(done)
  PROVE  shown' \in [Taskbars -> Seq(Windows)]
<1>1. LaidOut \in Seq(Windows)
  BY DEF ArraysOK, Arrays, LaidOut
<1>2. QED BY <1>1 DEF ArraysOK, Lay

\* The first notification lowers the gate and lays out one taskbar.
LEMMA FirstChangedKeeps ==
  ASSUME IInv, FirstChanged PROVE IInv'
<1> USE DEF IInv, TypeOK, callVars, FirstChanged
<1>1. ArraysOK'
  <2>1. current \in Taskbars /\ \E done \in BOOLEAN : Lay(done)
    BY Zenon DEF ReorderInv
  <2>2. shown' \in [Taskbars -> Seq(Windows)]
    BY <2>1, LayTyped, Zenon
  <2>3. QED BY <2>2, Zenon DEF ArraysOK
<1>2. MovesOK'
  BY Zenon DEF MovesOK
<1>3. LocalsOK'
  BY Zenon DEF LocalsOK, PCs, Outcomes
<1>4. ReorderInv'
  BY SMTT(20) DEF ReorderInv, Moved
<1>5. AllOrNothing'
  BY Zenon DEF AllOrNothing
<1>6. FilterRestored'
  BY Zenon DEF FilterRestored
<1>7. QED BY <1>1, <1>2, <1>3, <1>4, <1>5, <1>6

\* The second notification lays out again; the gate is down already.
LEMMA SecondChangedKeeps ==
  ASSUME IInv, SecondChanged PROVE IInv'
<1> USE DEF IInv, TypeOK, callVars, SecondChanged
<1>1. ArraysOK'
  <2>1. current \in Taskbars /\ \E done \in BOOLEAN : Lay(done)
    BY Zenon DEF ReorderInv
  <2>2. shown' \in [Taskbars -> Seq(Windows)]
    BY <2>1, LayTyped, Zenon
  <2>3. QED BY <2>2, Zenon DEF ArraysOK
<1>2. MovesOK'
  BY Zenon DEF MovesOK
<1>3. LocalsOK'
  BY Zenon DEF LocalsOK, PCs, Outcomes
<1>4. ReorderInv'
  BY SMTT(20) DEF ReorderInv, Moved
<1>5. AllOrNothing'
  BY Zenon DEF AllOrNothing
<1>6. FilterRestored'
  BY Zenon DEF FilterRestored
<1>7. QED BY <1>1, <1>2, <1>3, <1>4, <1>5, <1>6

\* The exception handler lowers the gate.
LEMMA ChangedFaultsKeeps ==
  ASSUME IInv, ChangedFaults PROVE IInv'
<1> USE DEF IInv, TypeOK, callVars, ChangedFaults, GateAfterFault
<1>1. ArraysOK'
  <2>1. current \in Taskbars /\ \E done \in BOOLEAN : Lay(done)
    BY Zenon DEF ReorderInv
  <2>2. shown' \in [Taskbars -> Seq(Windows)]
    BY <2>1, LayTyped, Zenon
  <2>3. QED BY <2>2, Zenon DEF ArraysOK
<1>2. MovesOK'
  BY Zenon DEF MovesOK
<1>3. LocalsOK'
  BY Zenon DEF LocalsOK, PCs, Outcomes
<1>4. ReorderInv'
  BY SMTT(20) DEF ReorderInv, Moved
<1>5. AllOrNothing'
  BY Zenon DEF AllOrNothing
<1>6. FilterRestored'
  BY Zenon DEF FilterRestored
<1>7. QED BY <1>1, <1>2, <1>3, <1>4, <1>5, <1>6

\* A failed call takes every move back, which RollbackUndoes says restores the arrays.
LEMMA FinishKeeps ==
  ASSUME IInv, Finish PROVE IInv'
<1> USE DEF IInv, TypeOK, callVars, Finish, Refuse
<1>1. ArraysOK'
  <2>1. orders' \in [Arrays -> Seq(Windows)]
    <3>1. orders' = orders \/ orders' = RolledBack(orders, moves)
      BY Zenon
    <3>2. RolledBack(orders, moves) \in [Arrays -> Seq(Windows)]
      BY AppliedTyped, Zenon DEF ArraysOK, MovesOK
    <3>3. QED BY <3>1, <3>2, Zenon DEF ArraysOK
  <2>2. QED BY <2>1, Zenon DEF ArraysOK
<1>2. MovesOK'
  <2>1. \A a \in Arrays : Len(orders'[a]) = Len(orders[a])
    <3>1. CASE orders' = orders
      BY <3>1
    <3>2. CASE orders' = RolledBack(orders, moves)
      BY <3>2, AppliedTyped, Zenon DEF ArraysOK, MovesOK
    <3>3. QED BY <3>1, <3>2, Zenon
  <2>2. QED BY <2>1, Zenon DEF MovesOK, CanMove
<1>3. LocalsOK'
  BY Zenon DEF LocalsOK, PCs, Outcomes
<1>4. ReorderInv'
  BY Zenon DEF ReorderInv, Moved
<1>5. AllOrNothing'
  <2>1. RolledBack(Applied(before, moves), moves) = before
    BY RollbackUndoes, Zenon DEF ArraysOK, MovesOK, ReorderInv
  <2>2. orders = Applied(before, moves)
    BY Zenon DEF ReorderInv, Moved
  <2>3. QED BY <2>1, <2>2, Zenon DEF AllOrNothing
<1>6. FilterRestored'
  BY Zenon DEF FilterRestored
<1>7. QED BY <1>1, <1>2, <1>3, <1>4, <1>5, <1>6

\* The next call starts without moves.
LEMMA LeaveKeeps ==
  ASSUME IInv, Leave PROVE IInv'
<1> USE DEF IInv, TypeOK, callVars, Leave
<1>1. ArraysOK'
  BY SMT DEF ArraysOK
<1>2. MovesOK'
  BY SMT DEF MovesOK
<1>3. LocalsOK'
  BY SMT DEF LocalsOK, PCs, Outcomes
<1>4. ReorderInv'
  BY SMTT(20) DEF ReorderInv, Moved
<1>5. AllOrNothing'
  BY Zenon DEF AllOrNothing
<1>6. FilterRestored'
  BY Zenon DEF FilterRestored
<1>7. QED BY <1>1, <1>2, <1>3, <1>4, <1>5, <1>6

\* Explorer changes arrays only between calls, where no move is pending.
LEMMA OpenWindowKeeps ==
  ASSUME IInv, OpenWindow PROVE IInv'
<1> USE DEF IInv, TypeOK, callVars, OpenWindow, Relay
<1>1. ArraysOK'
  <2>1. PICK w \in Windows, bars \in SUBSET Taskbars :
           orders' = [a \in Arrays |-> IF a = "group" \/ a \in bars
                                       THEN Append(orders[a], w) ELSE orders[a]]
    BY Zenon
  <2>2. orders' \in [Arrays -> Seq(Windows)]
    BY <2>1 DEF ArraysOK
  <2>3. shown' = [b \in Taskbars |-> orders'[b]]
    BY Zenon
  <2>4. shown' \in [Taskbars -> Seq(Windows)]
    BY <2>2, <2>3, Zenon DEF Arrays
  <2>5. QED BY <2>2, <2>4, Zenon DEF ArraysOK
<1>2. MovesOK'
  <2>1. moves' = <<>>
    BY Zenon DEF ReorderInv
  <2>2. QED BY <2>1 DEF MovesOK
<1>3. LocalsOK'
  BY Zenon DEF LocalsOK, PCs, Outcomes
<1>4. ReorderInv'
  <2>1. moves' = <<>> /\ pc' = "idle"
    BY Zenon DEF ReorderInv
  <2>2. QED BY <2>1 DEF ReorderInv, Moved
<1>5. AllOrNothing'
  BY Zenon DEF AllOrNothing
<1>6. FilterRestored'
  <2>1. ~filterGate /\ filterGate' = filterGate
    BY Zenon DEF FilterRestored
  <2>2. QED BY <2>1, Zenon DEF FilterRestored
<1>7. QED BY <1>1, <1>2, <1>3, <1>4, <1>5, <1>6

\* The same for a closed window.
LEMMA CloseWindowKeeps ==
  ASSUME IInv, CloseWindow PROVE IInv'
<1> USE DEF IInv, TypeOK, callVars, CloseWindow, Relay
<1>1. ArraysOK'
  <2>1. PICK w \in Windows : orders' = [a \in Arrays |-> Without(orders[a], w)]
    BY Zenon
  <2>2. orders' \in [Arrays -> Seq(Windows)]
    BY <2>1, WithoutTyped, Zenon DEF ArraysOK
  <2>3. shown' = [b \in Taskbars |-> orders'[b]]
    BY Zenon
  <2>4. shown' \in [Taskbars -> Seq(Windows)]
    BY <2>2, <2>3, Zenon DEF Arrays
  <2>5. QED BY <2>2, <2>4, Zenon DEF ArraysOK
<1>2. MovesOK'
  <2>1. moves' = <<>>
    BY Zenon DEF ReorderInv
  <2>2. QED BY <2>1 DEF MovesOK
<1>3. LocalsOK'
  BY Zenon DEF LocalsOK, PCs, Outcomes
<1>4. ReorderInv'
  <2>1. moves' = <<>> /\ pc' = "idle"
    BY Zenon DEF ReorderInv
  <2>2. QED BY <2>1 DEF ReorderInv, Moved
<1>5. AllOrNothing'
  BY Zenon DEF AllOrNothing
<1>6. FilterRestored'
  <2>1. ~filterGate /\ filterGate' = filterGate
    BY Zenon DEF FilterRestored
  <2>2. QED BY <2>1, Zenon DEF FilterRestored
<1>7. QED BY <1>1, <1>2, <1>3, <1>4, <1>5, <1>6

\* Every step keeps the invariant.
LEMMA NextKeeps ==
  ASSUME IInv, [Next]_vars PROVE IInv'
<1>1. CASE Next
  BY <1>1, BeginKeeps, CollectTaskbarKeeps, AllCollectedKeeps, ApplyKeeps,
     NotifyNextKeeps, FirstChangedKeeps, SecondChangedKeeps, ChangedFaultsKeeps,
     FinishKeeps, LeaveKeeps, OpenWindowKeeps, CloseWindowKeeps
  DEF Next
<1>2. CASE UNCHANGED vars
  <2> USE <1>2 DEF IInv, vars, callVars
  <2>1. TypeOK'
    BY Zenon DEF TypeOK, ArraysOK, MovesOK, LocalsOK
  <2>2. ReorderInv' /\ AllOrNothing' /\ FilterRestored'
    BY Zenon DEF ReorderInv, AllOrNothing, FilterRestored, Moved
  <2>3. QED BY <2>1, <2>2
<1>3. QED BY <1>1, <1>2

-----------------------------------------------------------------------------
(* The theorems.                                                           *)

\* During and between calls, whatever Explorer answers.
THEOREM InductiveInvariant == Spec => []IInv
<1>1. IInv /\ [Next]_vars => IInv'
  BY NextKeeps
<1>2. QED BY InitIInv, <1>1, PTL DEF Spec

\* Every index of a PointerMove stays within its array, and every array holds
\* windows, also after moves are taken back.
THEOREM TypeCorrect == Spec => []TypeOK
<1>1. IInv => TypeOK
  BY DEF IInv
<1>2. QED BY InductiveInvariant, <1>1, PTL

\* From ApplyPointerMoves to the end of MoveTaskInGroup the arrays are those at
\* the call with exactly the collected moves applied.
THEOREM ReorderInvHolds == Spec => []ReorderInv
<1>1. IInv => ReorderInv
  BY DEF IInv
<1>2. QED BY InductiveInvariant, <1>1, PTL

\* MoveTaskInGroup moves everything or nothing: whatever could not be collected
\* and whichever notification failed, a false result leaves all arrays as found.
THEOREM AllOrNothingHolds == Spec => []AllOrNothing
<1>1. IInv => AllOrNothing
  BY DEF IInv
<1>2. QED BY InductiveInvariant, <1>1, PTL

\* The filter hides windows only during the first notification of a taskbar.
THEOREM FilterRestoredHolds == Spec => []FilterRestored
<1>1. IInv => FilterRestored
  BY DEF IInv
<1>2. QED BY InductiveInvariant, <1>1, PTL

-----------------------------------------------------------------------------
(* Why the taskbars stay in step with the group.                           *)

\* No window is listed twice.
OneEach(s) == \A i, j \in 1..Len(s) : s[i] = s[j] => i = j

\* s lists some of the windows of g, in g's order.
Subsequence(s, g) ==
    \E P \in [1..Len(s) -> 1..Len(g)] :
        /\ \A i \in 1..Len(s) : s[i] = g[P[i]]
        /\ \A i, j \in 1..Len(s) : i < j => P[i] < P[j]

Ordered(o) ==
    /\ OneEach(o["group"])
    /\ \A b \in Taskbars : Subsequence(o[b], o["group"])

\* A call that has got past its first checks.
Underway ==
    \/ pc \in {"collect", "apply"} \/ Moved
    \/ pc = "returned" /\ outcome = "moved"

\* The collected moves are those of the two windows, in every array that has any.
CollectInv ==
    Underway =>
        /\ "group" \in DOMAIN moves
        /\ \A a \in DOMAIN moves : Usable(before[a]) /\ moves[a] = MoveOf(before[a])
        /\ \A b \in Taskbars :
              \/ b \in DOMAIN moves \/ before[b] = <<>>
              \/ pc = "collect" /\ b \in uncollected
        /\ pc = "returned" => orders = Applied(before, moves)

\* While no notification has failed, a taskbar shows its array or will be notified.
ShownInv ==
    /\ \A b \in Taskbars : orders[b] = <<>> => shown[b] = <<>>
    /\ pc \in {"collect", "apply"} => \A b \in Taskbars : b \in DOMAIN moves => b \in toNotify
    /\ Underway /\ pc \notin {"collect", "apply"} /\ constructorUi = None /\ notified =>
          \A b \in Taskbars : \/ shown[b] = orders[b] \/ b \in toNotify
                              \/ pc \in {"gated", "ungated"} /\ b = current
    /\ pc = "finish" => toNotify = {}
    /\ pc = "returned" /\ outcome = "moved" => toNotify = {} /\ notified

OrderInv == Ordered(orders) /\ Ordered(before)

\* A move lists no window twice.
LEMMA MoveOneEach ==
  ASSUME NEW S, NEW s \in Seq(S), NEW f \in 1..Len(s), NEW t \in 1..Len(s), OneEach(s)
  PROVE  OneEach(MovePointer(s, f, t))
<1> DEFINE m == MovePointer(s, f, t)
           From(i) == IF i = t THEN f ELSE IF f <= i /\ i < t THEN i + 1
                      ELSE IF t < i /\ i <= f THEN i - 1 ELSE i
<1>1. Len(m) = Len(s)
  BY MoveTyped
<1>2. \A i \in 1..Len(s) : From(i) \in 1..Len(s) /\ m[i] = s[From(i)]
  BY DEF MovePointer
<1>3. \A i, j \in 1..Len(s) : From(i) = From(j) => i = j
  OBVIOUS
<1>4. \A i, j \in 1..Len(s) : s[i] = s[j] => i = j
  BY DEF OneEach
<1> HIDE DEF m, From
<1>5. ASSUME NEW i \in 1..Len(s), NEW j \in 1..Len(s), m[i] = m[j] PROVE i = j
  <2>1. s[From(i)] = s[From(j)] /\ From(i) \in 1..Len(s) /\ From(j) \in 1..Len(s)
    BY <1>2, <1>5
  <2>2. From(i) = From(j)
    BY <1>4, <2>1
  <2>3. QED BY <1>3, <2>2
<1>6. OneEach(m)
  BY <1>1, <1>5 DEF OneEach
<1>7. QED BY <1>6 DEF m

\* The same two windows, moved in a list and in a part of it, leave the one a part
\* of the other: a move shifts what lies between by one, in the list as in its part.
LEMMA MoveTogether ==
  ASSUME NEW S, NEW s \in Seq(S), NEW g \in Seq(S), OneEach(g), Subsequence(s, g),
         NEW fs \in 1..Len(s), NEW ts \in 1..Len(s),
         NEW fg \in 1..Len(g), NEW tg \in 1..Len(g), s[fs] = g[fg], s[ts] = g[tg]
  PROVE  Subsequence(MovePointer(s, fs, ts), MovePointer(g, fg, tg))
<1>1. PICK P \in [1..Len(s) -> 1..Len(g)] :
         /\ \A i \in 1..Len(s) : s[i] = g[P[i]]
         /\ \A i, j \in 1..Len(s) : i < j => P[i] < P[j]
  BY DEF Subsequence
<1>2. P[fs] = fg /\ P[ts] = tg
  BY <1>1 DEF OneEach
<1> DEFINE From(i) == IF i = ts THEN fs ELSE IF fs <= i /\ i < ts THEN i + 1
                      ELSE IF ts < i /\ i <= fs THEN i - 1 ELSE i
           To(p) == IF p = fg THEN tg ELSE IF fg < p /\ p <= tg THEN p - 1
                    ELSE IF tg <= p /\ p < fg THEN p + 1 ELSE p
           Q == [i \in 1..Len(s) |-> To(P[From(i)])]
           ms == MovePointer(s, fs, ts)
           mg == MovePointer(g, fg, tg)
<1>3. Len(ms) = Len(s) /\ Len(mg) = Len(g)
  BY MoveTyped
<1>4. \A i \in 1..Len(s) : From(i) \in 1..Len(s) /\ ms[i] = s[From(i)]
  BY DEF MovePointer
<1>5. \A p \in 1..Len(g) : To(p) \in 1..Len(g) /\ mg[To(p)] = g[p]
  BY DEF MovePointer
<1>6. \A i, j \in 1..Len(s) : i < j => To(P[From(i)]) < To(P[From(j)])
  <2> SUFFICES ASSUME NEW i \in 1..Len(s), NEW j \in 1..Len(s), i < j
               PROVE  To(P[From(i)]) < To(P[From(j)])
    OBVIOUS
  <2> DEFINE a == From(i)
             b == From(j)
  <2>1. /\ a \in 1..Len(s) /\ b \in 1..Len(s)
        /\ i # ts /\ j # ts => a # fs /\ b # fs /\ a < b
        /\ i = ts => a = fs /\ b # fs /\ b >= ts /\ (fs <= ts => b > ts)
        /\ j = ts => b = fs /\ a # fs /\ a <= ts /\ (ts <= fs => a < ts)
    OBVIOUS
  <2>2. /\ P[a] \in 1..Len(g) /\ P[b] \in 1..Len(g)
        /\ a < b => P[a] < P[b]
        /\ a < fs => P[a] < fg
        /\ a > fs => P[a] > fg
        /\ b < fs => P[b] < fg
        /\ b > fs => P[b] > fg
        /\ a < ts => P[a] < tg
        /\ a > ts => P[a] > tg
        /\ b < ts => P[b] < tg
        /\ b > ts => P[b] > tg
        /\ a = ts => P[a] = tg
        /\ b = ts => P[b] = tg
        /\ fs < ts => fg < tg
        /\ fs > ts => fg > tg
        /\ fs = ts => fg = tg
    BY <1>1, <1>2, <2>1
  <2> HIDE DEF a, b
  <2>3. To(P[a]) < To(P[b])
    <3>1. CASE i # ts /\ j # ts
      <4>1. /\ P[a] # fg /\ P[b] # fg /\ P[a] < P[b]
            /\ P[a] \in 1..Len(g) /\ P[b] \in 1..Len(g)
        <5>1. a \in Nat /\ b \in Nat /\ a # fs /\ b # fs /\ a < b
          BY <2>1, <3>1
        <5>2. (a < fs \/ a > fs) /\ (b < fs \/ b > fs)
          BY <5>1
        <5>3. P[a] \in 1..Len(g) /\ P[b] \in 1..Len(g) /\ P[a] < P[b]
          BY <2>2, <5>1
        <5>4. P[a] # fg /\ P[b] # fg
          BY <2>2, <5>2, <5>3
        <5>5. QED BY <5>3, <5>4
      <4>2. \A p, q \in 1..Len(g) : p # fg /\ q # fg /\ p < q => To(p) < To(q)
        OBVIOUS
      <4> HIDE DEF To
      <4>3. QED BY <4>1, <4>2
    <3>2. CASE i = ts
      BY <1>2, <2>1, <2>2, <3>2
    <3>3. CASE j = ts
      BY <1>2, <2>1, <2>2, <3>3
    <3>4. QED BY <3>1, <3>2, <3>3
  <2>4. QED BY <2>3 DEF a, b
<1> HIDE DEF From, To, ms, mg
<1>7. Q \in [1..Len(ms) -> 1..Len(mg)]
  BY <1>3, <1>4, <1>5
<1>8. \A i \in 1..Len(ms) : ms[i] = mg[Q[i]]
  <2>1. ASSUME NEW i \in 1..Len(s) PROVE ms[i] = mg[To(P[From(i)])]
    <3>1. From(i) \in 1..Len(s) /\ ms[i] = s[From(i)]
      BY <1>4
    <3>2. P[From(i)] \in 1..Len(g) /\ s[From(i)] = g[P[From(i)]]
      BY <1>1, <3>1
    <3>3. mg[To(P[From(i)])] = g[P[From(i)]]
      BY <1>5, <3>2
    <3>4. QED BY <3>1, <3>2, <3>3
  <2>2. QED BY <1>3, <2>1
<1>9. \A i, j \in 1..Len(ms) : i < j => Q[i] < Q[j]
  BY <1>3, <1>6
<1> HIDE DEF Q
<1>10. Subsequence(ms, mg)
  BY <1>7, <1>8, <1>9 DEF Subsequence
<1>11. QED BY <1>10 DEF ms, mg

\* What Without leaves where.
LEMMA WithoutEntries ==
  ASSUME NEW S, NEW s \in Seq(S), NEW w, Holds(s, w)
  PROVE  /\ IndexOf(s, w) \in 1..Len(s) /\ Len(Without(s, w)) = Len(s) - 1
         /\ \A i \in 1..Len(s) - 1 :
               Without(s, w)[i] = IF i < IndexOf(s, w) THEN s[i] ELSE s[i + 1]
<1>1. IndexOf(s, w) \in 1..Len(s)
  BY IndexInRange
<1>2. QED BY <1>1 DEF Without

\* A window that goes leaves a list without doubles, and its part a part of it.
LEMMA WithoutOneEach ==
  ASSUME NEW S, NEW s \in Seq(S), NEW w, OneEach(s)
  PROVE  OneEach(Without(s, w))
<1>1. CASE Holds(s, w)
  <2> DEFINE r == Without(s, w)
             k == IndexOf(s, w)
  <2>1. k \in 1..Len(s) /\ Len(r) = Len(s) - 1
    BY <1>1, WithoutEntries
  <2>2. \A i \in 1..Len(s) - 1 : r[i] = IF i < k THEN s[i] ELSE s[i + 1]
    BY <1>1, WithoutEntries
  <2> HIDE DEF r, k
  <2>3. OneEach(r)
    BY <2>1, <2>2 DEF OneEach
  <2>4. QED BY <2>3 DEF r
<1>2. CASE ~Holds(s, w)
  BY <1>2 DEF Without
<1>3. QED BY <1>1, <1>2

LEMMA WithoutTogether ==
  ASSUME NEW S, NEW s \in Seq(S), NEW g \in Seq(S), OneEach(g), Subsequence(s, g),
         NEW w, Holds(g, w)
  PROVE  Subsequence(Without(s, w), Without(g, w))
<1>1. PICK P \in [1..Len(s) -> 1..Len(g)] :
         /\ \A i \in 1..Len(s) : s[i] = g[P[i]]
         /\ \A i, j \in 1..Len(s) : i < j => P[i] < P[j]
  BY DEF Subsequence
<1> DEFINE k == IndexOf(g, w)
           l == IF Holds(s, w) THEN IndexOf(s, w) ELSE Len(s) + 1
           r == Without(s, w)
           rg == Without(g, w)
           From(i) == IF i < l THEN i ELSE i + 1
           To(p) == IF p < k THEN p ELSE p - 1
           Q == [i \in 1..Len(r) |-> To(P[From(i)])]
<1>2. /\ k \in 1..Len(g) /\ g[k] = w /\ Len(rg) = Len(g) - 1
      /\ \A i \in 1..Len(g) - 1 : rg[i] = IF i < k THEN g[i] ELSE g[i + 1]
  BY WithoutEntries, IndexInRange
<1>3. /\ l \in 1..Len(s) + 1
      /\ \A i \in 1..Len(r) : /\ From(i) \in 1..Len(s) /\ r[i] = s[From(i)]
                              /\ From(i) # l
      /\ \A i \in 1..Len(s) : P[i] = k => i = l
      /\ Len(r) \in Nat
  <2>1. CASE Holds(s, w)
    <3>1. /\ l \in 1..Len(s) /\ s[l] = w /\ Len(r) = Len(s) - 1
          /\ \A i \in 1..Len(s) - 1 : r[i] = IF i < l THEN s[i] ELSE s[i + 1]
      BY <2>1, WithoutEntries, IndexInRange
    <3>2. P[l] = k
      BY <1>1, <1>2, <3>1 DEF OneEach
    <3> HIDE DEF l, r, k
    <3>3. \A i \in 1..Len(s) : P[i] = k => i = l
      BY <1>1, <3>1, <3>2
    <3>4. QED BY <3>1, <3>3
  <2>2. CASE ~Holds(s, w)
    <3>1. r = s /\ l = Len(s) + 1
      BY <2>2 DEF Without
    <3>2. \A i \in 1..Len(s) : P[i] # k
      BY <1>1, <1>2, <2>2 DEF Holds
    <3> HIDE DEF l, r, k
    <3>3. QED BY <3>1, <3>2
  <2>3. QED BY <2>1, <2>2
<1> HIDE DEF k, l, r, rg
<1>4. \A p \in 1..Len(g) : p # k => To(p) \in 1..Len(rg) /\ rg[To(p)] = g[p]
  BY <1>2
<1>5. \A i \in 1..Len(r) : P[From(i)] \in 1..Len(g) /\ P[From(i)] # k
  BY <1>1, <1>3
<1>6. \A i, j \in 1..Len(r) : i < j => To(P[From(i)]) < To(P[From(j)])
  <2> SUFFICES ASSUME NEW i \in 1..Len(r), NEW j \in 1..Len(r), i < j
               PROVE  To(P[From(i)]) < To(P[From(j)])
    OBVIOUS
  <2>1. From(i) < From(j)
    BY <1>3
  <2> HIDE DEF From
  <2>2. P[From(i)] < P[From(j)]
    BY <1>1, <1>3, <2>1
  <2>3. QED BY <1>2, <1>5, <2>2
<1> HIDE DEF From, To
<1>7. Q \in [1..Len(r) -> 1..Len(rg)]
  BY <1>4, <1>5
<1>8. \A i \in 1..Len(r) : r[i] = rg[Q[i]]
  <2>1. ASSUME NEW i \in 1..Len(r) PROVE r[i] = rg[To(P[From(i)])]
    <3>1. From(i) \in 1..Len(s) /\ r[i] = s[From(i)]
      BY <1>3
    <3>2. s[From(i)] = g[P[From(i)]]
      BY <1>1, <3>1
    <3>3. rg[To(P[From(i)])] = g[P[From(i)]]
      BY <1>4, <1>5
    <3>4. QED BY <3>1, <3>2, <3>3
  <2>2. QED BY <2>1
<1>9. \A i, j \in 1..Len(r) : i < j => Q[i] < Q[j]
  BY <1>6
<1> HIDE DEF Q
<1>10. Subsequence(r, rg)
  BY <1>7, <1>8, <1>9 DEF Subsequence
<1>11. QED BY <1>10 DEF r, rg

\* A window that comes is the last of the list, and of its part if it is in it.
LEMMA AppendOneEach ==
  ASSUME NEW S, NEW s \in Seq(S), NEW w \in S, OneEach(s), ~Holds(s, w)
  PROVE  OneEach(Append(s, w))
<1> DEFINE r == Append(s, w)
<1>1. Len(r) = Len(s) + 1 /\ r[Len(s) + 1] = w /\ \A i \in 1..Len(s) : r[i] = s[i]
  OBVIOUS
<1>2. \A i \in 1..Len(s) : s[i] # w
  BY DEF Holds
<1> HIDE DEF r
<1>3. OneEach(r)
  BY <1>1, <1>2 DEF OneEach
<1>4. QED BY <1>3 DEF r

LEMMA AppendTogether ==
  ASSUME NEW S, NEW s \in Seq(S), NEW g \in Seq(S), NEW w \in S, Subsequence(s, g)
  PROVE  Subsequence(s, Append(g, w)) /\ Subsequence(Append(s, w), Append(g, w))
<1>1. PICK P \in [1..Len(s) -> 1..Len(g)] :
         /\ \A i \in 1..Len(s) : s[i] = g[P[i]]
         /\ \A i, j \in 1..Len(s) : i < j => P[i] < P[j]
  BY DEF Subsequence
<1> DEFINE r == Append(s, w)
           rg == Append(g, w)
           Q == [i \in 1..Len(r) |-> IF i = Len(r) THEN Len(rg) ELSE P[i]]
<1>2. Len(r) = Len(s) + 1 /\ r[Len(s) + 1] = w /\ \A i \in 1..Len(s) : r[i] = s[i]
  OBVIOUS
<1>3. Len(rg) = Len(g) + 1 /\ rg[Len(g) + 1] = w /\ \A i \in 1..Len(g) : rg[i] = g[i]
  OBVIOUS
<1> HIDE DEF r, rg
<1>4. P \in [1..Len(s) -> 1..Len(rg)]
  BY <1>3
<1>5. \A i \in 1..Len(s) : s[i] = rg[P[i]]
  BY <1>1, <1>3
<1>6. Subsequence(s, rg)
  BY <1>1, <1>4, <1>5 DEF Subsequence
<1>7. Q \in [1..Len(r) -> 1..Len(rg)]
  BY <1>2, <1>3
<1>8. \A i \in 1..Len(r) : r[i] = rg[Q[i]]
  <2>1. ASSUME NEW i \in 1..Len(r) PROVE r[i] = rg[Q[i]]
    <3>1. CASE i = Len(r)
      BY <1>2, <1>3, <3>1
    <3>2. CASE i # Len(r)
      <4>1. i \in 1..Len(s) /\ r[i] = s[i] /\ Q[i] = P[i]
        BY <1>2, <3>2
      <4>2. P[i] \in 1..Len(g) /\ s[i] = g[P[i]]
        BY <1>1, <4>1
      <4>3. rg[P[i]] = g[P[i]]
        BY <1>3, <4>2
      <4>4. QED BY <4>1, <4>2, <4>3
    <3>3. QED BY <3>1, <3>2
  <2>2. QED BY <2>1
<1>9. ASSUME NEW i \in 1..Len(r), NEW j \in 1..Len(r), i < j PROVE Q[i] < Q[j]
  <2>1. i \in 1..Len(s) /\ Q[i] = P[i] /\ P[i] \in 1..Len(g)
    BY <1>2, <1>9
  <2>2. CASE j = Len(r)
    BY <1>3, <2>1, <2>2
  <2>3. CASE j # Len(r)
    <3>1. j \in 1..Len(s) /\ Q[j] = P[j]
      BY <1>2, <2>3
    <3>2. QED BY <1>1, <1>9, <2>1, <3>1
  <2>4. QED BY <2>2, <2>3
<1> HIDE DEF Q
<1>10. Subsequence(r, rg)
  BY <1>7, <1>8, <1>9 DEF Subsequence
<1>11. QED BY <1>6, <1>10 DEF r, rg

\* An empty array is a part of any, and a list without entries is empty.
LEMMA EmptyTogether ==
  ASSUME NEW g PROVE Subsequence(<<>>, g) /\ OneEach(<<>>)
<1> DEFINE P == [i \in 1..Len(<<>>) |-> 1]
<1>1. 1..Len(<<>>) = {}
  OBVIOUS
<1>2. P \in [1..Len(<<>>) -> 1..Len(g)]
  BY <1>1
<1>3. \A i \in 1..Len(<<>>) : FALSE
  BY <1>1
<1> HIDE DEF P
<1>4. QED BY <1>2, <1>3, Zenon DEF Subsequence, OneEach

LEMMA EmptyByLength ==
  ASSUME NEW S, NEW s \in Seq(S), NEW r \in Seq(S), Len(s) = Len(r), r = <<>>
  PROVE  s = <<>>
OBVIOUS

\* ApplyPointerMoves keeps the taskbars in step, for it moves the two windows in
\* every array that has any.
LEMMA AppliedOrdered ==
  ASSUME NEW o \in [Arrays -> Seq(Windows)], NEW m, DOMAIN m \subseteq Arrays, Ordered(o),
         "group" \in DOMAIN m,
         \A a \in DOMAIN m : Usable(o[a]) /\ m[a] = MoveOf(o[a]),
         \A b \in Taskbars : b \in DOMAIN m \/ o[b] = <<>>
  PROVE  Ordered(Applied(o, m))
<1> DEFINE g == o["group"]
           fg == m["group"].from
           tg == m["group"].to
<1>1. \A a \in DOMAIN m : /\ m[a].from \in 1..Len(o[a]) /\ m[a].to \in 1..Len(o[a])
                          /\ o[a][m[a].from] = source /\ o[a][m[a].to] = destination
  BY IndexInRange DEF Usable, MoveOf
<1>2. g \in Seq(Windows) /\ Applied(o, m)["group"] = MovePointer(g, fg, tg)
  BY DEF Arrays, Applied
<1>3. fg \in 1..Len(g) /\ tg \in 1..Len(g) /\ g[fg] = source /\ g[tg] = destination
  BY <1>1
<1>4. OneEach(g) /\ \A b \in Taskbars : Subsequence(o[b], g)
  BY DEF Ordered
<1> HIDE DEF g, fg, tg
<1>5. OneEach(MovePointer(g, fg, tg))
  BY <1>2, <1>3, <1>4, MoveOneEach
<1>6. ASSUME NEW b \in Taskbars PROVE Subsequence(Applied(o, m)[b], MovePointer(g, fg, tg))
  <2>1. b \in Arrays /\ o[b] \in Seq(Windows)
    BY DEF Arrays
  <2>2. CASE b \in DOMAIN m
    <3>1. Applied(o, m)[b] = MovePointer(o[b], m[b].from, m[b].to)
      BY <2>1, <2>2 DEF Applied
    <3>2. /\ m[b].from \in 1..Len(o[b]) /\ m[b].to \in 1..Len(o[b])
          /\ o[b][m[b].from] = g[fg] /\ o[b][m[b].to] = g[tg]
      BY <1>1, <1>3, <2>2
    <3>3. QED BY <1>2, <1>3, <1>4, <2>1, <3>1, <3>2, MoveTogether
  <2>3. CASE b \notin DOMAIN m
    <3>1. Applied(o, m)[b] = <<>>
      BY <2>1, <2>3, Zenon DEF Applied
    <3>2. QED BY <3>1, EmptyTogether
  <2>4. QED BY <2>2, <2>3
<1>7. QED BY <1>2, <1>5, <1>6, Zenon DEF Ordered

-----------------------------------------------------------------------------
(* Every step keeps it.                                                    *)

RInv == CollectInv /\ ShownInv /\ OrderInv

\* Before the first call nothing is listed or shown.
LEMMA InitRInv == Init => RInv
<1> SUFFICES ASSUME Init PROVE RInv
  OBVIOUS
<1>1. /\ orders = [a \in Arrays |-> <<>>] /\ before = orders /\ pc = "idle"
      /\ shown = [b \in Taskbars |-> <<>>]
  BY Zenon DEF Init
<1>2. \A a \in Arrays : orders[a] = <<>>
  BY <1>1, Zenon
<1>3. OrderInv
  BY <1>1, <1>2, EmptyTogether, Zenon DEF OrderInv, Ordered, Arrays
<1>4. ShownInv
  BY <1>1 DEF ShownInv, Underway, Moved
<1>5. CollectInv
  BY <1>1 DEF CollectInv, Underway, Moved
<1>6. QED BY <1>3, <1>4, <1>5 DEF RInv

\* The call starts with the group's own move.
LEMMA BeginKeepsR ==
  ASSUME IInv, RInv, Begin PROVE RInv'
<1>1. /\ before' = orders /\ orders' = orders /\ shown' = shown
      /\ pc' \in {"collect", "returned"}
      /\ pc' = "returned" => outcome' = "refused"
      /\ pc' = "collect" =>
            /\ Holds(orders["group"], source') /\ Holds(orders["group"], destination')
            /\ moves' = [a \in {"group"} |-> MoveIn(orders["group"])]
            /\ uncollected' = Taskbars
  BY Zenon DEF Begin, Call, Refuse
<1>2. OrderInv'
  BY <1>1, Zenon DEF RInv, OrderInv, Ordered
<1>3. pc' = "collect" => DOMAIN moves' = {"group"}
  BY <1>1, Zenon
<1>4. ShownInv'
  <2>1. \A b \in Taskbars : b # "group"
    BY GroupAssumption, Zenon
  <2>2. \A b \in Taskbars : orders'[b] = <<>> => shown'[b] = <<>>
    BY <1>1, Zenon DEF RInv, ShownInv
  <2>3. pc' = "collect" => \A b \in Taskbars : b \notin DOMAIN moves'
    BY <1>3, <2>1, Zenon
  <2>4. QED BY <1>1, <2>2, <2>3 DEF ShownInv, Underway, Moved
<1>5. CollectInv'
  <2>1. CASE pc' = "collect"
    <3>1. moves'["group"] = MoveIn(before'["group"])
      BY <1>1, <2>1, Zenon
    <3>2. /\ \A a \in DOMAIN moves' : /\ Holds(before'[a], source')
                                      /\ Holds(before'[a], destination')
                                      /\ moves'[a] = MoveIn(before'[a])
      BY <1>1, <1>3, <2>1, <3>1, Zenon
    <3>3. \A b \in Taskbars : b \in uncollected'
      BY <1>1, <2>1, Zenon
    <3>4. QED BY <1>3, <2>1, <3>2, <3>3 DEF CollectInv, Usable, MoveOf, MoveIn
  <2>2. CASE pc' # "collect"
    BY <1>1, <2>2 DEF CollectInv, Underway, Moved
  <2>3. QED BY <2>1, <2>2
<1>6. QED BY <1>2, <1>4, <1>5 DEF RInv

\* A taskbar that is passed over has no buttons, and one that is not gets its move.
LEMMA CollectTaskbarKeepsR ==
  ASSUME IInv, RInv, CollectTaskbar PROVE RInv'
<1>1. /\ pc = "collect" /\ orders = before
      /\ UNCHANGED <<orders, shown, source, destination, before, constructorUi, notified>>
  BY Zenon DEF CollectTaskbar, callVars, IInv, ReorderInv
<1>2. OrderInv'
  BY <1>1, Zenon DEF RInv, OrderInv, Ordered
<1>3. /\ "group" \in DOMAIN moves
      /\ \A a \in DOMAIN moves : Usable(before[a]) /\ moves[a] = MoveOf(before[a])
      /\ \A b \in Taskbars : b \in DOMAIN moves \/ before[b] = <<>> \/ b \in uncollected
      /\ \A b \in Taskbars : b \in DOMAIN moves => b \in toNotify
      /\ \A b \in Taskbars : orders[b] = <<>> => shown[b] = <<>>
  BY <1>1, Zenon DEF RInv, CollectInv, ShownInv, Underway
<1>4. CASE pc' = "returned" /\ outcome' = "refused"
  <2>1. CollectInv'
    BY <1>4, Zenon DEF CollectInv, Underway, Moved
  <2>2. ShownInv'
    BY <1>1, <1>3, <1>4, Zenon DEF ShownInv, Underway, Moved
  <2>3. QED BY <1>2, <2>1, <2>2 DEF RInv
<1>5. ASSUME NEW bar \in uncollected, uncollected' = uncollected \ {bar}, pc' = pc,
             \/ orders[bar] = <<>> /\ UNCHANGED <<moves, toNotify>>
             \/ /\ Usable(orders[bar])
                /\ moves' = [a \in DOMAIN moves \cup {bar} |->
                                IF a = bar THEN MoveOf(orders[bar]) ELSE moves[a]]
                /\ toNotify' = toNotify \cup {bar}
      PROVE  CollectInv' /\ ShownInv'
  <2>1. /\ "group" \in DOMAIN moves'
        /\ \A a \in DOMAIN moves' : Usable(before[a]) /\ moves'[a] = MoveOf(before[a])
        /\ \A b \in Taskbars : b \in DOMAIN moves' \/ before[b] = <<>> \/ b \in uncollected'
        /\ \A b \in Taskbars : b \in DOMAIN moves' => b \in toNotify'
    <3>1. CASE UNCHANGED <<moves, toNotify>> /\ orders[bar] = <<>>
      BY <1>1, <1>3, <1>5, <3>1
    <3>2. CASE /\ Usable(orders[bar])
               /\ moves' = [a \in DOMAIN moves \cup {bar} |->
                               IF a = bar THEN MoveOf(orders[bar]) ELSE moves[a]]
               /\ toNotify' = toNotify \cup {bar}
      BY <1>1, <1>3, <1>5, <3>2
    <3>3. QED BY <1>5, <3>1, <3>2
  <2>2. CollectInv'
    BY <1>1, <1>5, <2>1, Zenon DEF CollectInv, Usable, MoveOf
  <2>3. ShownInv'
    BY <1>1, <1>3, <1>5, <2>1 DEF ShownInv, Underway, Moved
  <2>4. QED BY <2>2, <2>3
<1>6. QED BY <1>1, <1>2, <1>4, <1>5, Zenon DEF CollectTaskbar, Refuse, RInv

\* When the enumeration is over no taskbar with buttons is without its move.
LEMMA AllCollectedKeepsR ==
  ASSUME IInv, RInv, AllCollected PROVE RInv'
<1>1. /\ pc = "collect" /\ uncollected = {}
      /\ UNCHANGED <<orders, shown, source, destination, before, constructorUi,
                     uncollected, moves, toNotify, notified>>
      /\ \/ pc' = "apply"
         \/ pc' = "returned" /\ outcome' = "refused"
  BY DEF AllCollected, Refuse, callVars
<1>2. OrderInv'
  BY <1>1, Zenon DEF RInv, OrderInv, Ordered
<1>3. CollectInv'
  BY <1>1 DEF RInv, CollectInv, Underway, Moved, Usable, MoveOf
<1>4. ShownInv'
  BY <1>1 DEF RInv, ShownInv, Underway, Moved
<1>5. QED BY <1>2, <1>3, <1>4 DEF RInv

\* Apply keeps the taskbars in step, and leaves all that it changed to notify.
LEMMA ApplyKeepsR ==
  ASSUME IInv, RInv, Apply PROVE RInv'
<1>1. /\ pc = "apply" /\ pc' = "notify" /\ orders = before
      /\ orders' = Applied(orders, moves) /\ toNotify' = NotifyTargets
      /\ UNCHANGED <<shown, source, destination, before, constructorUi, moves, notified>>
  BY Zenon DEF Apply, callVars, IInv, ReorderInv
<1>2. /\ orders \in [Arrays -> Seq(Windows)] /\ DOMAIN moves \subseteq Arrays
      /\ \A a \in DOMAIN moves : CanMove(orders[a], moves[a].from, moves[a].to)
  BY Zenon DEF IInv, TypeOK, ArraysOK, MovesOK
<1>3. /\ "group" \in DOMAIN moves
      /\ \A a \in DOMAIN moves : Usable(orders[a]) /\ moves[a] = MoveOf(orders[a])
      /\ \A b \in Taskbars : b \in DOMAIN moves \/ orders[b] = <<>>
      /\ \A b \in Taskbars : b \in DOMAIN moves => b \in toNotify
      /\ \A b \in Taskbars : orders[b] = <<>> => shown[b] = <<>>
  BY <1>1 DEF RInv, CollectInv, ShownInv, Underway
<1>4. Ordered(orders) /\ Ordered(before)
  BY DEF RInv, OrderInv
<1>5. OrderInv'
  <2>1. Ordered(Applied(orders, moves))
    BY <1>2, <1>3, <1>4, AppliedOrdered
  <2>2. QED BY <1>1, <1>4, <2>1, Zenon DEF OrderInv, Ordered
<1>6. CollectInv'
  BY <1>1, <1>3, Zenon DEF CollectInv, Usable, MoveOf
<1>7. ShownInv'
  <2>1. \A b \in Taskbars : b \in Arrays
    BY DEF Arrays
  <2>2. ASSUME NEW b \in Taskbars, orders'[b] = <<>> PROVE shown'[b] = <<>>
    <3>1. orders[b] \in Seq(Windows) /\ orders'[b] \in Seq(Windows)
      BY <1>1, <1>2, <2>1, AppliedTyped, Zenon
    <3>2. Len(orders'[b]) = Len(orders[b])
      BY <1>1, <1>2, <2>1, AppliedTyped, Zenon
    <3>3. orders[b] = <<>>
      BY <2>2, <3>1, <3>2, EmptyByLength, Zenon
    <3>4. QED BY <1>1, <1>3, <3>3, Zenon
  <2>3. ASSUME NEW b \in Taskbars, b \notin DOMAIN moves PROVE shown'[b] = orders'[b]
    <3>1. orders'[b] = orders[b]
      BY <1>1, <2>1, <2>3, Zenon DEF Applied
    <3>2. QED BY <1>1, <1>3, <2>3, <3>1, Zenon
  <2>4. constructorUi' = None => toNotify' = toNotify
    BY <1>1, Zenon DEF NotifyTargets
  <2>5. constructorUi' = None => \A b \in Taskbars : shown'[b] = orders'[b] \/ b \in toNotify'
    BY <1>3, <2>3, <2>4, Zenon
  <2>6. QED BY <1>1, <2>2, <2>5, Zenon DEF ShownInv
<1>8. QED BY <1>5, <1>6, <1>7 DEF RInv

\* The notifications move nothing; what one lays out is its taskbar's array, unless
\* it fails.
LEMMA NotifyKeepsR ==
  ASSUME IInv, RInv, NotifyNext \/ FirstChanged \/ SecondChanged \/ ChangedFaults
  PROVE  RInv'
<1>1. /\ pc \in {"notify", "gated", "ungated"}
      /\ pc' \in {"notify", "gated", "ungated", "finish"}
      /\ UNCHANGED <<orders, moves, source, destination, before, constructorUi>>
  BY DEF NotifyNext, FirstChanged, SecondChanged, ChangedFaults, callVars
<1>2. OrderInv'
  BY <1>1, Zenon DEF RInv, OrderInv, Ordered
<1>3. CollectInv'
  BY <1>1 DEF RInv, CollectInv, Underway, Moved, Usable, MoveOf
<1>4. /\ \A b \in Taskbars : orders[b] = <<>> => shown[b] = <<>>
      /\ constructorUi = None /\ notified =>
            \A b \in Taskbars : \/ shown[b] = orders[b] \/ b \in toNotify
                                \/ pc \in {"gated", "ungated"} /\ b = current
  BY <1>1 DEF RInv, ShownInv, Underway, Moved
<1>5. shown \in [Taskbars -> Seq(Windows)] /\ (pc # "notify" => current \in Taskbars)
  BY <1>1 DEF IInv, TypeOK, ArraysOK, ReorderInv
<1>6. ASSUME NEW done \in BOOLEAN, Lay(done), pc # "notify", orders' = orders
      PROVE  \A b \in Taskbars : orders'[b] = <<>> => shown'[b] = <<>>
  <2>1. \A b \in Taskbars : shown'[b] = shown[b] \/ (b = current /\ shown'[b] = LaidOut)
    BY <1>5, <1>6 DEF Lay
  <2>2. orders[current] = <<>> => LaidOut = <<>>
    BY DEF LaidOut
  <2>3. QED BY <1>4, <1>6, <2>1, <2>2, Zenon
<1>7. CASE NotifyNext
  <2>1. UNCHANGED <<shown, notified>> /\ pc = "notify"
    BY <1>7, Zenon DEF NotifyNext
  <2>2. CASE toNotify = {} /\ pc' = "finish" /\ toNotify' = toNotify
    <3>1. ShownInv'
      BY <1>1, <1>4, <2>1, <2>2 DEF ShownInv
    <3>2. QED BY <1>2, <1>3, <3>1 DEF RInv
  <2>3. CASE \E bar \in toNotify : /\ toNotify' = toNotify \ {bar} /\ current' = bar
                                   /\ pc' = "gated"
    <3>1. ShownInv'
      BY <1>1, <1>4, <2>1, <2>3 DEF ShownInv
    <3>2. QED BY <1>2, <1>3, <3>1 DEF RInv
  <2>4. QED BY <1>7, <2>2, <2>3, Zenon DEF NotifyNext
<1>8. CASE FirstChanged
  <2>1. /\ pc = "gated" /\ pc' = "ungated" /\ current' = current /\ toNotify' = toNotify
        /\ notified' = notified \/ notified' = FALSE
        /\ \E done \in BOOLEAN : Lay(done)
    BY <1>8, Zenon DEF FirstChanged
  <2>2. \A b \in Taskbars : b # current => shown'[b] = shown[b]
    BY <1>5, <2>1 DEF Lay
  <2>3. \A b \in Taskbars : orders'[b] = <<>> => shown'[b] = <<>>
    BY <1>1, <1>6, <2>1
  <2>4. ShownInv'
    BY <1>1, <1>4, <2>1, <2>2, <2>3 DEF ShownInv
  <2>5. QED BY <1>2, <1>3, <2>4 DEF RInv
<1>9. CASE SecondChanged
  <2>1. /\ pc = "ungated" /\ pc' = "notify" /\ current' = current /\ toNotify' = toNotify
        /\ \E done \in BOOLEAN : Lay(done)
        /\ notified' => notified /\ Lay(TRUE)
    <3>1. (Lay(TRUE) /\ notified' = notified) \/ notified' = FALSE
      BY <1>9, Zenon DEF SecondChanged
    <3>2. \E done \in BOOLEAN : Lay(done)
      BY <1>9, Zenon DEF SecondChanged
    <3>3. pc = "ungated" /\ pc' = "notify" /\ current' = current /\ toNotify' = toNotify
      BY <1>9, Zenon DEF SecondChanged
    <3>4. notified' => notified /\ Lay(TRUE)
      <4>1. CASE Lay(TRUE) /\ notified' = notified
        BY <4>1
      <4>2. CASE notified' = FALSE
        BY <4>2
      <4>3. QED BY <3>1, <4>1, <4>2
    <3>5. QED BY <3>2, <3>3, <3>4
  <2>2. \A b \in Taskbars : b # current => shown'[b] = shown[b]
    BY <1>5, <2>1 DEF Lay
  <2>3. \A b \in Taskbars : orders'[b] = <<>> => shown'[b] = <<>>
    BY <1>1, <1>6, <2>1
  <2>4. notified' => shown'[current] = orders[current]
    <3>1. ~filterGate
      BY <2>1 DEF IInv, FilterRestored
    <3>2. QED BY <1>5, <2>1, <3>1 DEF Lay, LaidOut
  <2>5. constructorUi = None /\ notified' =>
           \A b \in Taskbars : shown'[b] = orders[b] \/ b \in toNotify
    BY <1>4, <2>1, <2>2, <2>4, Zenon
  <2>6. ShownInv'
    BY <1>1, <2>1, <2>3, <2>5 DEF ShownInv
  <2>7. QED BY <1>2, <1>3, <2>6 DEF RInv
<1>10. CASE ChangedFaults
  <2>1. /\ pc # "notify" /\ pc' = "notify" /\ notified' = FALSE
        /\ \E done \in BOOLEAN : Lay(done)
    BY <1>10 DEF ChangedFaults
  <2>2. \A b \in Taskbars : orders'[b] = <<>> => shown'[b] = <<>>
    BY <1>1, <1>6, <2>1
  <2>3. ShownInv'
    BY <2>1, <2>2 DEF ShownInv
  <2>4. QED BY <1>2, <1>3, <2>3 DEF RInv
<1>11. QED BY <1>7, <1>8, <1>9, <1>10

\* The end: the arrays as they are, or as they were.
LEMMA FinishKeepsR ==
  ASSUME IInv, RInv, Finish PROVE RInv'
<1>1. /\ pc = "finish" /\ pc' = "returned"
      /\ UNCHANGED <<shown, source, destination, before, constructorUi, moves,
                     toNotify, notified>>
      /\ \/ notified /\ outcome' = "moved" /\ orders' = orders
         \/ outcome' = "refused" /\ orders' = RolledBack(orders, moves)
  BY DEF Finish, Refuse, callVars
<1>2. IInv'
  BY FinishKeeps
<1>3. /\ orders \in [Arrays -> Seq(Windows)] /\ DOMAIN moves \subseteq Arrays
      /\ \A a \in DOMAIN moves : CanMove(orders[a], moves[a].from, moves[a].to)
  BY Zenon DEF IInv, TypeOK, ArraysOK, MovesOK
<1>4. OrderInv'
  <2>1. orders' = orders \/ orders' = before
    BY <1>1, <1>2 DEF IInv, AllOrNothing
  <2>2. QED BY <1>1, <2>1, Zenon DEF RInv, OrderInv, Ordered
<1>5. orders = Applied(before, moves)
  BY <1>1 DEF IInv, ReorderInv, Moved
<1>6. CollectInv'
  <2>1. CASE outcome' = "moved"
    <3>1. orders' = orders
      BY <1>1, <2>1
    <3>2. orders' = Applied(before, moves)'
      BY <1>1, <1>5, <3>1, Zenon DEF Applied
    <3>3. QED BY <1>1, <3>2 DEF RInv, CollectInv, Underway, Moved, Usable, MoveOf
  <2>2. CASE outcome' # "moved"
    BY <1>1, <2>2 DEF CollectInv, Underway, Moved
  <2>3. QED BY <2>1, <2>2
<1>7. ShownInv'
  <2>1. /\ \A b \in Taskbars : orders[b] = <<>> => shown[b] = <<>>
        /\ constructorUi = None /\ notified =>
              \A b \in Taskbars : shown[b] = orders[b] \/ b \in toNotify
        /\ toNotify = {}
    BY <1>1 DEF RInv, ShownInv, Underway, Moved
  <2>2. ASSUME NEW b \in Taskbars, orders'[b] = <<>> PROVE shown'[b] = <<>>
    <3>1. b \in Arrays
      BY DEF Arrays
    <3>2. /\ orders[b] \in Seq(Windows) /\ orders'[b] \in Seq(Windows)
          /\ Len(orders'[b]) = Len(orders[b])
      <4>1. orders[b] \in Seq(Windows)
        BY <1>3, <3>1
      <4>2. CASE orders' = orders
        BY <4>1, <4>2
      <4>3. CASE orders' = RolledBack(orders, moves)
        BY <1>3, <3>1, <4>1, <4>3, AppliedTyped, Zenon
      <4>4. QED BY <1>1, <4>2, <4>3
    <3>3. orders[b] = <<>>
      BY <2>2, <3>2, EmptyByLength, Zenon
    <3>4. QED BY <1>1, <2>1, <3>3, Zenon
  <2>3. QED BY <1>1, <2>1, <2>2 DEF ShownInv, Underway, Moved
<1>8. QED BY <1>4, <1>6, <1>7 DEF RInv

\* The next call starts with nothing collected.
LEMMA LeaveKeepsR ==
  ASSUME IInv, RInv, Leave PROVE RInv'
<1>1. /\ pc' = "idle" /\ before' = [a \in Arrays |-> <<>>] /\ UNCHANGED <<orders, shown>>
  BY Zenon DEF Leave
<1>2. OrderInv'
  <2>1. before'["group"] = <<>> /\ \A b \in Taskbars : before'[b] = <<>>
    BY <1>1, Zenon DEF Arrays
  <2>2. Ordered(before)'
    BY <2>1, EmptyTogether, Zenon DEF Ordered
  <2>3. Ordered(orders)'
    BY <1>1, Zenon DEF RInv, OrderInv, Ordered
  <2>4. QED BY <2>2, <2>3, Zenon DEF OrderInv
<1>3. CollectInv'
  BY <1>1 DEF CollectInv, Underway, Moved
<1>4. ShownInv'
  BY <1>1 DEF RInv, ShownInv, Underway, Moved
<1>5. QED BY <1>2, <1>3, <1>4 DEF RInv

\* Explorer lays out what it changes.
LEMMA ExplorerKeepsR ==
  ASSUME IInv, RInv, OpenWindow \/ CloseWindow PROVE RInv'
<1>1. /\ pc' = "idle" /\ before' = before /\ shown' = [b \in Taskbars |-> orders'[b]]
  BY Zenon DEF OpenWindow, CloseWindow, Relay, callVars
<1>2. /\ orders \in [Arrays -> Seq(Windows)]
      /\ OneEach(orders["group"]) /\ orders["group"] \in Seq(Windows)
      /\ \A b \in Taskbars : /\ b \in Arrays /\ orders[b] \in Seq(Windows)
                             /\ Subsequence(orders[b], orders["group"])
  BY DEF IInv, TypeOK, ArraysOK, RInv, OrderInv, Ordered, Arrays
<1>3. Ordered(orders)'
  <2>1. CASE OpenWindow
    <3>1. PICK w \in Windows, bars \in SUBSET Taskbars :
             /\ ~Holds(orders["group"], w)
             /\ orders' = [a \in Arrays |-> IF a = "group" \/ a \in bars
                                            THEN Append(orders[a], w) ELSE orders[a]]
      BY <2>1, Zenon DEF OpenWindow, Relay
    <3>2. orders'["group"] = Append(orders["group"], w)
      BY <3>1, Zenon DEF Arrays
    <3>3. OneEach(orders'["group"])
      BY <1>2, <3>1, <3>2, AppendOneEach
    <3>4. ASSUME NEW b \in Taskbars PROVE Subsequence(orders'[b], orders'["group"])
      <4>1. orders'[b] = Append(orders[b], w) \/ orders'[b] = orders[b]
        BY <1>2, <3>1, Zenon
      <4>2. /\ Subsequence(orders[b], Append(orders["group"], w))
            /\ Subsequence(Append(orders[b], w), Append(orders["group"], w))
        BY <1>2, AppendTogether
      <4>3. QED BY <3>2, <4>1, <4>2, Zenon
    <3>5. QED BY <3>3, <3>4, Zenon DEF Ordered
  <2>2. CASE CloseWindow
    <3>1. PICK w \in Windows : /\ Holds(orders["group"], w)
                               /\ orders' = [a \in Arrays |-> Without(orders[a], w)]
      BY <2>2, Zenon DEF CloseWindow, Relay
    <3>2. orders'["group"] = Without(orders["group"], w)
      BY <3>1, Zenon DEF Arrays
    <3>3. OneEach(orders'["group"])
      BY <1>2, <3>2, WithoutOneEach
    <3>4. ASSUME NEW b \in Taskbars PROVE Subsequence(orders'[b], orders'["group"])
      <4>1. orders'[b] = Without(orders[b], w)
        BY <1>2, <3>1, Zenon
      <4>2. Subsequence(Without(orders[b], w), Without(orders["group"], w))
        BY <1>2, <3>1, WithoutTogether
      <4>3. QED BY <3>2, <4>1, <4>2, Zenon
    <3>5. QED BY <3>3, <3>4, Zenon DEF Ordered
  <2>3. QED BY <2>1, <2>2
<1>4. OrderInv'
  BY <1>1, <1>3, Zenon DEF RInv, OrderInv, Ordered
<1>5. CollectInv'
  BY <1>1 DEF CollectInv, Underway, Moved
<1>6. ShownInv'
  <2>1. \A b \in Taskbars : shown'[b] = orders'[b]
    BY <1>1, Zenon
  <2>2. QED BY <1>1, <2>1 DEF ShownInv, Underway, Moved
<1>7. QED BY <1>4, <1>5, <1>6 DEF RInv

\* At every step of MoveTaskInGroup the collected moves are those of the two windows,
\* every taskbar lists a part of the group in the group's order, and while no
\* notification has failed it shows its array or is still to be notified.
THEOREM RInvHolds == Spec => []RInv
<1>1. ASSUME IInv, RInv, [Next]_vars PROVE RInv'
  <2>1. CASE Next
    BY <1>1, <2>1, BeginKeepsR, CollectTaskbarKeepsR, AllCollectedKeepsR, ApplyKeepsR,
       NotifyKeepsR, FinishKeepsR, LeaveKeepsR, ExplorerKeepsR
    DEF Next
  <2>2. CASE UNCHANGED vars
    <3> USE <1>1, <2>2 DEF vars, callVars, RInv
    <3>1. CollectInv'
      BY Zenon DEF CollectInv, Underway, Moved, Usable, MoveOf, Applied
    <3>2. ShownInv'
      BY Zenon DEF ShownInv, Underway, Moved
    <3>3. OrderInv'
      BY Zenon DEF OrderInv, Ordered
    <3>4. QED BY <3>1, <3>2, <3>3
  <2>3. QED BY <1>1, <2>1, <2>2
<1>2. QED BY InitRInv, <1>1, InductiveInvariant, PTL DEF Spec

\* Every taskbar lists its windows in the order of the group, for any number of
\* windows, whichever of them a taskbar shows and whichever calls were taken back.
THEOREM InStepHolds == Spec => []InStep
<1>1. ASSUME RInv PROVE InStep
  <2> SUFFICES ASSUME NEW b \in Taskbars, NEW i \in 1..Len(orders[b]),
                      NEW j \in 1..Len(orders[b]), i < j
               PROVE  Precedes(orders["group"], orders[b][i], orders[b][j])
    BY Zenon DEF InStep
  <2>1. Subsequence(orders[b], orders["group"])
    BY <1>1, Zenon DEF RInv, OrderInv, Ordered
  <2>2. PICK P \in [1..Len(orders[b]) -> 1..Len(orders["group"])] :
           /\ \A k \in 1..Len(orders[b]) : orders[b][k] = orders["group"][P[k]]
           /\ \A k, l \in 1..Len(orders[b]) : k < l => P[k] < P[l]
    BY <2>1, Zenon DEF Subsequence
  <2>3. /\ P[i] \in 1..Len(orders["group"]) /\ P[j] \in 1..Len(orders["group"])
        /\ P[i] < P[j]
        /\ orders["group"][P[i]] = orders[b][i] /\ orders["group"][P[j]] = orders[b][j]
    BY <2>2
  <2>4. QED BY <2>3, Zenon DEF Precedes
<1>2. QED BY <1>1, RInvHolds, PTL

\* A call that succeeds has moved the window in the group and on every taskbar with
\* buttons for it to where the other one was.
THEOREM MovedEverywhereHolds == Spec => []MovedEverywhere
<1>1. ASSUME IInv, RInv PROVE MovedEverywhere
  <2> SUFFICES ASSUME pc = "returned", outcome = "moved", NEW a \in Arrays, orders[a] # <<>>
               PROVE  orders[a][IndexOf(before[a], destination)] = source
    BY Zenon DEF MovedEverywhere
  <2>1. /\ orders = Applied(before, moves) /\ "group" \in DOMAIN moves
        /\ \A c \in DOMAIN moves : Usable(before[c]) /\ moves[c] = MoveOf(before[c])
        /\ \A b \in Taskbars : b \in DOMAIN moves \/ before[b] = <<>>
    BY <1>1 DEF RInv, CollectInv, Underway
  <2>2. a \in DOMAIN moves
    <3>1. a \notin DOMAIN moves => orders[a] = before[a]
      BY <2>1, Zenon DEF Applied
    <3>2. QED BY <2>1, <3>1, Zenon DEF Arrays
  <2>3. /\ moves[a].to = IndexOf(before[a], destination) /\ moves[a].to \in 1..Len(before[a])
        /\ before[a][moves[a].from] = source
    BY <2>1, <2>2, IndexInRange DEF Usable, MoveOf
  <2>4. orders[a] = MovePointer(before[a], moves[a].from, moves[a].to)
    BY <2>1, <2>2, Zenon DEF Applied
  <2>5. orders[a][moves[a].to] = before[a][moves[a].from]
    BY <2>3, <2>4 DEF MovePointer
  <2>6. QED BY <2>3, <2>5
<1>2. QED BY <1>1, RInvHolds, InductiveInvariant, PTL

\* After a successful call without a constructor's interface every taskbar shows
\* what its array says, for any number of taskbars.
THEOREM ShownAfterMoveHolds == Spec => []ShownAfterMove
<1>1. ASSUME RInv PROVE ShownAfterMove
  BY <1>1 DEF RInv, ShownInv, ShownAfterMove, Underway
<1>2. QED BY <1>1, RInvHolds, PTL
-----------------------------------------------------------------------------
(* MoveTaskInGroup is one atomic step of AtomicReorder.                    *)

\* An array without the element at one index, and with one put in.
Removed(s, f) == [i \in 1..(Len(s) - 1) |-> IF i < f THEN s[i] ELSE s[i + 1]]
Inserted(s, t, e) ==
    [i \in 1..(Len(s) + 1) |-> IF i < t THEN s[i] ELSE IF i = t THEN e ELSE s[i - 1]]

\* An array is the function of its indices.
LEMMA AsFunction ==
  ASSUME NEW S, NEW q \in Seq(S), NEW n, Len(q) = n
  PROVE  q = [i \in 1..n |-> q[i]]
OBVIOUS

\* What is left of an array without the element at one index.
LEMMA RemoveEntries ==
  ASSUME NEW S, NEW s \in Seq(S), NEW f \in 1..Len(s)
  PROVE  Reorder!RemoveAt(s, f) = Removed(s, f)
<1> DEFINE a == SubSeq(s, 1, f - 1)
           b == SubSeq(s, f + 1, Len(s))
<1>1. /\ a \in Seq(S) /\ Len(a) = f - 1 /\ \A i \in 1..(f - 1) : a[i] = s[i]
  <2>1. 1 \in Int /\ f - 1 \in Int /\ \A i \in 1..(f - 1) : s[i] \in S
    OBVIOUS
  <2> HIDE DEF a
  <2>2. /\ a \in Seq(S) /\ Len(a) = (IF 1 <= f - 1 THEN f - 1 - 1 + 1 ELSE 0)
        /\ \A i \in 1..(f - 1 - 1 + 1) : a[i] = s[1 + i - 1]
    BY <2>1, SubSeqProperties DEF a
  <2>3. QED BY <2>2
<1>2. /\ b \in Seq(S) /\ Len(b) = Len(s) - f /\ \A i \in 1..(Len(s) - f) : b[i] = s[f + i]
  <2>1. f + 1 \in Int /\ Len(s) \in Int /\ \A i \in (f + 1)..Len(s) : s[i] \in S
    OBVIOUS
  <2> HIDE DEF b
  <2>2. /\ b \in Seq(S) /\ Len(b) = (IF f + 1 <= Len(s) THEN Len(s) - (f + 1) + 1 ELSE 0)
        /\ \A i \in 1..(Len(s) - (f + 1) + 1) : b[i] = s[f + 1 + i - 1]
    BY <2>1, SubSeqProperties DEF b
  <2>3. QED BY <2>2
<1>3. Reorder!RemoveAt(s, f) = a \o b
  BY DEF Reorder!RemoveAt
<1> HIDE DEF a, b
<1>4. /\ a \o b \in Seq(S) /\ Len(a \o b) = Len(a) + Len(b)
      /\ \A i \in 1..(Len(a) + Len(b)) : (a \o b)[i] = IF i <= Len(a) THEN a[i] ELSE b[i - Len(a)]
  BY <1>1, <1>2, ConcatProperties
<1>5. Len(s) \in Nat /\ Len(a) + Len(b) = Len(s) - 1
  BY <1>1, <1>2
<1>6. ASSUME NEW i \in 1..(Len(s) - 1)
      PROVE  (a \o b)[i] = IF i < f THEN s[i] ELSE s[i + 1]
  <2>1. CASE i < f
    BY <1>1, <1>4, <1>5, <2>1
  <2>2. CASE ~(i < f)
    <3>1. (a \o b)[i] = b[i - (f - 1)] /\ i - (f - 1) \in 1..(Len(s) - f)
      BY <1>1, <1>4, <1>5, <2>2
    <3>2. f + (i - (f - 1)) = i + 1
      OBVIOUS
    <3>3. QED BY <1>2, <2>2, <3>1, <3>2
  <2>3. QED BY <2>1, <2>2
<1>7. a \o b = [i \in 1..(Len(s) - 1) |-> (a \o b)[i]]
  BY <1>4, <1>5, AsFunction, Zenon
<1>8. QED BY <1>3, <1>6, <1>7, Zenon DEF Removed

\* An array with one element put in.
LEMMA InsertEntries ==
  ASSUME NEW S, NEW r \in Seq(S), NEW t \in 1..(Len(r) + 1), NEW e \in S
  PROVE  Reorder!InsertAt(r, t, e) = Inserted(r, t, e)
<1> DEFINE a == SubSeq(r, 1, t - 1)
           b == SubSeq(r, t, Len(r))
           c == a \o <<e>>
<1>1. /\ a \in Seq(S) /\ Len(a) = t - 1 /\ \A i \in 1..(t - 1) : a[i] = r[i]
  <2>1. 1 \in Int /\ t - 1 \in Int /\ \A i \in 1..(t - 1) : r[i] \in S
    OBVIOUS
  <2> HIDE DEF a
  <2>2. /\ a \in Seq(S) /\ Len(a) = (IF 1 <= t - 1 THEN t - 1 - 1 + 1 ELSE 0)
        /\ \A i \in 1..(t - 1 - 1 + 1) : a[i] = r[1 + i - 1]
    BY <2>1, SubSeqProperties DEF a
  <2>3. QED BY <2>2
<1>2. /\ b \in Seq(S) /\ Len(b) = Len(r) + 1 - t
      /\ \A i \in 1..(Len(r) + 1 - t) : b[i] = r[t + i - 1]
  <2>1. t \in Int /\ Len(r) \in Int /\ \A i \in t..Len(r) : r[i] \in S
    OBVIOUS
  <2> HIDE DEF b
  <2>2. /\ b \in Seq(S) /\ Len(b) = (IF t <= Len(r) THEN Len(r) - t + 1 ELSE 0)
        /\ \A i \in 1..(Len(r) - t + 1) : b[i] = r[t + i - 1]
    BY <2>1, SubSeqProperties DEF b
  <2>3. QED BY <2>2
<1>3. Reorder!InsertAt(r, t, e) = c \o b
  BY DEF Reorder!InsertAt
<1> HIDE DEF a, b
<1>4. /\ c \in Seq(S) /\ Len(c) = t
      /\ \A i \in 1..t : c[i] = IF i < t THEN r[i] ELSE e
  <2>1. <<e>> \in Seq(S) /\ Len(<<e>>) = 1 /\ <<e>>[1] = e
    OBVIOUS
  <2>2. /\ c \in Seq(S) /\ Len(c) = Len(a) + Len(<<e>>)
        /\ \A i \in 1..(Len(a) + Len(<<e>>)) :
              c[i] = IF i <= Len(a) THEN a[i] ELSE <<e>>[i - Len(a)]
    BY <1>1, <2>1, ConcatProperties
  <2> HIDE DEF c
  <2>3. ASSUME NEW i \in 1..t PROVE c[i] = IF i < t THEN r[i] ELSE e
    <3>1. c[i] = IF i <= t - 1 THEN a[i] ELSE <<e>>[i - (t - 1)]
      BY <1>1, <2>1, <2>2
    <3>2. CASE i < t
      BY <1>1, <3>1, <3>2
    <3>3. CASE i = t
      <4>1. ~(i <= t - 1) /\ i - (t - 1) = 1
        BY <3>3
      <4>2. QED BY <2>1, <3>1, <3>3, <4>1
    <3>4. QED BY <3>2, <3>3
  <2>4. QED BY <1>1, <2>1, <2>2, <2>3
<1> HIDE DEF c
<1>5. /\ c \o b \in Seq(S) /\ Len(c \o b) = Len(c) + Len(b)
      /\ \A i \in 1..(Len(c) + Len(b)) : (c \o b)[i] = IF i <= Len(c) THEN c[i] ELSE b[i - Len(c)]
  BY <1>2, <1>4, ConcatProperties
<1>6. Len(r) \in Nat /\ Len(c) + Len(b) = Len(r) + 1
  BY <1>2, <1>4
<1>7. ASSUME NEW i \in 1..(Len(r) + 1)
      PROVE  (c \o b)[i] = IF i < t THEN r[i] ELSE IF i = t THEN e ELSE r[i - 1]
  <2>1. CASE i <= t
    BY <1>4, <1>5, <1>6, <2>1
  <2>2. CASE ~(i <= t)
    <3>1. (c \o b)[i] = b[i - t] /\ i - t \in 1..(Len(r) + 1 - t)
      BY <1>4, <1>5, <1>6, <2>2
    <3>2. t + (i - t) - 1 = i - 1
      OBVIOUS
    <3>3. QED BY <1>2, <2>2, <3>1, <3>2
  <2>3. QED BY <2>1, <2>2
<1>8. c \o b = [i \in 1..(Len(r) + 1) |-> (c \o b)[i]]
  BY <1>5, <1>6, AsFunction, Zenon
<1>9. QED BY <1>3, <1>7, <1>8, Zenon DEF Inserted

\* MovePointer takes the element out of the array and puts it in elsewhere.
LEMMA PutIsMovePointer ==
  ASSUME NEW S, NEW s \in Seq(S), NEW f \in 1..Len(s), NEW t \in 1..Len(s)
  PROVE  Reorder!Put(s, f, t) = MovePointer(s, f, t)
<1>1. Reorder!RemoveAt(s, f) = Removed(s, f)
  BY RemoveEntries
<1>2. Removed(s, f) \in Seq(S) /\ Len(Removed(s, f)) = Len(s) - 1
  <2>1. Removed(s, f) \in [1..(Len(s) - 1) -> S]
    BY DEF Removed
  <2>2. QED BY <2>1 DEF Removed
<1>3. s[f] \in S /\ t \in 1..(Len(Removed(s, f)) + 1)
  BY <1>2
<1>4. Reorder!Put(s, f, t) = Inserted(Removed(s, f), t, s[f])
  <2>1. Reorder!InsertAt(Removed(s, f), t, s[f]) = Inserted(Removed(s, f), t, s[f])
    BY <1>2, <1>3, InsertEntries
  <2>2. QED BY <1>1, <2>1, Zenon DEF Reorder!Put
<1>5. Inserted(Removed(s, f), t, s[f]) = MovePointer(s, f, t)
  BY <1>2 DEF Inserted, Removed, MovePointer
<1>6. QED BY <1>4, <1>5

\* A closed window is taken out the same way.
LEMMA RemoveIsWithout ==
  ASSUME NEW S, NEW s \in Seq(S), NEW w, Holds(s, w)
  PROVE  Reorder!RemoveAt(s, IndexOf(s, w)) = Without(s, w)
<1>1. IndexOf(s, w) \in 1..Len(s)
  BY IndexInRange
<1>2. Reorder!RemoveAt(s, IndexOf(s, w)) = Removed(s, IndexOf(s, w))
  BY <1>1, RemoveEntries
<1>3. QED BY <1>2, Zenon DEF Removed, Without

\* A caller has an answer exactly when the call has returned, and a call that has
\* got past its first checks is about two windows.
CallInv ==
    /\ outcome = "none" <=> pc # "returned"
    /\ Underway => source # destination

LEMMA CallInvHolds == Spec => []CallInv
<1>1. Init => CallInv
  BY DEF Init, CallInv, Underway, Moved
<1>2. ASSUME CallInv, [Next]_vars PROVE CallInv'
  <2> USE <1>2 DEF CallInv, Underway, Moved
  <2>1. CASE Begin
    BY <2>1 DEF Begin, Call, Refuse
  <2>2. CASE CollectTaskbar \/ AllCollected
    BY <2>2 DEF CollectTaskbar, AllCollected, Refuse, callVars
  <2>3. CASE Apply \/ NotifyNext
    BY <2>3 DEF Apply, NotifyNext, callVars
  <2>4. CASE FirstChanged \/ SecondChanged \/ ChangedFaults
    BY <2>4 DEF FirstChanged, SecondChanged, ChangedFaults, callVars
  <2>5. CASE Finish
    BY <2>5 DEF Finish, Refuse, callVars
  <2>6. CASE Leave
    BY <2>6 DEF Leave
  <2>7. CASE OpenWindow \/ CloseWindow
    BY <2>7 DEF OpenWindow, CloseWindow, Relay, callVars
  <2>8. CASE UNCHANGED vars
    BY <2>8 DEF vars, callVars
  <2>9. QED BY <1>2, <2>1, <2>2, <2>3, <2>4, <2>5, <2>6, <2>7, <2>8 DEF Next
<1>3. QED BY <1>1, <1>2, PTL DEF Spec

\* The moves of a call, seen from outside: the window at its own index is taken out
\* and put in where the other one was, on every array that has any windows.
LEMMA AppliedIsMove ==
  ASSUME NEW o \in [Arrays -> Seq(Windows)], NEW m, DOMAIN m \subseteq Arrays,
         "group" \in DOMAIN m,
         \A a \in DOMAIN m : Usable(o[a]) /\ m[a] = MoveOf(o[a]),
         \A b \in Taskbars : b \in DOMAIN m \/ o[b] = <<>>
  PROVE  /\ source \in Windows /\ destination \in Windows
         /\ \E a \in Arrays : o[a] # <<>>
         /\ \A a \in Arrays : o[a] # <<>> =>
               Reorder!Has(o[a], source) /\ Reorder!Has(o[a], destination)
         /\ Applied(o, m) =
               [a \in Arrays |->
                   IF o[a] = <<>> THEN <<>>
                   ELSE Reorder!Put(o[a], Reorder!Place(o[a], source),
                                    Reorder!Place(o[a], destination))]
<1>1. \A a \in Arrays : o[a] # <<>> => a \in DOMAIN m
  BY Zenon DEF Arrays
<1>2. \A a \in DOMAIN m : Holds(o[a], source) /\ Holds(o[a], destination)
  BY Zenon DEF Usable
<1>3. \A a \in Arrays : o[a] # <<>> =>
         Reorder!Has(o[a], source) /\ Reorder!Has(o[a], destination)
  BY <1>1, <1>2, Zenon DEF Reorder!Has, Holds
<1>4. /\ source \in Windows /\ destination \in Windows
      /\ \E a \in Arrays : o[a] # <<>>
  <2>1. "group" \in Arrays /\ o["group"] \in Seq(Windows)
    BY DEF Arrays
  <2>2. Holds(o["group"], source) /\ Holds(o["group"], destination)
    BY <1>2, Zenon
  <2>3. QED BY <2>1, <2>2 DEF Holds
<1>5. ASSUME NEW a \in Arrays
      PROVE  Applied(o, m)[a] =
                IF o[a] = <<>> THEN <<>>
                ELSE Reorder!Put(o[a], Reorder!Place(o[a], source),
                                 Reorder!Place(o[a], destination))
  <2>1. CASE o[a] = <<>>
    <3>1. a \notin DOMAIN m
      <4>1. ~Holds(<<>>, source)
        BY DEF Holds
      <4>2. QED BY <1>2, <2>1, <4>1, Zenon
    <3>2. QED BY <2>1, <3>1, Zenon DEF Applied
  <2>2. CASE o[a] # <<>>
    <3>1. a \in DOMAIN m /\ Holds(o[a], source) /\ Holds(o[a], destination)
      BY <1>1, <1>2, <2>2, Zenon
    <3>2. Applied(o, m)[a] = MovePointer(o[a], IndexOf(o[a], source), IndexOf(o[a], destination))
      <4>1. m[a].from = IndexOf(o[a], source) /\ m[a].to = IndexOf(o[a], destination)
        BY <3>1 DEF MoveOf
      <4>2. QED BY <3>1, <4>1, Zenon DEF Applied
    <3>3. /\ IndexOf(o[a], source) \in 1..Len(o[a]) /\ IndexOf(o[a], destination) \in 1..Len(o[a])
          /\ o[a] \in Seq(Windows)
      BY <3>1, IndexInRange
    <3>4. Reorder!Put(o[a], IndexOf(o[a], source), IndexOf(o[a], destination))
             = MovePointer(o[a], IndexOf(o[a], source), IndexOf(o[a], destination))
      BY <3>3, PutIsMovePointer
    <3>5. QED BY <2>2, <3>2, <3>4, Zenon DEF Reorder!Place, IndexOf
  <2>3. QED BY <2>1, <2>2
<1>6. QED BY <1>3, <1>4, <1>5, Zenon DEF Applied

\* The end of a call is the one step that its caller sees.
LEMMA FinishRefines ==
  ASSUME IInv, RInv, CallInv, Finish PROVE Reorder!Next
<1>1. /\ pc = "finish" /\ pc' = "returned" /\ outcome = "none" /\ before' = before
      /\ \/ notified /\ outcome' = "moved" /\ orders' = orders
         \/ outcome' = "refused" /\ orders' = RolledBack(orders, moves)
  BY DEF Finish, Refuse, callVars, CallInv
<1>2. Settled = before /\ Settled' = orders'
  BY <1>1 DEF Settled, Moved
<1>3. CASE outcome' = "moved"
  <2>1. orders' = Applied(before, moves)
    BY <1>1, <1>3 DEF IInv, ReorderInv, Moved
  <2>2. /\ before \in [Arrays -> Seq(Windows)] /\ DOMAIN moves \subseteq Arrays
        /\ "group" \in DOMAIN moves
        /\ \A a \in DOMAIN moves : Usable(before[a]) /\ moves[a] = MoveOf(before[a])
        /\ \A b \in Taskbars : b \in DOMAIN moves \/ before[b] = <<>>
    BY <1>1 DEF IInv, TypeOK, ArraysOK, MovesOK, RInv, CollectInv, Underway, Moved
  <2>3. source # destination
    BY <1>1 DEF CallInv, Underway, Moved
  <2>4. /\ source \in Windows /\ destination \in Windows
        /\ Reorder!Move(source, destination)
    <3>1. /\ source \in Windows /\ destination \in Windows
          /\ \E a \in Arrays : before[a] # <<>>
          /\ \A a \in Arrays : before[a] # <<>> =>
                Reorder!Has(before[a], source) /\ Reorder!Has(before[a], destination)
          /\ Applied(before, moves) =
                [a \in Arrays |->
                    IF before[a] = <<>> THEN <<>>
                    ELSE Reorder!Put(before[a], Reorder!Place(before[a], source),
                                     Reorder!Place(before[a], destination))]
      BY <2>2, AppliedIsMove
    <3>2. QED BY <1>1, <1>2, <1>3, <2>1, <3>1, Zenon DEF Reorder!Move
  <2>5. QED BY <2>3, <2>4, Zenon DEF Reorder!Next
<1>4. CASE outcome' # "moved"
  <2>1. IInv'
    BY FinishKeeps
  <2>2. orders' = before /\ outcome' = "refused"
    BY <1>1, <1>4, <2>1 DEF IInv, AllOrNothing
  <2>3. Reorder!Refuse
    BY <1>1, <1>2, <2>2, Zenon DEF Reorder!Refuse
  <2>4. QED BY <2>3, Zenon DEF Reorder!Next
<1>5. QED BY <1>3, <1>4

\* A window comes to all lists it is in at once, and it was in none.
LEMMA OpenRefines ==
  ASSUME IInv, RInv, CallInv, OpenWindow PROVE Reorder!Next
<1>1. PICK w \in Windows, bars \in SUBSET Taskbars :
         /\ ~Holds(orders["group"], w)
         /\ orders' = [a \in Arrays |-> IF a = "group" \/ a \in bars
                                        THEN Append(orders[a], w) ELSE orders[a]]
  BY Zenon DEF OpenWindow, Relay
<1>2. /\ outcome = "none" /\ outcome' = outcome /\ Settled = orders /\ Settled' = orders'
  BY DEF OpenWindow, Relay, CallInv, Settled, Moved
<1>3. ASSUME NEW a \in Arrays PROVE ~Reorder!Has(orders[a], w)
  <2>1. CASE a = "group"
    BY <1>1, <2>1, Zenon DEF Reorder!Has, Holds
  <2>2. CASE a \in Taskbars
    <3>1. Subsequence(orders[a], orders["group"])
      BY <2>2, Zenon DEF RInv, OrderInv, Ordered
    <3>2. PICK P \in [1..Len(orders[a]) -> 1..Len(orders["group"])] :
             \A i \in 1..Len(orders[a]) : orders[a][i] = orders["group"][P[i]]
      BY <3>1, Zenon DEF Subsequence
    <3>3. \A i \in 1..Len(orders[a]) : P[i] \in 1..Len(orders["group"])
      BY <3>2, Zenon
    <3>4. QED BY <1>1, <3>2, <3>3, Zenon DEF Reorder!Has, Holds
  <2>3. QED BY <2>1, <2>2, Zenon DEF Arrays
<1>4. Reorder!Open(w)
  <2>1. {"group"} \cup bars \in SUBSET Arrays
    BY Zenon DEF Arrays
  <2>2. orders' = [a \in Arrays |-> IF a \in {"group"} \cup bars
                                    THEN Append(orders[a], w) ELSE orders[a]]
    BY <1>1
  <2>3. QED BY <1>2, <1>3, <2>1, <2>2, Zenon DEF Reorder!Open
<1>5. QED BY <1>4, Zenon DEF Reorder!Next

\* A window goes from all lists at once.
LEMMA CloseRefines ==
  ASSUME IInv, CallInv, CloseWindow PROVE Reorder!Next
<1>1. PICK w \in Windows : orders' = [a \in Arrays |-> Without(orders[a], w)]
  BY Zenon DEF CloseWindow, Relay
<1>2. /\ outcome = "none" /\ outcome' = outcome /\ Settled = orders /\ Settled' = orders'
  BY DEF CloseWindow, Relay, CallInv, Settled, Moved
<1>3. ASSUME NEW a \in Arrays
      PROVE  Without(orders[a], w) =
                IF Reorder!Has(orders[a], w)
                THEN Reorder!RemoveAt(orders[a], Reorder!Place(orders[a], w))
                ELSE orders[a]
  <2>1. orders[a] \in Seq(Windows)
    BY DEF IInv, TypeOK, ArraysOK
  <2>2. CASE Holds(orders[a], w)
    <3>1. Reorder!RemoveAt(orders[a], IndexOf(orders[a], w)) = Without(orders[a], w)
      BY <2>1, <2>2, RemoveIsWithout
    <3>2. QED BY <2>2, <3>1, Zenon DEF Reorder!Has, Reorder!Place, Holds, IndexOf
  <2>3. CASE ~Holds(orders[a], w)
    BY <2>3, Zenon DEF Without, Reorder!Has, Holds
  <2>4. QED BY <2>2, <2>3
<1>4. Reorder!Close(w)
  BY <1>1, <1>2, <1>3, Zenon DEF Reorder!Close
<1>5. QED BY <1>4, Zenon DEF Reorder!Next

\* MoveTaskInGroup is atomic for its caller: the whole call, with its enumeration,
\* its notifications and the rollback, is one move of the window in every list that
\* has any, answered with true, or no change, answered with false.
THEOREM AtomicHolds == Spec => Atomic
<1>1. Init => Reorder!Init
  BY DEF Init, Reorder!Init, Settled, Moved
<1>2. ASSUME IInv, RInv, CallInv, [Next]_vars PROVE [Reorder!Next]_(Reorder!vars)
  <2> USE <1>2
  <2>1. CASE Begin \/ CollectTaskbar \/ AllCollected
    <3>1. /\ pc \in {"idle", "collect"} /\ pc' \in {"collect", "apply", "returned"}
          /\ orders' = orders /\ (outcome' = outcome \/ outcome' = "refused")
      <4>1. CASE Begin
        BY <4>1, Zenon DEF Begin, Call, Refuse
      <4>2. CASE CollectTaskbar
        BY <4>2, Zenon DEF CollectTaskbar, Refuse
      <4>3. CASE AllCollected
        BY <4>3, Zenon DEF AllCollected, Refuse
      <4>4. QED BY <2>1, <4>1, <4>2, <4>3
    <3>2. Settled' = Settled /\ outcome = "none"
      BY <3>1 DEF Settled, Moved, CallInv
    <3>3. QED BY <3>1, <3>2, Zenon DEF Reorder!Next, Reorder!Refuse, Reorder!vars
  <2>2. CASE Apply
    <3>1. Settled' = Settled /\ outcome' = outcome
      BY <2>2 DEF Apply, callVars, Settled, Moved, IInv, ReorderInv
    <3>2. QED BY <3>1, Zenon DEF Reorder!vars
  <2>3. CASE NotifyNext \/ FirstChanged \/ SecondChanged \/ ChangedFaults
    <3>1. Settled' = Settled /\ outcome' = outcome
      BY <2>3 DEF NotifyNext, FirstChanged, SecondChanged, ChangedFaults, callVars,
                  Settled, Moved
    <3>2. QED BY <3>1, Zenon DEF Reorder!vars
  <2>4. CASE Finish
    BY <2>4, FinishRefines
  <2>5. CASE Leave
    <3>1. Settled' = Settled /\ outcome # "none" /\ outcome' = "none"
      BY <2>5 DEF Leave, Settled, Moved, CallInv
    <3>2. QED BY <3>1, Zenon DEF Reorder!Next, Reorder!Return
  <2>6. CASE OpenWindow
    BY <2>6, OpenRefines
  <2>7. CASE CloseWindow
    BY <2>7, CloseRefines
  <2>8. CASE UNCHANGED vars
    <3>1. Settled' = Settled /\ outcome' = outcome
      BY <2>8 DEF vars, callVars, Settled, Moved
    <3>2. QED BY <3>1, Zenon DEF Reorder!vars
  <2>9. QED
    BY <2>1, <2>2, <2>3, <2>4, <2>5, <2>6, <2>7, <2>8 DEF Next
<1>3. QED
  BY <1>1, <1>2, InductiveInvariant, RInvHolds, CallInvHolds, PTL DEF Spec, Atomic, Reorder!Spec
=============================================================================
