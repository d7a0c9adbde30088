-------------------------- MODULE ClassicDragProofs --------------------------
(***************************************************************************)
(* ClassicDrag proved for every finite set of windows: what a drag refers  *)
(* to is the window that was pressed, and nothing of it outlives the       *)
(* detours.                                                                *)
(*                                                                         *)
(* The argument.  Detours are removed only while no press is suspended in  *)
(* the original procedure, so one that comes back finds them in place      *)
(* (FrameInv); custom logic starts from clean statics (NothingLeftBehind); *)
(* and a dragged index that names the pressed window is one of the array   *)
(* (IndexInv), which a move takes along and a window that closes behind it *)
(* leaves alone.                                                           *)
(***************************************************************************)
EXTENDS ClassicDrag, FiniteSetTheorems, TLAPS

\* A press that has not returned has its detour.
FrameInv == frame = "down" => patched

\* The index of a drag is one of the array while nothing before it has closed.
IndexInv == Custom /\ capture /\ dragged > 0 /\ ~shifted => dragged <= Len(order)

CInv ==
    /\ TypeOK /\ FrameInv /\ IndexInv
    /\ DraggedIsGrabbed /\ NothingLeftBehind /\ DoneMeansCaptured

-----------------------------------------------------------------------------
(* Sequences.                                                              *)

\* MovePointer keeps the length, the windows and that they differ.
LEMMA MoveTyped ==
  ASSUME NEW S, NEW s \in Seq(S), NEW f \in 1..Len(s), NEW t \in 1..Len(s),
         IsInjective(s)
  PROVE  /\ MovePointer(s, f, t) \in Seq(S)
         /\ Len(MovePointer(s, f, t)) = Len(s)
         /\ IsInjective(MovePointer(s, f, t))
         /\ MovePointer(s, f, t)[t] = s[f]
<1> DEFINE m == MovePointer(s, f, t)
<1>1. \A i \in 1..Len(s) : /\ s[i] \in S
                           /\ f <= i /\ i < t => s[i + 1] \in S
                           /\ t < i /\ i <= f => s[i - 1] \in S
  OBVIOUS
<1>2. m \in [1..Len(s) -> S]
  BY <1>1 DEF MovePointer
<1>3. m \in Seq(S) /\ Len(m) = Len(s)
  BY <1>2
<1>4. m[t] = s[f]
  BY DEF MovePointer
<1> DEFINE From(i) == IF i = t THEN f ELSE IF f <= i /\ i < t THEN i + 1
                      ELSE IF t < i /\ i <= f THEN i - 1 ELSE i
<1>5. \A i \in 1..Len(s) : From(i) \in 1..Len(s) /\ m[i] = s[From(i)]
  BY DEF MovePointer
<1>6. \A i, j \in 1..Len(s) : From(i) = From(j) => i = j
  OBVIOUS
<1>7. \A i, j \in 1..Len(s) : s[i] = s[j] => i = j
  BY DEF IsInjective
<1>8. DOMAIN m = 1..Len(s)
  BY <1>2
<1> HIDE DEF m, From
<1>9. \A i, j \in 1..Len(s) : m[i] = m[j] => i = j
  BY <1>5, <1>6, <1>7
<1>10. IsInjective(m)
  BY <1>8, <1>9 DEF IsInjective
<1>11. QED BY <1>3, <1>4, <1>10 DEF m

\* The others keep their order.
LEMMA MoveKeepsOthers ==
  ASSUME NEW S, NEW s \in Seq(S), NEW f \in 1..Len(s), NEW t \in 1..Len(s),
         NEW v \in S \ {s[f]}, NEW w \in S \ {s[f]}
  PROVE  Precedes(MovePointer(s, f, t), v, w) = Precedes(s, v, w)
<1> DEFINE m == MovePointer(s, f, t)
           To(i) == IF i = f THEN t
                    ELSE IF f < i /\ i <= t THEN i - 1
                    ELSE IF t <= i /\ i < f THEN i + 1 ELSE i
           From(i) == IF i = t THEN f
                      ELSE IF f <= i /\ i < t THEN i + 1
                      ELSE IF t < i /\ i <= f THEN i - 1 ELSE i
<1>1. DOMAIN m = 1..Len(s) /\ Len(m) = Len(s)
  <2>1. \A i \in 1..Len(s) : /\ s[i] \in S
                             /\ f <= i /\ i < t => s[i + 1] \in S
                             /\ t < i /\ i <= f => s[i - 1] \in S
    OBVIOUS
  <2>2. m \in [1..Len(s) -> S]
    BY <2>1 DEF MovePointer
  <2>3. QED BY <2>2
<1>2. \A i \in 1..Len(s) : From(i) \in 1..Len(s) /\ m[i] = s[From(i)]
  BY DEF MovePointer
<1>3. \A i \in 1..Len(s) : To(i) \in 1..Len(s) /\ From(To(i)) = i
  OBVIOUS
<1>4. ASSUME Precedes(s, v, w) PROVE Precedes(m, v, w)
  <2>1. PICK i \in 1..Len(s), j \in 1..Len(s) : i < j /\ s[i] = v /\ s[j] = w
    BY <1>4 DEF Precedes
  <2>2. i # f /\ j # f
    BY <2>1
  <2>3. To(i) < To(j)
    BY <2>1, <2>2
  <2> HIDE DEF m, To, From
  <2>4. m[To(i)] = v /\ m[To(j)] = w
    BY <1>2, <1>3, <2>1
  <2>5. QED BY <1>1, <1>3, <2>3, <2>4 DEF Precedes
<1>5. ASSUME Precedes(m, v, w) PROVE Precedes(s, v, w)
  <2>1. PICK i \in 1..Len(s), j \in 1..Len(s) : i < j /\ m[i] = v /\ m[j] = w
    BY <1>1, <1>5 DEF Precedes
  <2>2. s[From(i)] = v /\ s[From(j)] = w
    BY <1>2, <2>1
  <2>3. i # t /\ j # t
    BY <2>2
  <2>4. From(i) < From(j)
    BY <2>1, <2>3
  <2> HIDE DEF m, To, From
  <2>5. QED BY <1>2, <2>1, <2>2, <2>4 DEF Precedes
<1>6. Precedes(m, v, w) \in BOOLEAN /\ Precedes(s, v, w) \in BOOLEAN
  BY DEF Precedes
<1>7. QED BY <1>4, <1>5, <1>6

\* What RemoveAt leaves where.
LEMMA RemoveAtEntries ==
  ASSUME NEW S, NEW s \in Seq(S), NEW k \in 1..Len(s), IsInjective(s)
  PROVE  /\ RemoveAt(s, k) \in Seq(S) /\ Len(RemoveAt(s, k)) = Len(s) - 1
         /\ IsInjective(RemoveAt(s, k))
         /\ \A i \in 1..k - 1 : RemoveAt(s, k)[i] = s[i]
<1> DEFINE a == SubSeq(s, 1, k - 1)
           b == SubSeq(s, k + 1, Len(s))
           r == RemoveAt(s, k)
<1>1. a \in Seq(S) /\ Len(a) = k - 1 /\ \A i \in 1..k - 1 : a[i] = s[i]
  OBVIOUS
<1>2. b \in Seq(S) /\ Len(b) = Len(s) - k /\ \A i \in 1..Len(s) - k : b[i] = s[k + i]
  OBVIOUS
<1>3. r = a \o b
  BY DEF RemoveAt
<1> HIDE DEF a, b, r
<1>4. r \in Seq(S) /\ Len(r) = Len(s) - 1
  BY <1>1, <1>2, <1>3
<1>5. \A i \in 1..Len(r) : r[i] = IF i < k THEN s[i] ELSE s[i + 1]
  <2>1. ASSUME NEW i \in 1..Len(r) PROVE r[i] = IF i < k THEN s[i] ELSE s[i + 1]
    <3>1. r[i] = IF i <= Len(a) THEN a[i] ELSE b[i - Len(a)]
      BY <1>1, <1>2, <1>3, <1>4
    <3>2. CASE i < k
      BY <1>1, <3>1, <3>2
    <3>3. CASE i >= k
      <4>1. i - Len(a) \in 1..Len(s) - k
        BY <1>1, <1>4, <3>3
      <4>2. b[i - Len(a)] = s[k + (i - Len(a))]
        BY <1>2, <4>1
      <4>3. k + (i - Len(a)) = i + 1
        BY <1>1
      <4>4. QED BY <1>1, <3>1, <3>3, <4>2, <4>3
    <3>4. QED BY <3>2, <3>3
  <2>2. QED BY <2>1
<1>6. IsInjective(r)
  <2>1. \A i, j \in 1..Len(s) : s[i] = s[j] => i = j
    BY DEF IsInjective
  <2>2. \A i, j \in 1..Len(r) : r[i] = r[j] => i = j
    BY <1>4, <1>5, <2>1
  <2>3. QED BY <1>4, <2>2 DEF IsInjective
<1>7. \A i \in 1..k - 1 : r[i] = s[i]
  BY <1>4, <1>5
<1>8. QED BY <1>4, <1>6, <1>7 DEF r

\* What Append leaves where.
LEMMA AppendEntries ==
  ASSUME NEW S, NEW s \in Seq(S), NEW x \in S \ ToSet(s), IsInjective(s)
  PROVE  /\ Append(s, x) \in Seq(S) /\ Len(Append(s, x)) = Len(s) + 1
         /\ IsInjective(Append(s, x))
         /\ \A i \in 1..Len(s) : Append(s, x)[i] = s[i]
<1> DEFINE r == Append(s, x)
<1>1. r \in Seq(S) /\ Len(r) = Len(s) + 1 /\ r[Len(s) + 1] = x
  OBVIOUS
<1>2. \A i \in 1..Len(s) : r[i] = s[i] /\ s[i] # x
  BY DEF ToSet
<1>3. \A i, j \in 1..Len(s) : s[i] = s[j] => i = j
  BY DEF IsInjective
<1> HIDE DEF r
<1>4. \A i, j \in 1..Len(r) : r[i] = r[j] => i = j
  BY <1>1, <1>2, <1>3
<1>5. IsInjective(r)
  BY <1>1, <1>4 DEF IsInjective
<1>6. QED BY <1>1, <1>2, <1>5 DEF r

\* The thumbnails of a new group: some windows, each once.
LEMMA ArrangementTyped ==
  ASSUME NEW s \in SetToAllKPermutations(Windows)
  PROVE  s \in Seq(Windows) /\ IsInjective(s)
<1>1. PICK T \in SUBSET Windows : s \in SetToSeqs(T)
  BY DEF SetToAllKPermutations
<1>2. Cardinality(T) \in Nat
  BY WindowsAssumption, FS_Subset, FS_CardinalityType
<1>3. /\ s \in [1..Cardinality(T) -> T]
      /\ \A i, j \in 1..Cardinality(T) : i # j => s[i] # s[j]
  BY <1>1 DEF SetToSeqs
<1>4. s \in Seq(T)
  BY <1>2, <1>3
<1>5. QED BY <1>3, <1>4 DEF IsInjective

-----------------------------------------------------------------------------
(* Every step keeps CInv.                                                  *)

LEMMA InitCInv == Init => CInv
<1> SUFFICES ASSUME Init PROVE CInv
  OBVIOUS
<1>1. order \in Seq(Windows) /\ IsInjective(order)
  BY ArrangementTyped DEF Init
<1>2. QED
  BY <1>1 DEF Init, CInv, TypeOK, FrameInv, IndexInv, Custom, DraggedIsGrabbed,
              NothingLeftBehind, DoneMeansCaptured

\* The press: what StartDrag(at) stores is where the pressed window is.
LEMMA PressKeeps == CInv /\ (ButtonDown \/ ButtonDownReturns) => CInv'
<1> SUFFICES ASSUME CInv, ButtonDown \/ ButtonDownReturns PROVE CInv'
  OBVIOUS
<1> USE DEF CInv, TypeOK, FrameInv, IndexInv, Custom, DraggedIsGrabbed,
            NothingLeftBehind, DoneMeansCaptured
<1>1. CASE ButtonDown
  BY <1>1 DEF ButtonDown, dragVars
<1>2. CASE ButtonDownReturns
  <2>1. \A at \in 1..Len(order) : order[at] \in Windows /\ at \in Nat
    OBVIOUS
  <2>2. /\ frame' = "none" /\ patched' = patched /\ patched /\ order' = order
        /\ moved' = moved /\ activated' = activated /\ cooling' = cooling
    BY <1>2 DEF ButtonDownReturns
  <2>3. ASSUME NEW at \in 1..Len(order), StartDrag(at), grabbed' = order[at],
               shifted' = FALSE, enabled' = enabled, faulted' = faulted
        PROVE  CInv'
    <3>1. /\ dragged' \in Nat /\ dragged' <= Len(order') /\ order'[dragged'] = grabbed'
          /\ grabbed' \in Windows /\ dragDone' = FALSE /\ dragThresholdMet' = FALSE
          /\ capture' = TRUE
      BY <2>1, <2>2, <2>3 DEF StartDrag
    <3>2. QED BY <2>2, <2>3, <3>1
  <2>4. CASE UNCHANGED <<capture, enabled, faulted, dragVars, grabbed, shifted>>
    BY <2>2, <2>4 DEF dragVars
  <2>5. CASE MarkFault /\ UNCHANGED <<capture, dragVars, grabbed, shifted>>
    BY <2>2, <2>5 DEF dragVars, MarkFault
  <2>6. QED BY <1>2, <2>3, <2>4, <2>5 DEF ButtonDownReturns
<1>3. QED BY <1>1, <1>2

\* A reordering leaves the window that was dragged at the index it went to.
LEMMA ReorderTyped ==
  ASSUME TypeOK, NEW at \in 1..Len(order), Reorder(at)
  PROVE  /\ order' \in Seq(Windows) /\ Len(order') = Len(order)
         /\ IsInjective(order')
         /\ dragged \in 1..Len(order) /\ order'[at] = order[dragged]
BY MoveTyped DEF TypeOK, Reorder, CanMove

\* The move: the index goes along with the window.
LEMMA MoveKeeps == CInv /\ (PointerMove \/ PointerMoveFaults) => CInv'
<1> SUFFICES ASSUME CInv, PointerMove \/ PointerMoveFaults PROVE CInv'
  OBVIOUS
<1>1. ASSUME NEW at \in 1..Len(order), Reorder(at)
      PROVE  /\ order' \in Seq(Windows) /\ Len(order') = Len(order)
             /\ IsInjective(order') /\ moved' = TRUE
             /\ dragged \in 1..Len(order) /\ order'[at] = order[dragged]
  BY <1>1, ReorderTyped DEF CInv, Reorder
<1> USE DEF CInv, TypeOK, FrameInv, IndexInv, Custom, DraggedIsGrabbed,
            NothingLeftBehind, DoneMeansCaptured
<1>2. CASE PointerMove
  <2>1. /\ Custom /\ capture /\ capture' = capture /\ patched' = patched
        /\ frame' = frame /\ grabbed' = grabbed /\ shifted' = shifted
        /\ activated' = activated
        /\ dragThresholdMet' \in BOOLEAN
        /\ dragThresholdMet => dragThresholdMet'
    BY <1>2 DEF PointerMove
  <2>2. ASSUME NEW at \in 1..Len(order), Reorder(at), Advance(at),
               dragThresholdMet', cooling' = TRUE,
               enabled' = enabled, faulted' = faulted
        PROVE  CInv'
    <3>1. /\ order' \in Seq(Windows) /\ Len(order') = Len(order)
          /\ IsInjective(order') /\ moved' = TRUE
          /\ dragged \in 1..Len(order) /\ order'[at] = order[dragged]
      BY <1>1, <2>2
    <3>2. /\ dragged' \in Nat /\ dragged' <= Len(order') /\ dragDone' = TRUE
          /\ dragged > 0 /\ order'[dragged'] = order[dragged]
      BY <2>2, <3>1 DEF Advance
    <3>3. QED BY <2>1, <2>2, <3>1, <3>2
  <2>3. CASE UNCHANGED <<order, dragged, dragDone, cooling, moved, enabled, faulted>>
    BY <2>1, <2>3
  <2>4. QED BY <1>2, <2>2, <2>3 DEF PointerMove
<1>3. CASE PointerMoveFaults
  <2>1. /\ Custom /\ enabled' = FALSE /\ faulted' = TRUE
        /\ UNCHANGED <<capture, patched, frame, dragVars, cooling, grabbed, shifted,
                       activated>>
    BY <1>3 DEF PointerMoveFaults, MarkFault
  <2>2. order' \in Seq(Windows) /\ IsInjective(order') /\ moved' \in BOOLEAN
    BY <1>1, <1>3 DEF PointerMoveFaults
  <2>3. QED BY <2>1, <2>2 DEF dragVars
<1>4. QED BY <1>2, <1>3

\* The release and every other end of the capture.
LEMMA ReleaseKeeps == CInv /\ (ButtonUp \/ CaptureEnds \/ CoolDown) => CInv'
<1> SUFFICES ASSUME CInv, ButtonUp \/ CaptureEnds \/ CoolDown PROVE CInv'
  OBVIOUS
<1> USE DEF CInv, TypeOK, FrameInv, IndexInv, Custom, DraggedIsGrabbed,
            NothingLeftBehind, DoneMeansCaptured, dragVars, pastVars
<1>1. CASE ButtonUp
  <2>1. /\ patched /\ moved' = FALSE
        /\ UNCHANGED <<order, enabled, faulted, patched, frame, cooling, grabbed,
                       shifted>>
    BY <1>1 DEF ButtonUp
  <2>2. CASE ~Custom
    <3>1. activated' = moved /\ UNCHANGED <<capture, dragged, dragDone, dragThresholdMet>>
      BY <1>1, <2>2 DEF ButtonUp
    <3>2. QED BY <2>1, <3>1
  <2>3. CASE Custom /\ capture
    <3>1. /\ capture' = FALSE /\ dragged' = 0 /\ dragDone' = FALSE
          /\ dragThresholdMet' = FALSE
          /\ activated' \in BOOLEAN
      BY <1>1, <2>3 DEF ButtonUp, ResetDrag
    <3>2. QED BY <2>1, <3>1
  <2>4. CASE Custom /\ ~capture
    <3>1. /\ dragged' = 0 /\ dragThresholdMet' = FALSE /\ activated' = moved
          /\ capture' = capture /\ dragDone' = dragDone /\ ~dragDone
      BY <1>1, <2>4 DEF ButtonUp
    <3>2. QED BY <2>1, <2>4, <3>1
  <2>5. QED BY <2>2, <2>3, <2>4
<1>2. CASE CaptureEnds
  <2>1. CASE Custom
    <3>1. /\ patched /\ capture' = FALSE /\ ResetDrag
          /\ UNCHANGED <<order, enabled, faulted, patched, frame, cooling, grabbed,
                         shifted, moved, activated>>
      BY <1>2, <2>1 DEF CaptureEnds, CaptureGone
    <3>2. QED BY <3>1 DEF ResetDrag
  <2>2. CASE ~Custom
    BY <1>2, <2>2 DEF CaptureEnds, CaptureGone
  <2>3. QED BY <2>1, <2>2
<1>3. CASE CoolDown
  BY <1>3 DEF CoolDown
<1>4. QED BY <1>1, <1>2, <1>3

\* The commands: the detours go only with the statics reset.
LEMMA CommandKeeps == CInv /\ (EnableClassic \/ PrepareUnload \/ FreshDll) => CInv'
<1> SUFFICES ASSUME CInv, EnableClassic \/ PrepareUnload \/ FreshDll PROVE CInv'
  OBVIOUS
<1> USE DEF CInv, TypeOK, FrameInv, IndexInv, Custom, DraggedIsGrabbed,
            NothingLeftBehind, DoneMeansCaptured, dragVars, pastVars
<1>1. CASE EnableClassic
  BY <1>1 DEF EnableClassic
<1>2. CASE PrepareUnload
  <2>1. CASE Drained
    <3>1. /\ enabled' = FALSE /\ capture' = FALSE /\ patched' = FALSE /\ ResetDrag
          /\ frame' = "none"
          /\ UNCHANGED <<faulted, order, cooling, grabbed, shifted, moved, activated>>
      BY <1>2, <2>1 DEF PrepareUnload, Drained
    <3>2. QED BY <3>1 DEF ResetDrag
  <2>2. CASE ~Drained
    BY <1>2, <2>2 DEF PrepareUnload
  <2>3. QED BY <2>1, <2>2
<1>3. CASE FreshDll
  BY <1>3 DEF FreshDll
<1>4. QED BY <1>1, <1>2, <1>3

\* A window that closes behind the dragged index, or opens, leaves the index right.
LEMMA GroupKeeps == CInv /\ (CloseWindow \/ OpenWindow) => CInv'
<1> SUFFICES ASSUME CInv, CloseWindow \/ OpenWindow PROVE CInv'
  OBVIOUS
<1>1. order \in Seq(Windows) /\ IsInjective(order) /\ Len(order) \in Nat /\ dragged \in Nat
  BY DEF CInv, TypeOK
<1>2. CASE CloseWindow
  <2>1. PICK k \in 1..Len(order) : /\ order' = RemoveAt(order, k)
                                   /\ shifted' = (shifted \/ k <= dragged)
    BY <1>2 DEF CloseWindow
  <2>2. /\ order' \in Seq(Windows) /\ Len(order') = Len(order) - 1 /\ IsInjective(order')
        /\ \A i \in 1..k - 1 : order'[i] = order[i]
    BY <1>1, <2>1, RemoveAtEntries
  <2>3. ~shifted' /\ dragged > 0 => /\ ~shifted /\ dragged <= Len(order')
                                    /\ order'[dragged] = order[dragged]
    <3>1. ~shifted' => ~shifted /\ ~(k <= dragged)
      BY <2>1
    <3>2. ~(k <= dragged) /\ dragged > 0 => dragged \in 1..k - 1 /\ dragged <= Len(order')
      BY <1>1, <2>2
    <3>3. QED BY <2>2, <3>1, <3>2
  <2>4. UNCHANGED <<capture, enabled, faulted, patched, frame, dragVars, cooling,
                    grabbed, moved, activated>>
    BY <1>2 DEF CloseWindow
  <2>5. shifted' \in BOOLEAN
    BY <1>1, <2>1 DEF CInv, TypeOK
  <2>6. QED
    BY <2>2, <2>3, <2>4, <2>5
       DEF CInv, TypeOK, FrameInv, IndexInv, Custom, DraggedIsGrabbed,
           NothingLeftBehind, DoneMeansCaptured, dragVars
<1>3. CASE OpenWindow
  <2>1. PICK w \in Windows \ ToSet(order) : order' = Append(order, w)
    BY <1>3 DEF OpenWindow
  <2>2. /\ order' \in Seq(Windows) /\ Len(order') = Len(order) + 1 /\ IsInjective(order')
        /\ \A i \in 1..Len(order) : order'[i] = order[i]
    BY <1>1, <2>1, AppendEntries
  <2>3. UNCHANGED <<capture, enabled, faulted, patched, frame, dragVars, cooling, pastVars>>
    BY <1>3 DEF OpenWindow
  <2>4. QED
    BY <1>1, <2>2, <2>3
       DEF CInv, TypeOK, FrameInv, IndexInv, Custom, DraggedIsGrabbed,
           NothingLeftBehind, DoneMeansCaptured, dragVars, pastVars
<1>4. QED BY <1>2, <1>3

LEMMA StepCInv == CInv /\ [Next]_vars => CInv'
<1> SUFFICES ASSUME CInv, [Next]_vars PROVE CInv'
  OBVIOUS
<1>1. CASE UNCHANGED vars
  BY <1>1 DEF vars, dragVars, pastVars, CInv, TypeOK, FrameInv, IndexInv, Custom,
              DraggedIsGrabbed, NothingLeftBehind, DoneMeansCaptured
<1>2. CASE Next
  BY <1>2, PressKeeps, MoveKeeps, ReleaseKeeps, CommandKeeps, GroupKeeps DEF Next
<1>3. QED BY <1>1, <1>2

-----------------------------------------------------------------------------
(* The theorems.                                                           *)

\* The inductive invariant of WndLogic, EnableClassic and DisableClassic.
THEOREM CInvHolds == Spec => []CInv
BY InitCInv, StepCInv, PTL DEF Spec

\* The thumbnails are always some windows of the group, each of them once,
\* whatever MovePointer and the group do to the array.
THEOREM TypeCorrect == Spec => []TypeOK
<1>1. CInv => TypeOK
  BY DEF CInv
<1>2. QED BY <1>1, CInvHolds, PTL

\* The index that Move reads is that of the window the user pressed on.
THEOREM DraggedIsGrabbedHolds == Spec => []DraggedIsGrabbed
<1>1. CInv => DraggedIsGrabbed
  BY DEF CInv
<1>2. QED BY <1>1, CInvHolds, PTL

\* Nothing of a drag outlives the detours.
THEOREM NothingLeftBehindHolds == Spec => []NothingLeftBehind
<1>1. CInv => NothingLeftBehind
  BY DEF CInv
<1>2. QED BY <1>1, CInvHolds, PTL

\* dragDone belongs to a drag that still has the capture.
THEOREM DoneMeansCapturedHolds == Spec => []DoneMeansCaptured
<1>1. CInv => DoneMeansCaptured
  BY DEF CInv
<1>2. QED BY <1>1, CInvHolds, PTL

\* A move keeps the order of the windows that are not dragged.
LEMMA ReorderKeepsOthers ==
  ASSUME CInv, Custom, capture, ~shifted, NEW at \in 1..Len(order), Reorder(at)
  PROVE  \A v, w \in Windows \ {grabbed} :
            Precedes(order', v, w) = Precedes(order, v, w)
<1>1. dragged \in 1..Len(order) /\ order' = MovePointer(order, dragged, at)
  BY DEF Reorder, CanMove
<1>2. order[dragged] = grabbed /\ order \in Seq(Windows)
  BY <1>1 DEF CInv, TypeOK, DraggedIsGrabbed
<1>3. \A v, w \in Windows \ {order[dragged]} :
         Precedes(MovePointer(order, dragged, at), v, w) = Precedes(order, v, w)
  BY <1>1, <1>2, MoveKeepsOthers
<1>4. QED BY <1>1, <1>2, <1>3

\* A step that changes the order of the windows without one coming or going
\* leaves all but the pressed one in their order.
THEOREM OnlyGrabbedMovesHolds == Spec => OnlyGrabbedMoves
<1> DEFINE Kept == Len(order') = Len(order) /\ ~shifted =>
                      \A v, w \in Windows \ {grabbed} :
                         Precedes(order', v, w) = Precedes(order, v, w)
<1>1. ASSUME CInv, [Next]_vars PROVE [Kept]_order
  <2> SUFFICES ASSUME order' # order, Len(order') = Len(order), ~shifted
               PROVE  \A v, w \in Windows \ {grabbed} :
                         Precedes(order', v, w) = Precedes(order, v, w)
    OBVIOUS
  <2>1. CASE PointerMove \/ PointerMoveFaults
    <3>1. PICK at \in 1..Len(order) : Reorder(at)
      BY <2>1 DEF PointerMove, PointerMoveFaults
    <3>2. Custom /\ capture
      BY <2>1 DEF PointerMove, PointerMoveFaults
    <3>3. QED BY <1>1, <3>1, <3>2, ReorderKeepsOthers
  <2>2. CASE CloseWindow
    <3>1. order \in Seq(Windows) /\ IsInjective(order) /\ Len(order) \in Nat
      BY <1>1 DEF CInv, TypeOK
    <3>2. Len(order') = Len(order) - 1
      BY <2>2, <3>1, RemoveAtEntries DEF CloseWindow
    <3>3. QED BY <3>1, <3>2
  <2>3. CASE OpenWindow
    <3>1. order \in Seq(Windows) /\ IsInjective(order) /\ Len(order) \in Nat
      BY <1>1 DEF CInv, TypeOK
    <3>2. Len(order') = Len(order) + 1
      BY <2>3, <3>1, AppendEntries DEF OpenWindow
    <3>3. QED BY <3>1, <3>2
  <2>4. QED
    BY <1>1, <2>1, <2>2, <2>3
       DEF Next, vars, ButtonDown, ButtonDownReturns, ButtonUp, CaptureEnds, CoolDown,
           EnableClassic, PrepareUnload, FreshDll
<1>2. QED BY <1>1, CInvHolds, PTL DEF Spec, OnlyGrabbedMoves
=============================================================================
