--------------------------- MODULE XamlDragProofs ---------------------------
(***************************************************************************)
(* XamlDrag proved for any thumbnails, groups, taskbars and tasks, and any *)
(* limit of the table: the table is bounded and right, a drag moves what is*)
(* held unless the detour missed the last turn of the flyout, and its      *)
(* click never reaches Explorer.                                           *)
(*                                                                         *)
(* The argument.  The object at an index of the remembered vector lives, so*)
(* that its mapping, if there is one, is what it was constructed for       *)
(* (MappingsOK): a task of this very vector, where it is shown once        *)
(* (ListsInv).  Hence Explorer finds it at that index.  While the payload  *)
(* is enabled, the vector is the one that the flyout shows unless the last *)
(* turn was missed (FlyoutInv), so what is there is what is held.          *)
(***************************************************************************)
EXTENDS XamlDrag, FiniteSetTheorems, WellFoundedInduction, TLAPS

\* Every flyout shows thumbnails of its own group and taskbar, a task once.
ListsInv ==
    \A l \in Lists :
        /\ \A i \in 1..Len(vector[l]) :
              /\ built[vector[l][i]] \in Contexts
              /\ built[vector[l][i]].taskGroup = l[1]
              /\ built[vector[l][i]].taskListUi = l[2]
        /\ \A i, j \in 1..Len(vector[l]) :
              built[vector[l][i]].taskItem = built[vector[l][j]].taskItem => i = j

\* The remembered vector is the shown one, unless a fault has closed the gate or
\* the detour has missed a turn.
FlyoutInv ==
    /\ patched => enabled \/ faulted
    /\ enabled /\ currentThumbnails # None /\ ~missed => currentThumbnails = flyout

\* A press that has reordered lasts, and its click will be swallowed.
HeldInv == moved => enabled /\ reordered /\ capture

IInv == MappingsOK /\ ListsInv /\ FlyoutInv /\ HeldInv /\ NoActivationAfterReorder

-----------------------------------------------------------------------------
(* The table.                                                              *)

\* A finite set of mappings that is not empty has an oldest one: the set of those
\* older than it is minimal.
LEMMA OldestExists ==
  ASSUME NEW ms, ms \subseteq Mapping, IsFiniteSet(ms), ms # {}
  PROVE  \E m \in ms : \A n \in ms : n.order >= m.order
<1> DEFINE Older(m) == {n \in ms : n.order < m.order}
           sets == {Older(m) : m \in ms}
<1>1. \A m \in ms : m.order \in Nat
  BY BoundAssumption DEF Mapping
<1>2. sets \subseteq FiniteSubsetsOf(ms) /\ sets # {}
  <2>1. FiniteSubsetsOf(ms) = SUBSET ms
    BY FS_FiniteSubsetsOfFinite
  <2>2. \A m \in ms : Older(m) \in SUBSET ms
    OBVIOUS
  <2>3. sets \subseteq SUBSET ms
    <3>1. ASSUME NEW r \in sets PROVE r \in SUBSET ms
      <4>1. PICK m \in ms : r = Older(m)
        OBVIOUS
      <4>2. QED BY <2>2, <4>1, Zenon
    <3> HIDE DEF sets
    <3>2. QED BY <3>1
  <2>4. sets # {}
    <3>1. PICK m : m \in ms
      OBVIOUS
    <3>2. Older(m) \in sets
      BY <3>1
    <3> HIDE DEF sets
    <3>3. QED BY <3>2
  <2> HIDE DEF sets
  <2>5. QED BY <2>1, <2>3, <2>4
<1>3. PICK s \in sets : \A r \in sets : <<r, s>> \notin StrictSubsetOrdering(ms)
  <2> HIDE DEF sets
  <2>1. QED BY <1>2, FS_StrictSubsetOrderingWellFounded, WFMin, Zenon
<1>4. PICK m \in ms : s = Older(m)
  OBVIOUS
<1>5. ASSUME NEW n \in ms, n.order < m.order PROVE FALSE
  <2>1. \A k \in Older(n) : k \in Older(m)
    BY <1>1, <1>5
  <2>2. n \in Older(m) /\ n \notin Older(n)
    BY <1>1, <1>5
  <2>3. <<Older(n), Older(m)>> \in StrictSubsetOrdering(ms)
    BY <2>1, <2>2 DEF StrictSubsetOrdering
  <2>4. QED BY <1>3, <1>4, <2>3
<1>6. QED BY <1>1, <1>5

\* Prune keeps live mappings, and no more of them than the limit.
LEMMA PruneBounds ==
  ASSUME NEW ms, ms \subseteq Mapping, IsFiniteSet(ms)
  PROVE  /\ Prune(ms) \subseteq Live(ms) /\ Live(ms) \subseteq ms
         /\ IsFiniteSet(Prune(ms))
         /\ Cardinality(Prune(ms)) <= kMaximumThumbnailMappings
<1>1. Prune(ms) \subseteq Live(ms) /\ Live(ms) \subseteq ms
  BY DEF Prune, Live
<1>2. IsFiniteSet(Prune(ms)) /\ IsFiniteSet(Live(ms))
  BY <1>1, FS_Subset
<1>3. CASE Prune(ms) = {}
  <2>1. Cardinality(Prune(ms)) = 0
    BY <1>3, FS_EmptySet
  <2>2. QED BY <1>1, <1>2, <2>1, BoundAssumption
<1>4. CASE Prune(ms) # {}
  <2>1. PICK m \in Prune(ms) : \A n \in Prune(ms) : n.order >= m.order
    BY <1>1, <1>2, <1>4, OldestExists
  <2>2. Prune(ms) \subseteq Newer(Live(ms), m) /\ Newer(Live(ms), m) \subseteq Live(ms)
    BY <1>1, <2>1 DEF Newer
  <2>3. Cardinality(Newer(Live(ms), m)) <= kMaximumThumbnailMappings
    BY DEF Prune
  <2>4. IsFiniteSet(Newer(Live(ms), m))
    BY <1>2, <2>2, FS_Subset
  <2>5. Cardinality(Prune(ms)) <= Cardinality(Newer(Live(ms), m))
    BY <2>2, <2>4, FS_Subset
  <2>6. QED BY <2>3, <2>4, <2>5, <1>1, <1>2, FS_CardinalityType, BoundAssumption
<1>5. QED BY <1>1, <1>2, <1>3, <1>4

\* A destroyed object empties a field, and adds nothing.
LEMMA ExpiredBounds ==
  ASSUME NEW ms, ms \subseteq Mapping, IsFiniteSet(ms), NEW t
  PROVE  /\ Expired(ms, t) \subseteq Mapping /\ IsFiniteSet(Expired(ms, t))
         /\ Cardinality(Expired(ms, t)) <= Cardinality(ms)
<1> DEFINE f == [m \in ms |-> IF m.thumbnail = t THEN [m EXCEPT !.thumbnail = None]
                              ELSE m]
<1>1. Expired(ms, t) \subseteq Mapping
  BY DEF Expired, Mapping
<1>2. f \in Surjection(ms, Expired(ms, t))
  BY DEF Expired, Surjection
<1>3. QED BY <1>1, <1>2, FS_Surjection, Zenon

\* What AddMapping leaves in the table.
LEMMA AddMappingBounds ==
  ASSUME TypeOK, NEW t \in Thumbnails, NEW c \in Contexts, AddMapping(t, c)
  PROVE  /\ mappings' \subseteq Live(mappings) \cup {NewMapping(t, c)}
         /\ \A m \in mappings' : m # NewMapping(t, c) => ~Superseded(m, t, c)
         /\ mappings' \subseteq Mapping /\ IsFiniteSet(mappings')
         /\ Cardinality(mappings') <= kMaximumThumbnailMappings
         /\ mappingOrder' = mappingOrder + 1 /\ mappingOrder' \in 0..MaxOrder
         /\ NewMapping(t, c) \in Mapping
<1> DEFINE kept == {m \in mappings : ~Superseded(m, t, c)}
           all == kept \cup {NewMapping(t, c)}
<1>1. NewMapping(t, c) \in Mapping /\ mappingOrder' = mappingOrder + 1
      /\ mappingOrder' \in 0..MaxOrder
  BY BoundAssumption DEF AddMapping, NewMapping, Mapping, TypeOK, TableOK
<1>2. kept \subseteq mappings /\ mappings \subseteq Mapping /\ IsFiniteSet(mappings)
  BY DEF TypeOK, TableOK
<1>3. IsFiniteSet(kept)
  BY <1>2, FS_Subset
<1>4. all \subseteq Mapping /\ IsFiniteSet(all)
  BY <1>1, <1>2, <1>3, FS_AddElement
<1>5. mappings' = Prune(all)
  BY DEF AddMapping
<1>6. /\ mappings' \subseteq Live(all) /\ Live(all) \subseteq all
      /\ IsFiniteSet(mappings')
      /\ Cardinality(mappings') <= kMaximumThumbnailMappings
  BY <1>4, <1>5, PruneBounds
<1>7. mappings' \subseteq Live(mappings) \cup {NewMapping(t, c)}
  BY <1>2, <1>6 DEF Live
<1>8. \A m \in mappings' : m # NewMapping(t, c) => ~Superseded(m, t, c)
  BY <1>6
<1>9. mappings' \subseteq Mapping
  BY <1>4, <1>6
<1>10. QED BY <1>1, <1>6, <1>7, <1>8, <1>9

-----------------------------------------------------------------------------
(* The drag.                                                               *)

\* The index at which MovePointer finds what it puts at i.
Origin(i, f, t) == IF i = t THEN f
                   ELSE IF f <= i /\ i < t THEN i + 1
                   ELSE IF t < i /\ i <= f THEN i - 1
                   ELSE i

\* Origin stays within the list, and takes no index twice.
LEMMA OriginOK ==
  ASSUME NEW n \in Nat, NEW f \in 1..n, NEW t \in 1..n
  PROVE  /\ \A i \in 1..n : Origin(i, f, t) \in 1..n
         /\ \A i, j \in 1..n : Origin(i, f, t) = Origin(j, f, t) => i = j
BY DEF Origin

\* MovePointer only selects.
LEMMA MoveSelects ==
  ASSUME NEW s, NEW f, NEW t
  PROVE  MovePointer(s, f, t) = [i \in 1..Len(s) |-> s[Origin(i, f, t)]]
BY DEF MovePointer, Origin

LEMMA FunctionIsSeq ==
  ASSUME NEW S, NEW n \in Nat, NEW r \in [1..n -> S]
  PROVE  r \in Seq(S) /\ Len(r) = n
OBVIOUS

LEMMA MoveInSeq ==
  ASSUME NEW S, NEW s \in Seq(S), NEW f \in 1..Len(s), NEW t \in 1..Len(s)
  PROVE  MovePointer(s, f, t) \in Seq(S) /\ Len(MovePointer(s, f, t)) = Len(s)
<1> DEFINE n == Len(s)
           r == MovePointer(s, f, t)
<1>1. n \in Nat /\ f \in 1..n /\ t \in 1..n
  OBVIOUS
<1>2. \A i \in 1..n : s[i] \in S
  OBVIOUS
<1>3. r = [i \in 1..n |-> s[Origin(i, f, t)]]
  BY MoveSelects
<1> HIDE DEF n, r
<1>4. \A i \in 1..n : Origin(i, f, t) \in 1..n
  BY <1>1, OriginOK
<1>5. r \in [1..n -> S]
  BY <1>2, <1>3, <1>4
<1>6. r \in Seq(S) /\ Len(r) = n
  BY <1>1, <1>5, FunctionIsSeq
<1>7. QED BY <1>6 DEF n, r

\* A move of PointerLogic is one of the remembered vector, from the index that
\* what is held has in the flyout.
IsDrag(p, h) ==
    /\ vector[flyout][p] = pressed
    /\ currentThumbnails \in Lists
    /\ p \in 1..Len(vector[currentThumbnails])
    /\ vector' = [vector EXCEPT ![currentThumbnails] = MovePointer(@, p, h)]

LEMMA MoveIsRemembered ==
  ASSUME TypeOK, IInv, flyout # None, MovesPressed
  PROVE  \E p \in 1..Len(vector[flyout]), h \in 1..Len(vector[currentThumbnails]) :
            IsDrag(p, h)
<1>1. PICK p, h \in 1..Len(vector[flyout]) :
         vector[flyout][p] = pressed /\ p # h /\ MoveXaml(p, h)
  BY DEF MovesPressed
<1> DEFINE k == currentThumbnails
<1>2. k \in Lists /\ vector[k] \in Seq(Thumbnails)
  BY <1>1 DEF MoveXaml, TypeOK, TableOK, ShellOK
<1>3. p \in 1..Len(vector[k]) /\ h \in 1..Len(vector[k])
  BY <1>1, <1>2 DEF MoveXaml, CanMove
<1>4. PICK f, t \in mappings :
         /\ f.thumbnail = vector[k][p] /\ t.thumbnail = vector[k][h]
         /\ SameReorderContext(f, t)
         /\ MoveTaskInGroup(f.context, t.context.taskItem)
  BY <1>1 DEF MoveXaml
<1> DEFINE c == f.context
           d == t.context
<1>5. f.thumbnail # None /\ t.thumbnail # None
  BY <1>2, <1>3, <1>4, NoneAssumption
<1>6. built[vector[k][p]] = c /\ built[vector[k][h]] = d
  BY <1>4, <1>5 DEF IInv, MappingsOK
<1>7. k = <<c.taskGroup, c.taskListUi>>
  <2>1. c.taskGroup = k[1] /\ c.taskListUi = k[2]
    BY <1>2, <1>3, <1>6 DEF IInv, ListsInv
  <2>2. QED BY <1>2, <2>1 DEF Lists
<1>8. \A i, j \in 1..Len(vector[k]) :
         built[vector[k][i]].taskItem = built[vector[k][j]].taskItem => i = j
  BY <1>2 DEF IInv, ListsInv
<1>9. Place(k, c.taskItem) = p /\ Place(k, d.taskItem) = h
  BY <1>3, <1>6, <1>8 DEF Place
<1>10. vector' = [vector EXCEPT ![k] = MovePointer(@, p, h)]
  BY <1>4, <1>7, <1>9 DEF MoveTaskInGroup
<1>11. QED BY <1>1, <1>2, <1>3, <1>10 DEF IsDrag

\* What the pointer may do to the vectors.
LEMMA PointerOutcome ==
  ASSUME TypeOK, IInv, flyout # None, PointerLogic
  PROVE  \/ vector' = vector
         \/ /\ enabled /\ capture /\ reordered'
            /\ \E p \in 1..Len(vector[flyout]),
                  h \in 1..Len(vector[currentThumbnails]) : IsDrag(p, h)
BY MoveIsRemembered DEF PointerLogic

-----------------------------------------------------------------------------
(* The steps.                                                              *)

\* DisableXaml leaves an empty table.
LEMMA DisabledTable ==
  ASSUME TypeOK, DisableXaml
  PROVE  TableOK' /\ patched' = FALSE /\ reordered' = FALSE /\ missed' = FALSE
<1>1. IsFiniteSet({}) /\ Cardinality({}) = 0
  BY FS_EmptySet
<1>2. mappings' = {} /\ currentThumbnails' = None /\ mappingOrder' = 0
  BY DEF DisableXaml, Cleared
<1>3. mappingGeneration' \in 1..MaxGeneration
  BY BoundAssumption DEF DisableXaml, NextGeneration, TypeOK, TableOK
<1>4. Cardinality(mappings') <= kMaximumThumbnailMappings /\ IsFiniteSet(mappings')
  BY <1>1, <1>2, BoundAssumption
<1>5. mappings' \subseteq Mapping
  BY <1>2
<1>6. QED BY <1>2, <1>3, <1>4, <1>5, BoundAssumption DEF TableOK, DisableXaml, Cleared

\* A table that loses mappings is one still.
LEMMA SmallerTable ==
  ASSUME TypeOK, mappings' \subseteq Mapping, IsFiniteSet(mappings'),
         Cardinality(mappings') <= kMaximumThumbnailMappings,
         mappingOrder' \in 0..MaxOrder, UNCHANGED mappingGeneration,
         currentThumbnails' \in Lists \cup {None}
  PROVE  TableOK'
BY DEF TypeOK, TableOK

\* ThumbnailsHook remembers a vector, and prunes.
LEMMA HookTable ==
  ASSUME TypeOK, NEW l \in Lists, NEW r, NEW ok, ThumbnailsHook(l, r, ok),
         UNCHANGED <<mappingOrder, mappingGeneration>>
  PROVE  TableOK' /\ mappings' \subseteq mappings
<1>1. CASE UNCHANGED <<currentThumbnails, mappings>>
  BY <1>1 DEF TypeOK, TableOK
<1>2. CASE currentThumbnails' = l /\ mappings' = Prune(mappings)
  <2>1. mappings \subseteq Mapping /\ IsFiniteSet(mappings)
    BY DEF TypeOK, TableOK
  <2>2. /\ mappings' \subseteq mappings /\ IsFiniteSet(mappings')
        /\ Cardinality(mappings') <= kMaximumThumbnailMappings
    BY <1>2, <2>1, PruneBounds
  <2>3. mappings' \subseteq Mapping
    BY <2>1, <2>2
  <2>4. mappingOrder' \in 0..MaxOrder
    BY DEF TypeOK, TableOK
  <2>5. QED BY <1>2, <2>2, <2>3, <2>4, SmallerTable
<1>3. QED BY <1>1, <1>2 DEF ThumbnailsHook

\* The table is bounded and everything has its type.
LEMMA TypeStep == TypeOK /\ IInv /\ [Next]_vars => TypeOK'
<1> SUFFICES ASSUME TypeOK, IInv, [Next]_vars PROVE TypeOK'
  OBVIOUS
<1> USE DEF shellVars, gateVars, tableVars, shownVars, pastVars
<1>0. /\ UNCHANGED <<tableVars, currentThumbnails>> => TableOK'
      /\ UNCHANGED <<shellVars, pressed>> => ShellOK'
      /\ UNCHANGED <<gateVars, missed, reordered, pastVars>> => FlagsOK'
  BY DEF TypeOK, TableOK, ShellOK, FlagsOK
<1>1. CASE Construct
  <2>1. PICK t \in Thumbnails, l \in Lists, w \in Tasks :
           LET c == [taskGroup |-> l[1], taskItem |-> w, taskListUi |-> l[2]] IN
           /\ built' = [built EXCEPT ![t] = c]
           /\ vector' = [vector EXCEPT ![l] = Append(@, t)]
           /\ Constructed(t, c)
    BY <1>1 DEF Construct
  <2> DEFINE c == [taskGroup |-> l[1], taskItem |-> w, taskListUi |-> l[2]]
  <2>2. c \in Contexts
    BY DEF Lists, Contexts
  <2>3. ShellOK'
    <3>1. built' \in [Thumbnails -> Contexts \cup {None}]
      <4>1. built' = [built EXCEPT ![t] = c]
        BY <2>1
      <4>2. built \in [Thumbnails -> Contexts \cup {None}]
        BY DEF TypeOK, ShellOK
      <4> HIDE DEF c
      <4>3. QED BY <2>2, <4>1, <4>2
    <3>2. vector' \in [Lists -> Seq(Thumbnails)]
      BY <2>1 DEF TypeOK, ShellOK
    <3>3. QED BY <1>1, <3>1, <3>2 DEF Construct, TypeOK, ShellOK
  <2>4. CASE AddMapping(t, c) /\ UNCHANGED mappingGeneration
    <3>1. currentThumbnails' \in Lists \cup {None}
      BY <1>1 DEF Construct, TypeOK, TableOK
    <3>2. /\ mappings' \subseteq Mapping /\ IsFiniteSet(mappings')
          /\ Cardinality(mappings') <= kMaximumThumbnailMappings
          /\ mappingOrder' \in 0..MaxOrder
      <4> HIDE DEF c
      <4>1. QED BY <2>2, <2>4, AddMappingBounds
    <3>3. TableOK'
      BY <2>4, <3>1, <3>2, SmallerTable
    <3>4. QED BY <1>0, <1>1, <2>3, <3>3 DEF Construct, TypeOK
  <2>5. CASE UNCHANGED tableVars
    BY <1>0, <1>1, <2>3, <2>5 DEF Construct, TypeOK
  <2>6. QED BY <2>1, <2>4, <2>5 DEF Constructed
<1>2. CASE Remove
  <2>1. PICK l \in Lists : \E i \in 1..Len(vector[l]) :
           vector' = [vector EXCEPT ![l] =
              [j \in 1..(Len(@) - 1) |-> IF j < i THEN @[j] ELSE @[j + 1]]]
    BY <1>2 DEF Remove
  <2>2. PICK i \in 1..Len(vector[l]) :
           vector' = [vector EXCEPT ![l] =
              [j \in 1..(Len(@) - 1) |-> IF j < i THEN @[j] ELSE @[j + 1]]]
    BY <2>1
  <2>3. vector[l] \in Seq(Thumbnails)
    BY DEF TypeOK, ShellOK
  <2> DEFINE s == [j \in 1..(Len(vector[l]) - 1) |->
                      IF j < i THEN vector[l][j] ELSE vector[l][j + 1]]
  <2>4. s \in Seq(Thumbnails)
    <3>1. Len(vector[l]) - 1 \in Nat
      BY <2>3
    <3>2. \A j \in 1..(Len(vector[l]) - 1) : s[j] \in Thumbnails
      BY <2>3
    <3>3. s \in [1..(Len(vector[l]) - 1) -> Thumbnails]
      BY <3>2
    <3> HIDE DEF s
    <3>4. QED BY <3>1, <3>3, FunctionIsSeq
  <2>5. vector' \in [Lists -> Seq(Thumbnails)]
    BY <2>2, <2>4 DEF TypeOK, ShellOK
  <2>6. QED BY <1>0, <1>2, <2>5 DEF Remove, TypeOK, ShellOK
<1>3. CASE Destroy
  <2>1. PICK t \in Thumbnails : built' = [built EXCEPT ![t] = None]
                               /\ mappings' = Expired(mappings, t)
    BY <1>3 DEF Destroy
  <2>2. ShellOK'
    BY <1>3, <2>1 DEF Destroy, TypeOK, ShellOK
  <2>3. mappings \subseteq Mapping /\ IsFiniteSet(mappings)
        /\ Cardinality(mappings) <= kMaximumThumbnailMappings
    BY DEF TypeOK, TableOK
  <2>4. /\ mappings' \subseteq Mapping /\ IsFiniteSet(mappings')
        /\ Cardinality(mappings') <= Cardinality(mappings)
    BY <2>1, <2>3, ExpiredBounds
  <2>5. Cardinality(mappings') <= kMaximumThumbnailMappings
    BY <2>3, <2>4, FS_CardinalityType, BoundAssumption
  <2>6. TableOK'
    BY <1>3, <2>4, <2>5 DEF Destroy, TypeOK, TableOK
  <2>7. QED BY <1>0, <1>3, <2>2, <2>6 DEF Destroy, TypeOK
<1>4. CASE Target
  <2>1. PICK l \in Lists, ok \in {FALSE, enabled} :
           /\ flyout' = l /\ ThumbnailsHook(l, TRUE, ok)
           /\ missed' = (enabled /\ ~ok /\ currentThumbnails \notin {None, l})
    BY <1>4 DEF Target
  <2>2. TableOK'
    BY <1>4, <2>1, HookTable DEF Target
  <2>3. FlagsOK'
    BY <1>4, <2>1 DEF Target, TypeOK, FlagsOK
  <2>4. QED BY <1>4, <2>1, <2>2, <2>3 DEF Target, TypeOK, ShellOK
<1>5. CASE OtherThumbnails
  <2>1. TableOK'
    BY <1>5, HookTable DEF OtherThumbnails
  <2>2. QED BY <1>0, <1>5, <2>1 DEF OtherThumbnails, TypeOK
<1>6. CASE Press
  BY <1>0, <1>6 DEF Press, TypeOK, ShellOK, FlagsOK
<1>7. ASSUME flyout # None, PointerLogic PROVE vector' \in [Lists -> Seq(Thumbnails)]
  <2>1. CASE vector' = vector
    BY <2>1 DEF TypeOK, ShellOK
  <2>2. ASSUME NEW p, NEW h \in 1..Len(vector[currentThumbnails]), IsDrag(p, h)
        PROVE  vector' \in [Lists -> Seq(Thumbnails)]
    <3> DEFINE k == currentThumbnails
    <3>1. /\ k \in Lists /\ vector[k] \in Seq(Thumbnails) /\ p \in 1..Len(vector[k])
          /\ vector' = [vector EXCEPT ![k] = MovePointer(@, p, h)]
      BY <2>2 DEF IsDrag, TypeOK, ShellOK
    <3>2. MovePointer(vector[k], p, h) \in Seq(Thumbnails)
      BY <3>1, MoveInSeq
    <3>3. QED BY <3>1, <3>2 DEF TypeOK, ShellOK
  <2>3. QED BY <1>7, <2>1, <2>2, PointerOutcome
<1>8. CASE PointerMoved
  <2>1. ShellOK'
    BY <1>7, <1>8 DEF PointerMoved, TypeOK, ShellOK
  <2>2. FlagsOK'
    BY <1>8 DEF PointerMoved, PointerLogic, TypeOK, FlagsOK
  <2>3. QED BY <1>0, <1>8, <2>1, <2>2 DEF PointerMoved, TypeOK
<1>9. CASE PointerFaults
  <2>1. ShellOK'
    BY <1>7, <1>9 DEF PointerFaults, TypeOK, ShellOK
  <2>2. FlagsOK'
    BY <1>9 DEF PointerFaults, PointerLogic, MarkFault, TypeOK, FlagsOK
  <2>3. QED BY <1>0, <1>9, <2>1, <2>2 DEF PointerFaults, TypeOK
<1>10. CASE Release
  BY <1>0, <1>10 DEF Release, ClickHook, Swallows, TypeOK, ShellOK, FlagsOK
<1>11. CASE Position
  BY <1>0, <1>11 DEF Position, TypeOK, FlagsOK
<1>12. CASE Enable
  BY <1>0, <1>12, DisabledTable DEF Enable, MarkFault, TypeOK, FlagsOK
<1>13. CASE Disable
  <2>1. CASE DisableXaml
    BY <1>0, <1>13, <2>1, DisabledTable DEF Disable, MarkFault, TypeOK, FlagsOK
  <2>2. CASE MarkFault /\ UNCHANGED <<patched, tableVars, currentThumbnails, reordered>>
    BY <1>0, <1>13, <2>2 DEF Disable, MarkFault, TypeOK, FlagsOK
  <2>3. QED BY <1>13, <2>1, <2>2 DEF Disable
<1>14. CASE UNCHANGED vars
  BY <1>0, <1>14 DEF vars, TypeOK
<1>15. QED BY <1>1, <1>2, <1>3, <1>4, <1>5, <1>6, <1>8, <1>9, <1>10, <1>11, <1>12,
             <1>13, <1>14 DEF Next

\* The two parts of MappingsOK about the mappings themselves.
TrueMappings ==
    \A m \in mappings :
        /\ m.generation = mappingGeneration /\ m.order <= mappingOrder
        /\ m.thumbnail # None => built[m.thumbnail] = m.context
Different(m, n) ==
    /\ m.order # n.order
    /\ m.thumbnail = n.thumbnail => m.thumbnail = None
    /\ \/ m.context.taskGroup # n.context.taskGroup
       \/ m.context.taskItem # n.context.taskItem
DistinctMappings == \A m, n \in mappings : m # n => Different(m, n)

LEMMA MappingsParts ==
  MappingsOK <=> /\ TrueMappings /\ DistinctMappings
                 /\ enabled => patched
                 /\ ~patched => mappings = {} /\ currentThumbnails = None
BY DEF MappingsOK, TrueMappings, DistinctMappings, Different

\* AddMapping adds a mapping that is true and unlike the others.
LEMMA AddMappingKeeps ==
  ASSUME TypeOK, MappingsOK, NEW t \in Thumbnails, NEW c \in Contexts,
         built[t] = None, built' = [built EXCEPT ![t] = c],
         AddMapping(t, c), UNCHANGED mappingGeneration
  PROVE  TrueMappings' /\ DistinctMappings'
<1> DEFINE new == NewMapping(t, c)
<1>1. /\ mappings' \subseteq Live(mappings) \cup {new}
      /\ \A m \in mappings' : m # new => ~Superseded(m, t, c)
      /\ mappingOrder' = mappingOrder + 1
  BY AddMappingBounds
<1>2. /\ new.thumbnail = t /\ new.context = c /\ new.order = mappingOrder + 1
      /\ new.generation = mappingGeneration
  BY DEF NewMapping
<1>3. mappingOrder \in Nat /\ mappings \subseteq Mapping
  BY BoundAssumption DEF TypeOK, TableOK
<1>4. \A m \in Mapping : m.order \in Nat
  BY BoundAssumption DEF Mapping
<1>5. built \in [Thumbnails -> Contexts \cup {None}]
  BY DEF TypeOK, ShellOK
<1>6. TrueMappings /\ DistinctMappings
  BY MappingsParts
<1> HIDE DEF new
<1>7. ASSUME NEW m \in mappings', m # new
      PROVE  /\ m \in mappings /\ m.thumbnail # None /\ m.thumbnail # t
             /\ \/ m.context.taskGroup # c.taskGroup
                \/ m.context.taskItem # c.taskItem
  BY <1>1, <1>7 DEF Live, Superseded
<1>8. TrueMappings'
  <2>1. ASSUME NEW m \in mappings'
        PROVE  /\ m.generation = mappingGeneration' /\ m.order <= mappingOrder'
               /\ m.thumbnail # None => built'[m.thumbnail] = m.context
    <3>1. CASE m = new
      BY <1>1, <1>2, <1>3, <1>5, <3>1
    <3>2. CASE m # new
      <4>1. m \in mappings /\ m \in Mapping /\ m.thumbnail \in Thumbnails
            /\ m.thumbnail # t
        BY <1>3, <1>7, <3>2 DEF Mapping
      <4>2. m.generation = mappingGeneration /\ m.order <= mappingOrder
            /\ built[m.thumbnail] = m.context
        BY <1>6, <1>7, <3>2, <4>1 DEF TrueMappings
      <4>3. QED BY <1>1, <1>3, <1>4, <1>5, <4>1, <4>2
    <3>3. QED BY <3>1, <3>2
  <2>2. QED BY <2>1 DEF TrueMappings
<1>9. \A m \in mappings' : m # new => Different(m, new) /\ Different(new, m)
  <2>1. ASSUME NEW m \in mappings', m # new
        PROVE  Different(m, new) /\ Different(new, m)
    <3>1. m \in mappings /\ m.thumbnail # None /\ m.thumbnail # t
          /\ (\/ m.context.taskGroup # c.taskGroup
              \/ m.context.taskItem # c.taskItem)
      BY <1>7, <2>1
    <3>2. m.order <= mappingOrder /\ m.order \in Nat
      BY <1>3, <1>4, <1>6, <3>1 DEF TrueMappings
    <3>3. m.order # new.order
      BY <1>2, <1>3, <3>2
    <3>4. QED BY <1>2, <3>1, <3>3 DEF Different
  <2>2. QED BY <2>1
<1>10. DistinctMappings'
  BY <1>6, <1>7, <1>9 DEF DistinctMappings
<1>11. QED BY <1>8, <1>10

\* A table that loses mappings stays true, and so does one in which an object
\* expires.
LEMMA FewerMappings ==
  ASSUME MappingsOK, mappings' \subseteq mappings,
         UNCHANGED <<built, mappingOrder, mappingGeneration>>
  PROVE  TrueMappings' /\ DistinctMappings'
BY MappingsParts DEF TrueMappings, DistinctMappings

LEMMA ExpiredKeeps ==
  ASSUME TypeOK, MappingsOK, NEW t \in Thumbnails,
         built' = [built EXCEPT ![t] = None], mappings' = Expired(mappings, t),
         UNCHANGED <<mappingOrder, mappingGeneration>>
  PROVE  TrueMappings' /\ DistinctMappings'
<1>1. TrueMappings /\ DistinctMappings
  BY MappingsParts
<1>2. mappings \subseteq Mapping /\ built \in [Thumbnails -> Contexts \cup {None}]
  BY DEF TypeOK, TableOK, ShellOK
<1>3. ASSUME NEW m \in mappings'
      PROVE  \E n \in mappings :
                /\ m = IF n.thumbnail = t THEN [n EXCEPT !.thumbnail = None] ELSE n
                /\ m.order = n.order /\ m.generation = n.generation
                /\ m.context = n.context
                /\ m.thumbnail # None => m.thumbnail = n.thumbnail /\ m.thumbnail # t
  <2>1. PICK n \in mappings :
           m = IF n.thumbnail = t THEN [n EXCEPT !.thumbnail = None] ELSE n
    BY DEF Expired
  <2>2. n \in Mapping
    BY <1>2
  <2>3. QED BY <2>1, <2>2 DEF Mapping
<1>4. TrueMappings'
  <2>1. ASSUME NEW m \in mappings'
        PROVE  /\ m.generation = mappingGeneration' /\ m.order <= mappingOrder'
               /\ m.thumbnail # None => built'[m.thumbnail] = m.context
    <3>1. PICK n \in mappings :
             /\ m.order = n.order /\ m.generation = n.generation
             /\ m.context = n.context
             /\ m.thumbnail # None => m.thumbnail = n.thumbnail /\ m.thumbnail # t
      BY <1>3
    <3>2. n.thumbnail \in Thumbnails \cup {None}
      BY <1>2 DEF Mapping
    <3>3. QED BY <1>1, <1>2, <3>1, <3>2 DEF TrueMappings
  <2>2. QED BY <2>1 DEF TrueMappings
<1>5. DistinctMappings'
  <2>1. ASSUME NEW m1 \in mappings', NEW m2 \in mappings', m1 # m2
        PROVE  Different(m1, m2)
    <3>1. PICK n1 \in mappings :
             /\ m1 = IF n1.thumbnail = t THEN [n1 EXCEPT !.thumbnail = None] ELSE n1
             /\ m1.order = n1.order /\ m1.context = n1.context
             /\ m1.thumbnail # None => m1.thumbnail = n1.thumbnail
      BY <1>3
    <3>2. PICK n2 \in mappings :
             /\ m2 = IF n2.thumbnail = t THEN [n2 EXCEPT !.thumbnail = None] ELSE n2
             /\ m2.order = n2.order /\ m2.context = n2.context
             /\ m2.thumbnail # None => m2.thumbnail = n2.thumbnail
      BY <1>3
    <3>3. n1 # n2
      BY <2>1, <3>1, <3>2
    <3>4. Different(n1, n2)
      BY <1>1, <3>3 DEF DistinctMappings
    <3>5. m1.thumbnail = m2.thumbnail => m1.thumbnail = None
      BY <3>1, <3>2, <3>4 DEF Different
    <3>6. QED BY <3>1, <3>2, <3>4, <3>5 DEF Different
  <2>2. QED BY <2>1 DEF DistinctMappings
<1>6. QED BY <1>4, <1>5

\* The table stays true.
LEMMA MappingsStep == TypeOK /\ IInv /\ [Next]_vars => MappingsOK'
<1> SUFFICES ASSUME TypeOK, IInv, [Next]_vars PROVE MappingsOK'
  OBVIOUS
<1> USE DEF shellVars, gateVars, tableVars, shownVars, pastVars
<1>0. MappingsOK /\ TrueMappings /\ DistinctMappings
      /\ (enabled => patched)
      /\ (~patched => mappings = {} /\ currentThumbnails = None)
  BY MappingsParts DEF IInv
<1>1. CASE Construct
  <2>1. PICK t \in Thumbnails, l \in Lists, w \in Tasks :
           LET c == [taskGroup |-> l[1], taskItem |-> w, taskListUi |-> l[2]] IN
           /\ built[t] = None /\ built' = [built EXCEPT ![t] = c]
           /\ Constructed(t, c)
    BY <1>1 DEF Construct
  <2> DEFINE c == [taskGroup |-> l[1], taskItem |-> w, taskListUi |-> l[2]]
  <2>2. c \in Contexts
    BY DEF Lists, Contexts
  <2>3. CASE enabled /\ AddMapping(t, c) /\ UNCHANGED mappingGeneration
    <3> HIDE DEF c
    <3>1. TrueMappings' /\ DistinctMappings'
      BY <1>0, <2>1, <2>2, <2>3, AddMappingKeeps DEF c
    <3>2. enabled' /\ patched'
      BY <1>0, <1>1, <2>3 DEF Construct
    <3>3. QED BY <3>1, <3>2, MappingsParts DEF MappingsOK, TrueMappings,
                 DistinctMappings, Different
  <2>4. CASE UNCHANGED tableVars
    <3>1. \A m \in mappings : m.thumbnail # None =>
             m.thumbnail \in Thumbnails /\ m.thumbnail # t
      <4>1. ASSUME NEW m \in mappings, m.thumbnail # None
            PROVE  m.thumbnail \in Thumbnails /\ m.thumbnail # t
        <5>1. m.thumbnail \in Thumbnails /\ m.context \in Contexts
          BY <4>1 DEF TypeOK, TableOK, Mapping
        <5>2. built[m.thumbnail] = m.context
          BY <1>0, <4>1 DEF TrueMappings
        <5>3. QED BY <2>1, <5>1, <5>2, NoneAssumption
      <4>2. QED BY <4>1
    <3>2. \A u \in Thumbnails : u # t => built'[u] = built[u]
      BY <2>1 DEF TypeOK, ShellOK
    <3>3. QED BY <1>0, <1>1, <2>4, <3>1, <3>2 DEF Construct, MappingsOK, TrueMappings
  <2>5. QED BY <2>1, <2>3, <2>4 DEF Constructed
<1>2. CASE Remove
  BY <1>0, <1>2 DEF Remove, MappingsOK
<1>3. CASE Destroy
  <2>1. TrueMappings' /\ DistinctMappings'
    BY <1>0, <1>3, ExpiredKeeps DEF Destroy
  <2>2. ~patched => mappings' = {}
    BY <1>0, <1>3 DEF Destroy, Expired
  <2>3. QED BY <1>0, <1>3, <2>1, <2>2
            DEF Destroy, MappingsOK, TrueMappings, DistinctMappings, Different
<1>4. ASSUME NEW l \in Lists, NEW r, NEW ok, ThumbnailsHook(l, r, ok),
             UNCHANGED <<built, gateVars, mappingOrder, mappingGeneration>>
      PROVE  MappingsOK'
  <2>1. mappings' \subseteq mappings
    BY <1>4, HookTable
  <2>2. TrueMappings' /\ DistinctMappings'
    BY <1>0, <1>4, <2>1, FewerMappings
  <2>3. ~patched => mappings' = {} /\ currentThumbnails' = None
    BY <1>0, <1>4, <2>1 DEF ThumbnailsHook
  <2>4. QED BY <1>0, <1>4, <2>2, <2>3
            DEF MappingsOK, TrueMappings, DistinctMappings, Different
<1>5. CASE Target
  BY <1>4, <1>5 DEF Target
<1>6. CASE OtherThumbnails
  BY <1>4, <1>6 DEF OtherThumbnails
<1>7. CASE Press
  BY <1>0, <1>7 DEF Press, MappingsOK
<1>8. CASE PointerMoved
  BY <1>0, <1>8 DEF PointerMoved, MappingsOK
<1>9. CASE PointerFaults
  BY <1>0, <1>9 DEF PointerFaults, MarkFault, MappingsOK
<1>10. CASE Release
  BY <1>0, <1>10 DEF Release, MappingsOK
<1>11. CASE Position
  BY <1>0, <1>11 DEF Position, MappingsOK
<1>12. ASSUME DisableXaml, ~enabled' PROVE MappingsOK'
  BY <1>12 DEF DisableXaml, Cleared, MappingsOK
<1>13. CASE Enable
  BY <1>0, <1>12, <1>13 DEF Enable, MarkFault, MappingsOK
<1>14. CASE Disable
  BY <1>0, <1>12, <1>14 DEF Disable, MarkFault, MappingsOK
<1>15. CASE UNCHANGED vars
  BY <1>0, <1>15 DEF vars, MappingsOK
<1>16. QED BY <1>1, <1>2, <1>3, <1>5, <1>6, <1>7, <1>8, <1>9, <1>10, <1>11, <1>13,
             <1>14, <1>15 DEF Next

\* What one list must satisfy for ListsInv.
ListOK(b, s, l) ==
    /\ \A i \in 1..Len(s) : /\ b[s[i]] \in Contexts
                            /\ b[s[i]].taskGroup = l[1]
                            /\ b[s[i]].taskListUi = l[2]
    /\ \A i, j \in 1..Len(s) : b[s[i]].taskItem = b[s[j]].taskItem => i = j

LEMMA ListsParts == ListsInv <=> \A l \in Lists : ListOK(built, vector[l], l)
BY DEF ListsInv, ListOK

\* A selection of a list's elements, none taken twice, is as good as the list.
LEMMA SelectionOK ==
  ASSUME NEW b, NEW s, NEW r, NEW l, ListOK(b, s, l), NEW from,
         \A i \in 1..Len(r) : from[i] \in 1..Len(s) /\ r[i] = s[from[i]],
         \A i, j \in 1..Len(r) : from[i] = from[j] => i = j
  PROVE  ListOK(b, r, l)
<1>1. ASSUME NEW i \in 1..Len(r)
      PROVE  /\ b[r[i]] \in Contexts
             /\ b[r[i]].taskGroup = l[1] /\ b[r[i]].taskListUi = l[2]
  BY DEF ListOK
<1>2. ASSUME NEW i \in 1..Len(r), NEW j \in 1..Len(r),
             b[r[i]].taskItem = b[r[j]].taskItem
      PROVE  i = j
  <2>1. from[i] \in 1..Len(s) /\ from[j] \in 1..Len(s)
        /\ b[s[from[i]]].taskItem = b[s[from[j]]].taskItem
    BY <1>2
  <2>2. from[i] = from[j]
    BY <2>1 DEF ListOK
  <2>3. QED BY <2>2
<1>3. QED BY <1>1, <1>2 DEF ListOK

LEMMA MoveKeepsListOK ==
  ASSUME NEW b, NEW l, NEW S, NEW s \in Seq(S), ListOK(b, s, l),
         NEW f \in 1..Len(s), NEW t \in 1..Len(s)
  PROVE  ListOK(b, MovePointer(s, f, t), l)
<1> DEFINE n == Len(s)
           r == MovePointer(s, f, t)
           from == [i \in 1..n |-> Origin(i, f, t)]
<1>1. n \in Nat /\ f \in 1..n /\ t \in 1..n
  OBVIOUS
<1>2. Len(r) = n
  BY MoveInSeq
<1>3. r = [i \in 1..n |-> s[Origin(i, f, t)]]
  BY MoveSelects
<1> HIDE DEF n, r
<1>4. \A i \in 1..n : from[i] \in 1..n
  BY <1>1, OriginOK
<1>5. \A i, j \in 1..n : from[i] = from[j] => i = j
  BY <1>1, OriginOK
<1>6. \A i \in 1..n : r[i] = s[from[i]]
  BY <1>3
<1> HIDE DEF from
<1>7. ListOK(b, r, l)
  <2>1. \A i \in 1..Len(r) : from[i] \in 1..Len(s) /\ r[i] = s[from[i]]
    BY <1>2, <1>4, <1>6 DEF n
  <2>2. \A i, j \in 1..Len(r) : from[i] = from[j] => i = j
    BY <1>2, <1>5
  <2>3. QED BY <2>1, <2>2, SelectionOK
<1>8. QED BY <1>7 DEF r

\* A thumbnail in a list lives.
LEMMA ShownLives ==
  ASSUME TypeOK, ListsInv, NEW t \in Thumbnails, built[t] = None, NEW l \in Lists,
         NEW i \in 1..Len(vector[l])
  PROVE  vector[l][i] # t
BY NoneAssumption DEF ListsInv

\* Every flyout keeps to its own group, taskbar and tasks.
LEMMA ListsStep == TypeOK /\ IInv /\ [Next]_vars => ListsInv'
<1> SUFFICES ASSUME TypeOK, IInv, [Next]_vars PROVE ListsInv'
  OBVIOUS
<1> USE DEF shellVars, gateVars, tableVars, shownVars, pastVars
<1>0. ListsInv /\ built \in [Thumbnails -> Contexts \cup {None}]
      /\ vector \in [Lists -> Seq(Thumbnails)]
  BY DEF IInv, TypeOK, ShellOK
<1>1. CASE Construct
  <2>1. PICK t \in Thumbnails, l \in Lists, w \in Tasks :
           LET c == [taskGroup |-> l[1], taskItem |-> w, taskListUi |-> l[2]] IN
           /\ built[t] = None /\ ~Shows(l, w)
           /\ built' = [built EXCEPT ![t] = c]
           /\ vector' = [vector EXCEPT ![l] = Append(@, t)]
    BY <1>1 DEF Construct
  <2> DEFINE c == [taskGroup |-> l[1], taskItem |-> w, taskListUi |-> l[2]]
  <2>2. /\ c \in Contexts /\ c.taskGroup = l[1] /\ c.taskListUi = l[2]
        /\ c.taskItem = w
    BY DEF Lists, Contexts
  <2>3. built' = [built EXCEPT ![t] = c]
    BY <2>1
  <2> HIDE DEF c
  <2>4. built'[t] = c /\ \A u \in Thumbnails : u # t => built'[u] = built[u]
    BY <1>0, <2>3
  <2>5. ASSUME NEW k \in Lists PROVE ListOK(built', vector[k], k)
    <3>1. \A i \in 1..Len(vector[k]) : built'[vector[k][i]] = built[vector[k][i]]
      BY <1>0, <2>1, <2>4, ShownLives
    <3>2. QED BY <1>0, <3>1, ListsParts DEF ListOK
  <2>6. ASSUME NEW k \in Lists PROVE ListOK(built', vector'[k], k)
    <3>1. CASE k # l
      BY <1>0, <2>1, <2>5, <3>1
    <3>2. CASE k = l
      <4>1. vector'[k] = Append(vector[l], t) /\ vector[l] \in Seq(Thumbnails)
        BY <1>0, <2>1, <3>2
      <4> DEFINE s == vector[l]
                 n == Len(s) + 1
      <4>2. Len(s) \in Nat /\ Len(Append(s, t)) = n /\ Append(s, t)[n] = t
            /\ \A i \in 1..Len(s) : Append(s, t)[i] = s[i]
        BY <4>1
      <4>3. \A i \in 1..n : i = n \/ i \in 1..Len(s)
        BY <4>2
      <4>4. \A i \in 1..Len(s) : built'[s[i]].taskItem # w
        <5>1. \A i \in 1..Len(s) : built[s[i]].taskItem # w
          BY <2>1 DEF Shows
        <5>2. \A i \in 1..Len(s) : s[i] \in Thumbnails /\ s[i] # t
          BY <1>0, <2>1, ShownLives
        <5>3. QED BY <2>4, <5>1, <5>2
      <4>5. ListOK(built', s, l)
        BY <2>5
      <4> HIDE DEF s, n
      <4>6. ListOK(built', Append(s, t), l)
        BY <2>2, <2>4, <4>2, <4>3, <4>4, <4>5 DEF ListOK
      <4>7. QED BY <3>2, <4>1, <4>6 DEF s
    <3>3. QED BY <3>1, <3>2
  <2>7. QED BY <2>6 DEF ListsInv, ListOK
<1>2. CASE Remove
  <2>1. PICK l \in Lists : \E i \in 1..Len(vector[l]) :
           vector' = [vector EXCEPT ![l] =
              [j \in 1..(Len(@) - 1) |-> IF j < i THEN @[j] ELSE @[j + 1]]]
    BY <1>2 DEF Remove
  <2>2. PICK i \in 1..Len(vector[l]) :
           vector' = [vector EXCEPT ![l] =
              [j \in 1..(Len(@) - 1) |-> IF j < i THEN @[j] ELSE @[j + 1]]]
    BY <2>1
  <2> DEFINE s == vector[l]
             r == [j \in 1..(Len(s) - 1) |-> IF j < i THEN s[j] ELSE s[j + 1]]
  <2>3. s \in Seq(Thumbnails) /\ Len(s) \in Nat /\ Len(s) - 1 \in Nat
    BY <1>0
  <2>4. Len(r) = Len(s) - 1
    BY <2>3
  <2>5. ListOK(built, s, l)
    BY <1>0, ListsParts
  <2>6. ListOK(built, r, l)
    <3>1. \A j \in 1..Len(r) :
             /\ (IF j < i THEN j ELSE j + 1) \in 1..Len(s)
             /\ r[j] = s[IF j < i THEN j ELSE j + 1]
      BY <2>3, <2>4
    <3>2. \A j, k \in 1..Len(r) :
             (IF j < i THEN j ELSE j + 1) = (IF k < i THEN k ELSE k + 1) => j = k
      BY <2>3, <2>4
    <3> DEFINE from == [j \in 1..Len(r) |-> IF j < i THEN j ELSE j + 1]
    <3>3. \A j \in 1..Len(r) : from[j] \in 1..Len(s) /\ r[j] = s[from[j]]
      BY <3>1
    <3>4. \A j, k \in 1..Len(r) : from[j] = from[k] => j = k
      BY <3>2
    <3> HIDE DEF r, s, from
    <3>5. QED BY <3>3, <3>4, <2>5, SelectionOK
  <2>7. vector'[l] = r /\ built' = built /\ \A k \in Lists : k # l => vector'[k] = vector[k]
    BY <1>0, <1>2, <2>2 DEF Remove
  <2> HIDE DEF r, s
  <2>8. ASSUME NEW k \in Lists PROVE ListOK(built', vector'[k], k)
    BY <1>0, <2>6, <2>7, ListsParts
  <2>9. QED BY <2>8 DEF ListsInv, ListOK
<1>3. CASE Destroy
  <2>1. PICK t \in Thumbnails : /\ built' = [built EXCEPT ![t] = None]
                               /\ \A l \in Lists : ~InVector(l, t)
                               /\ vector' = vector
    BY <1>3 DEF Destroy
  <2>2. \A l \in Lists : \A i \in 1..Len(vector[l]) :
           built'[vector[l][i]] = built[vector[l][i]]
    BY <1>0, <2>1 DEF InVector
  <2>3. QED BY <1>0, <2>1, <2>2 DEF ListsInv
<1>4. ASSUME flyout # None, PointerLogic, UNCHANGED built PROVE ListsInv'
  <2>1. CASE vector' = vector
    BY <1>0, <1>4, <2>1 DEF ListsInv
  <2>2. ASSUME NEW p, NEW h \in 1..Len(vector[currentThumbnails]), IsDrag(p, h)
        PROVE  ListsInv'
    <3> DEFINE l == currentThumbnails
               s == vector[l]
               r == MovePointer(s, p, h)
    <3>1. /\ l \in Lists /\ s \in Seq(Thumbnails) /\ p \in 1..Len(s)
          /\ vector' = [vector EXCEPT ![l] = r]
      BY <1>0, <2>2 DEF IsDrag
    <3>2. ListOK(built, s, l)
      BY <1>0, <3>1, ListsParts
    <3>3. ListOK(built, r, l)
      BY <2>2, <3>1, <3>2, MoveKeepsListOK
    <3>4. vector'[l] = r /\ \A k \in Lists : k # l => vector'[k] = vector[k]
      BY <1>0, <3>1
    <3> HIDE DEF r, s, l
    <3>5. ASSUME NEW k \in Lists PROVE ListOK(built', vector'[k], k)
      BY <1>0, <1>4, <3>3, <3>4, ListsParts
    <3>6. QED BY <3>5 DEF ListsInv, ListOK
  <2>3. QED BY <1>4, <2>1, <2>2, PointerOutcome
<1>5. CASE PointerMoved
  BY <1>4, <1>5 DEF PointerMoved
<1>6. CASE PointerFaults
  BY <1>4, <1>6 DEF PointerFaults
<1>7. ASSUME UNCHANGED <<built, vector>> PROVE ListsInv'
  BY <1>0, <1>7 DEF ListsInv
<1>8. CASE Target \/ OtherThumbnails \/ Press \/ Release \/ Position \/ Enable \/ Disable
  BY <1>7, <1>8 DEF Target, OtherThumbnails, Press, Release, Position, Enable, Disable
<1>9. CASE UNCHANGED vars
  BY <1>7, <1>9 DEF vars
<1>10. QED BY <1>1, <1>2, <1>3, <1>5, <1>6, <1>8, <1>9 DEF Next

\* The remembered vector stays the shown one, until a turn is missed.
LEMMA FlyoutStep == TypeOK /\ IInv /\ [Next]_vars => FlyoutInv'
<1> SUFFICES ASSUME TypeOK, IInv, [Next]_vars PROVE FlyoutInv'
  OBVIOUS
<1> USE DEF shellVars, gateVars, tableVars, shownVars, pastVars
<1>0. FlyoutInv /\ MappingsOK
  BY DEF IInv
<1>1. ASSUME UNCHANGED <<gateVars, shownVars, flyout>> PROVE FlyoutInv'
  BY <1>0, <1>1 DEF FlyoutInv
<1>2. CASE Target
  <2>1. PICK l \in Lists, ok \in {FALSE, enabled} :
           /\ flyout' = l /\ ThumbnailsHook(l, TRUE, ok)
           /\ missed' = (enabled /\ ~ok /\ currentThumbnails \notin {None, l})
    BY <1>2 DEF Target
  <2>2. UNCHANGED gateVars
    BY <1>2 DEF Target
  <2>3. ASSUME enabled, currentThumbnails' # None, ~missed' PROVE currentThumbnails' = l
    BY <2>1, <2>3 DEF ThumbnailsHook
  <2>4. QED BY <1>0, <2>1, <2>2, <2>3 DEF FlyoutInv
<1>3. CASE OtherThumbnails
  BY <1>0, <1>3 DEF OtherThumbnails, ThumbnailsHook, FlyoutInv
<1>4. CASE PointerFaults
  BY <1>0, <1>4 DEF PointerFaults, MarkFault, FlyoutInv
<1>5. CASE Enable
  BY <1>0, <1>5 DEF Enable, DisableXaml, Cleared, MarkFault, FlyoutInv, MappingsOK
<1>6. CASE Disable
  BY <1>0, <1>6 DEF Disable, DisableXaml, MarkFault, FlyoutInv
<1>7. CASE UNCHANGED vars
  BY <1>0, <1>7 DEF vars, FlyoutInv
<1>8. CASE \/ Construct \/ Remove \/ Destroy \/ Press \/ PointerMoved \/ Release
           \/ Position
  BY <1>1, <1>8 DEF Construct, Remove, Destroy, Press, PointerMoved, Release, Position
<1>9. QED BY <1>2, <1>3, <1>4, <1>5, <1>6, <1>7, <1>8 DEF Next

\* A press that has reordered lasts until its click has been swallowed.
LEMMA HeldStep == TypeOK /\ IInv /\ [Next]_vars => HeldInv' /\ NoActivationAfterReorder'
<1> SUFFICES ASSUME TypeOK, IInv, [Next]_vars
             PROVE  HeldInv' /\ NoActivationAfterReorder'
  OBVIOUS
<1> USE DEF shellVars, gateVars, tableVars, shownVars, pastVars
<1>0. HeldInv /\ ~activated /\ moved \in BOOLEAN
  BY DEF IInv, NoActivationAfterReorder, TypeOK, FlagsOK
<1>1. ASSUME UNCHANGED <<pressed, gateVars, reordered, pastVars>>
      PROVE  HeldInv' /\ NoActivationAfterReorder'
  BY <1>0, <1>1 DEF HeldInv, capture, NoActivationAfterReorder
<1>2. CASE Press \/ PointerFaults \/ Enable \/ Disable
  BY <1>0, <1>2 DEF Press, PointerFaults, Enable, Disable, HeldInv,
                    NoActivationAfterReorder
<1>3. CASE PointerMoved
  <2>1. flyout # None /\ PointerLogic
    BY <1>3 DEF PointerMoved
  <2>2. CASE vector' = vector
    <3>1. moved' = moved
      BY <1>0, <1>3, <2>2 DEF PointerMoved
    <3>2. moved => reordered'
      BY <1>0, <2>1 DEF PointerLogic, HeldInv
    <3>3. QED BY <1>0, <1>3, <3>1, <3>2 DEF PointerMoved, HeldInv, capture,
                                          NoActivationAfterReorder
  <2>3. CASE enabled /\ capture /\ reordered'
    BY <1>0, <1>3, <2>3 DEF PointerMoved, HeldInv, capture, NoActivationAfterReorder
  <2>4. QED BY <2>1, <2>2, <2>3, PointerOutcome
<1>4. CASE Release
  <2>1. ~(moved /\ ~Swallows)
    BY <1>0 DEF HeldInv, Swallows
  <2>2. ~activated'
    BY <1>0, <1>4, <2>1 DEF Release, ClickHook
  <2>3. ~moved'
    BY <1>4 DEF Release
  <2>4. QED BY <2>2, <2>3 DEF HeldInv, NoActivationAfterReorder
<1>5. CASE Position
  BY <1>0, <1>5 DEF Position, DragOver, HeldInv, capture, NoActivationAfterReorder
<1>6. CASE UNCHANGED vars
  BY <1>0, <1>6 DEF vars, HeldInv, capture, NoActivationAfterReorder
<1>7. CASE Construct \/ Remove \/ Destroy \/ Target \/ OtherThumbnails
  BY <1>1, <1>7 DEF Construct, Remove, Destroy, Target, OtherThumbnails
<1>8. QED BY <1>2, <1>3, <1>4, <1>5, <1>6, <1>7 DEF Next

-----------------------------------------------------------------------------
(* The theorems.                                                           *)

\* The inductive invariant.
THEOREM InductiveInvariant == Spec => [](TypeOK /\ IInv)
<1>1. Init => TypeOK
  <2>1. IsFiniteSet({}) /\ Cardinality({}) = 0
    BY FS_EmptySet
  <2>2. SUFFICES ASSUME Init PROVE TypeOK
    OBVIOUS
  <2>3. TableOK
    BY <2>1, <2>2, BoundAssumption DEF Init, TableOK
  <2>4. FlagsOK
    BY <2>2 DEF Init, FlagsOK
  <2>5. ShellOK
    BY <2>2 DEF Init, ShellOK
  <2>6. QED BY <2>3, <2>4, <2>5 DEF TypeOK
<1>2. Init => IInv
  BY DEF Init, IInv, MappingsOK, ListsInv, FlyoutInv, HeldInv, NoActivationAfterReorder
<1>3. TypeOK /\ IInv /\ [Next]_vars => (TypeOK /\ IInv)'
  BY TypeStep, MappingsStep, ListsStep, FlyoutStep, HeldStep DEF IInv
<1>4. QED BY <1>1, <1>2, <1>3, PTL DEF Spec

\* Everything has its type, and the table never exceeds its limit, whatever
\* Explorer constructs and destroys.
THEOREM TypeCorrect == Spec => []TypeOK
BY InductiveInvariant, PTL

\* The table says nothing wrong of a thumbnail that lives.
THEOREM MappingsOKHolds == Spec => []MappingsOK
<1>1. IInv => MappingsOK
  BY DEF IInv
<1>2. QED BY <1>1, InductiveInvariant, PTL

\* The click of a press that has reordered never reaches Explorer.
THEOREM NoActivationAfterReorderHolds == Spec => []NoActivationAfterReorder
<1>1. IInv => NoActivationAfterReorder
  BY DEF IInv
<1>2. QED BY <1>1, InductiveInvariant, PTL

\* A drag reorders the remembered vector only, and moves in it what has the index of
\* the held thumbnail: the held thumbnail itself, unless the detour missed the last
\* turn of the flyout.
THEOREM OnlyPressedMovesHolds == Spec => OnlyPressedMoves
<1> DEFINE Moves(l) == vector'[l] # vector[l] /\ Len(vector'[l]) = Len(vector[l])
           Right(l) == /\ l = currentThumbnails /\ (~missed => l = flyout)
                       /\ \E p \in 1..Len(vector[flyout]), h \in 1..Len(vector[l]) :
                             /\ capture /\ vector[flyout][p] = pressed
                             /\ vector'[l] = MovePointer(vector[l], p, h)
<1>1. TypeOK /\ IInv /\ [Next]_vars => [\A l \in Lists : Moves(l) => Right(l)]_vars
  <2> SUFFICES ASSUME TypeOK, IInv, Next, NEW l \in Lists, Moves(l) PROVE Right(l)
    OBVIOUS
  <2>0. vector \in [Lists -> Seq(Thumbnails)]
    BY DEF TypeOK, ShellOK
  <2>1. CASE Construct
    <3>1. PICK t \in Thumbnails, k \in Lists :
             vector' = [vector EXCEPT ![k] = Append(@, t)]
      BY <2>1 DEF Construct
    <3>2. Len(Append(vector[k], t)) = Len(vector[k]) + 1 /\ Len(vector[k]) \in Nat
      BY <2>0
    <3>3. QED BY <2>0, <3>1, <3>2
  <2>2. CASE Remove
    <3>1. PICK k \in Lists : \E i \in 1..Len(vector[k]) :
             vector' = [vector EXCEPT ![k] =
                [j \in 1..(Len(@) - 1) |-> IF j < i THEN @[j] ELSE @[j + 1]]]
      BY <2>2 DEF Remove
    <3>2. PICK i \in 1..Len(vector[k]) :
             vector' = [vector EXCEPT ![k] =
                [j \in 1..(Len(@) - 1) |-> IF j < i THEN @[j] ELSE @[j + 1]]]
      BY <3>1
    <3>3. Len(vector[k]) \in Nat /\ Len(vector[k]) - 1 \in Nat
      BY <2>0
    <3>4. Len([j \in 1..(Len(vector[k]) - 1) |->
                 IF j < i THEN vector[k][j] ELSE vector[k][j + 1]]) = Len(vector[k]) - 1
      BY <3>3
    <3>5. vector'[l] = vector[l] \/ (Len(vector'[l]) = Len(vector[l]) - 1 /\ l = k)
      BY <2>0, <3>2, <3>4
    <3>6. QED BY <3>3, <3>5
  <2>3. CASE PointerMoved \/ PointerFaults
    <3>1. flyout # None /\ PointerLogic
      BY <2>3 DEF PointerMoved, PointerFaults
    <3>2. vector' # vector
      OBVIOUS
    <3>3. enabled /\ capture
      BY <3>1, <3>2, PointerOutcome
    <3>4. PICK p \in 1..Len(vector[flyout]), h \in 1..Len(vector[currentThumbnails]) :
             IsDrag(p, h)
      BY <3>1, <3>2, PointerOutcome
    <3>5. l = currentThumbnails
      BY <2>0, <3>4 DEF IsDrag
    <3>6. ~missed => l = flyout
      BY <3>3, <3>5, NoneAssumption DEF IInv, FlyoutInv
    <3>7. vector[flyout][p] = pressed /\ vector'[l] = MovePointer(vector[l], p, h)
      BY <2>0, <3>4, <3>5 DEF IsDrag
    <3>8. QED BY <3>3, <3>4, <3>5, <3>6, <3>7
  <2>4. CASE UNCHANGED vector
    BY <2>4
  <2>5. Next => \/ Construct \/ Remove \/ PointerMoved \/ PointerFaults
                \/ UNCHANGED vector
    BY DEF Next, Destroy, Target, OtherThumbnails, Press, Release, Position, Enable,
           Disable, shellVars
  <2>6. QED BY <2>1, <2>2, <2>3, <2>4, <2>5
<1>2. QED BY <1>1, InductiveInvariant, PTL DEF Spec, OnlyPressedMoves
=============================================================================
