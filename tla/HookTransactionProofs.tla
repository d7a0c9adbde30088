------------------------- MODULE HookTransactionProofs -------------------------
(***************************************************************************)
(* HookTransaction's properties, and that it implements DetourContract, for*)
(* any two sets of functions.                                              *)
(***************************************************************************)
EXTENDS HookTransaction, FiniteSetTheorems, TLAPS

NoTransaction == \A b \in Backends : ~initialized[b]

-----------------------------------------------------------------------------
(* The invariant.                                                          *)

\* There is one transaction at most, and `users` counts it.
Counted ==
    /\ \A b, c \in Backends : initialized[b] /\ initialized[c] => b = c
    /\ users = IF NoTransaction THEN 0 ELSE 1

\* What MinHook has is the transaction's, but for what Uninitialize left.
Tracked ==
    /\ \A b \in Backends : initialized[b] \/ targets[b] = {}
    /\ heap \/ (NoTransaction /\ created = {})
    /\ stuck \/ (NoTransaction => ~heap)
    /\ stuck \/ \A b \in Backends : initialized[b] => created \subseteq targets[b]

\* Where a command is, and what that says of the transactions.
Placed ==
    /\ pc = "begin" => NoTransaction /\ cur \in flags
    /\ pc = "add" =>
          /\ initialized[cur] /\ cur \in flags
          /\ targets[cur] \cup todo = Wanted[cur] /\ targets[cur] \subseteq created
          /\ stuck \/ live = {}
    /\ (pc = "reset" /\ goal = "begin") => NoTransaction /\ cur \in flags
    /\ (pc = "reset" /\ goal = "next") => \A b \in Backends : initialized[b] => b = cur
    /\ (pc = "reset" /\ goal = "fault") => NoTransaction
    /\ (pc = "reset" /\ goal = "unload" /\ cur = "xaml") => ~initialized["classic"]
    /\ payloadState = "Disabled" => flags # {}
    /\ (pc \in {"begin", "add"} \/ (pc = "reset" /\ goal # "unload")) => ~faulted

\* A transaction that outlives its command is complete, and the gate is open or a
\* fault has closed it for good.
Complete ==
    /\ gate => /\ pc = "idle" /\ payloadState = "Active"
               /\ activeBackend \in Backends /\ activeBackend \in flags
               /\ initialized[activeBackend]
    /\ pc = "idle" => \A b \in Backends : initialized[b] =>
          /\ gate \/ faulted
          /\ Wanted[b] \subseteq live /\ hookCount = Cardinality(Wanted[b])
          /\ stuck \/ live = Wanted[b]

\* What the session control says when there is none.
Ended ==
    /\ (pc = "idle" /\ NoTransaction) => hookCount = 0
    /\ (pc = "idle" /\ (payloadState = "Unloading" \/ payloadError = "HookCreateFailed"))
          => NoTransaction

HInv == TypeOK /\ Counted /\ Tracked /\ Placed /\ Complete /\ Ended

LEMMA HInit == Init => HInv
<1> SUFFICES ASSUME Init PROVE HInv
    OBVIOUS
<1> USE DEF Init
<1>1. TypeOK
    <2>1. initialized \in [Backends -> BOOLEAN] /\ targets \in [Backends -> SUBSET Function]
        OBVIOUS
    <2>2. /\ payloadState \in PayloadStates /\ payloadError \in PayloadErrors
          /\ cur \in Backends /\ goal \in Goals /\ flags \subseteq Backends
        BY DEF PayloadStates, PayloadErrors, Goals, Backends
    <2>3. /\ created \subseteq Function /\ live \subseteq created /\ todo \subseteq Function
          /\ users \in 0..1 /\ hookCount \in Nat
        BY SMT
    <2>4. /\ activeBackend \in Backends \cup {"none"}
          /\ pc \in {"idle", "reset", "begin", "add"}
        OBVIOUS
    <2>5. heap \in BOOLEAN /\ stuck \in BOOLEAN /\ gate \in BOOLEAN /\ faulted \in BOOLEAN
        OBVIOUS
    <2> HIDE DEF Init
    <2> QED
        BY <2>1, <2>2, <2>3, <2>4, <2>5 DEF TypeOK
<1>2. Counted
    BY DEF Counted, NoTransaction, Backends
<1>3. Tracked
    BY DEF Tracked, NoTransaction, Backends
<1>4. Placed
    BY DEF Placed
<1>5. Complete
    BY DEF Complete, Backends
<1>6. Ended
    BY DEF Ended, NoTransaction
<1> QED
    BY <1>1, <1>2, <1>3, <1>4, <1>5, <1>6 DEF HInv

-----------------------------------------------------------------------------
(* One lemma for each step.                                                *)

LEMMA InitializeKeeps == HInv /\ Initialize => HInv'
<1> SUFFICES ASSUME HInv, Initialize PROVE HInv'
    OBVIOUS
<1> USE DEF HInv, Initialize
<1>1. TypeOK'
    BY DEF PayloadStates, PayloadErrors, TypeOK, SetResult, minhook,
       transactions, place
<1>2. Counted'
    BY DEF NoTransaction, Counted, transactions
<1>3. Tracked'
    BY DEF NoTransaction, Tracked, minhook, transactions
<1>4. Placed'
    BY DEF Placed, SetResult, place
<1>5. Complete'
    BY DEF Complete, minhook, transactions
<1>6. Ended'
    BY DEF NoTransaction, Ended, SetResult, transactions
<1> QED
    BY <1>1, <1>2, <1>3, <1>4, <1>5, <1>6

LEMMA EnableKeeps == HInv /\ Enable => HInv'
<1> SUFFICES ASSUME HInv, Enable PROVE HInv'
    OBVIOUS
<1> USE DEF HInv, Enable
<1>1. TypeOK'
    BY DEF Goals, Backends, TypeOK, StartReset, minhook, transactions, control
<1>2. Counted'
    BY DEF NoTransaction, Counted, transactions
<1>3. Tracked'
    BY DEF NoTransaction, Tracked, minhook, transactions
<1>4. Placed'
    BY DEF Backends, NoTransaction, TypeOK, Placed, Complete, StartReset,
       transactions
<1>5. Complete'
    BY DEF Complete, transactions
<1>6. Ended'
    BY DEF Ended, StartReset
<1> QED
    BY <1>1, <1>2, <1>3, <1>4, <1>5, <1>6

LEMMA EnableRefusedKeeps == HInv /\ EnableRefused => HInv'
<1> SUFFICES ASSUME HInv, EnableRefused PROVE HInv'
    OBVIOUS
<1> USE DEF HInv, EnableRefused
<1>1. TypeOK'
    BY DEF PayloadStates, PayloadErrors, TypeOK, SetResult, minhook,
       transactions, place
<1>2. Counted'
    BY DEF NoTransaction, Counted, transactions
<1>3. Tracked'
    BY DEF NoTransaction, Tracked, minhook, transactions
<1>4. Placed'
    BY DEF Placed, place
<1>5. Complete'
    BY DEF Complete, minhook, transactions
<1>6. Ended'
    BY DEF NoTransaction, Ended, SetResult, transactions
<1> QED
    BY <1>1, <1>2, <1>3, <1>4, <1>5, <1>6

LEMMA PrepareUnloadKeeps == HInv /\ PrepareUnload => HInv'
<1> SUFFICES ASSUME HInv, PrepareUnload PROVE HInv'
    OBVIOUS
<1> USE DEF HInv, PrepareUnload
<1>1. TypeOK'
    BY DEF Goals, Backends, TypeOK, StartReset, minhook, transactions, control
<1>2. Counted'
    BY DEF NoTransaction, Counted, transactions
<1>3. Tracked'
    BY DEF NoTransaction, Tracked, minhook, transactions
<1>4. Placed'
    BY DEF Placed, StartReset, control
<1>5. Complete'
    BY DEF Complete, StartReset
<1>6. Ended'
    BY DEF Ended, StartReset
<1> QED
    BY <1>1, <1>2, <1>3, <1>4, <1>5, <1>6

LEMMA DrainTimesOutKeeps == HInv /\ DrainTimesOut => HInv'
<1> SUFFICES ASSUME HInv, DrainTimesOut PROVE HInv'
    OBVIOUS
<1> USE DEF HInv, DrainTimesOut
<1>1. TypeOK'
    BY DEF PayloadStates, PayloadErrors, TypeOK, SetResult, minhook,
       transactions, place
<1>2. Counted'
    BY DEF NoTransaction, Counted, transactions
<1>3. Tracked'
    BY DEF NoTransaction, Tracked, minhook, transactions
<1>4. Placed'
    BY DEF Placed, SetResult, place
<1>5. Complete'
    BY DEF Complete, minhook, transactions
<1>6. Ended'
    BY DEF NoTransaction, Ended, SetResult, transactions
<1> QED
    BY <1>1, <1>2, <1>3, <1>4, <1>5, <1>6

LEMMA BeginKeeps == HInv /\ Begin => HInv'
<1> SUFFICES ASSUME HInv, Begin PROVE HInv'
    OBVIOUS
<1> USE DEF HInv, Begin
<1>1. TypeOK'
    BY WantedAssumption DEF Backends, TypeOK, Counted, Placed, control
<1>2. Counted'
    BY DEF NoTransaction, TypeOK, Counted, Placed
<1>3. Tracked'
    BY DEF NoTransaction, TypeOK, Tracked, Placed
<1>4. Placed'
    BY DEF NoTransaction, TypeOK, Tracked, Placed
<1>5. Complete'
    BY DEF Complete
<1>6. Ended'
    BY DEF Ended
<1> QED
    BY <1>1, <1>2, <1>3, <1>4, <1>5, <1>6

LEMMA BeginFailsKeeps == HInv /\ BeginFails => HInv'
<1> SUFFICES ASSUME HInv, BeginFails PROVE HInv'
    OBVIOUS
<1> USE DEF HInv, BeginFails
<1>1. TypeOK'
    BY DEF Goals, TypeOK, StartReset, minhook, transactions, control
<1>2. Counted'
    BY DEF NoTransaction, Counted, transactions
<1>3. Tracked'
    BY DEF NoTransaction, Tracked, minhook, transactions
<1>4. Placed'
    BY DEF NoTransaction, Placed, StartReset, transactions
<1>5. Complete'
    BY DEF Complete, StartReset
<1>6. Ended'
    BY DEF Ended, StartReset
<1> QED
    BY <1>1, <1>2, <1>3, <1>4, <1>5, <1>6

LEMMA AddKeeps == HInv /\ Add => HInv'
<1> SUFFICES ASSUME HInv, Add PROVE HInv'
    OBVIOUS
<1> USE DEF HInv, Add
<1>1. TypeOK'
    BY DEF TypeOK, control
<1>2. Counted'
    BY DEF NoTransaction, Counted
<1>3. Tracked'
    BY DEF NoTransaction, TypeOK, Counted, Tracked, Placed
<1>4. Placed'
    BY DEF TypeOK, Placed
<1>5. Complete'
    BY DEF Complete
<1>6. Ended'
    BY DEF Ended
<1> QED
    BY <1>1, <1>2, <1>3, <1>4, <1>5, <1>6

LEMMA AddFailsKeeps == HInv /\ AddFails => HInv'
<1> SUFFICES ASSUME HInv, AddFails PROVE HInv'
    OBVIOUS
<1> USE DEF HInv, AddFails
<1>1. TypeOK'
    BY DEF Goals, TypeOK, StartReset, minhook, transactions, control
<1>2. Counted'
    BY DEF NoTransaction, Counted, transactions
<1>3. Tracked'
    BY DEF NoTransaction, Tracked, minhook, transactions
<1>4. Placed'
    BY DEF TypeOK, Counted, Placed, StartReset, transactions
<1>5. Complete'
    BY DEF Complete, StartReset
<1>6. Ended'
    BY DEF Ended, StartReset
<1> QED
    BY <1>1, <1>2, <1>3, <1>4, <1>5, <1>6

LEMMA CommitKeeps == HInv /\ Commit => HInv'
<1> SUFFICES ASSUME HInv, Commit PROVE HInv'
    OBVIOUS
<1> USE DEF HInv, Commit
<1>1. TypeOK'
    <2>1. Cardinality(Wanted[cur]) \in Nat
        BY WantedAssumption, FS_CardinalityType DEF TypeOK
    <2>2. targets[cur] = Wanted[cur] /\ targets[cur] \subseteq created
        BY DEF Placed
    <2> QED
        BY <2>1, <2>2 DEF TypeOK, PayloadStates, PayloadErrors, SetResult, transactions
<1>2. Counted'
    BY DEF NoTransaction, Counted, transactions
<1>3. Tracked'
    BY DEF NoTransaction, Tracked, transactions
<1>4. Placed'
    BY DEF Placed
<1>5. Complete'
    BY DEF TypeOK, Counted, Placed, Complete, SetResult, transactions
<1>6. Ended'
    BY DEF NoTransaction, TypeOK, Placed, Ended, SetResult, transactions
<1> QED
    BY <1>1, <1>2, <1>3, <1>4, <1>5, <1>6

LEMMA CommitFailsKeeps == HInv /\ CommitFails => HInv'
<1> SUFFICES ASSUME HInv, CommitFails PROVE HInv'
    OBVIOUS
<1> USE DEF HInv, CommitFails
<1>1. TypeOK'
    <2>1. live' \subseteq created'
        BY DEF TypeOK, Placed
    <2> QED
        BY <2>1 DEF TypeOK, Goals, StartReset, transactions, control
<1>2. Counted'
    BY DEF NoTransaction, Counted, transactions
<1>3. Tracked'
    BY DEF NoTransaction, Tracked, transactions
<1>4. Placed'
    BY DEF TypeOK, Counted, Placed, StartReset, transactions
<1>5. Complete'
    BY DEF Complete, StartReset
<1>6. Ended'
    BY DEF Ended, StartReset
<1> QED
    BY <1>1, <1>2, <1>3, <1>4, <1>5, <1>6

LEMMA RemoveKeeps == HInv /\ Remove => HInv'
<1> SUFFICES ASSUME HInv, Remove PROVE HInv'
    OBVIOUS
<1> USE DEF HInv, Remove
<1>1. TypeOK'
    BY DEF TypeOK, transactions, control
<1>2. Counted'
    BY DEF NoTransaction, Counted, transactions
<1>3. Tracked'
    BY DEF NoTransaction, Tracked, transactions
<1>4. Placed'
    BY DEF NoTransaction, Placed, transactions, control
<1>5. Complete'
    BY DEF Complete
<1>6. Ended'
    BY DEF Ended
<1> QED
    BY <1>1, <1>2, <1>3, <1>4, <1>5, <1>6

LEMMA RemoveFailsKeeps == HInv /\ RemoveFails => HInv'
<1> SUFFICES ASSUME HInv, RemoveFails PROVE HInv'
    OBVIOUS
<1> USE DEF HInv, RemoveFails
<1>1. TypeOK'
    BY DEF TypeOK, minhook, transactions, control
<1>2. Counted'
    BY DEF NoTransaction, Counted, transactions
<1>3. Tracked'
    BY DEF NoTransaction, Tracked, minhook, transactions
<1>4. Placed'
    BY DEF NoTransaction, Placed, transactions, control
<1>5. Complete'
    BY DEF Complete
<1>6. Ended'
    BY DEF Ended
<1> QED
    BY <1>1, <1>2, <1>3, <1>4, <1>5, <1>6

\* The end of a Reset, whatever it was for: the transaction is gone, and with the
\* last one MinHook too, unless it is stuck.
LEMMA ResetKeeps ==
    ASSUME HInv, pc = "reset", ResetTransaction \/ ResetNothing
    PROVE  /\ Counted' /\ Tracked'
           /\ heap' \in BOOLEAN /\ stuck' \in BOOLEAN
           /\ created' \subseteq Function /\ live' \subseteq created' /\ users' \in 0..1
           /\ initialized' \in [Backends -> BOOLEAN]
           /\ targets' \in [Backends -> SUBSET Function]
           /\ \A b \in Backends : initialized'[b] <=> initialized[b] /\ b # cur
<1> USE DEF HInv
<1>1. CASE ResetTransaction
    <2>1. users = 1 /\ users' = 0 /\ (Uninitialize \/ UninitializeFails)
        BY <1>1, SMT DEF ResetTransaction, Counted, NoTransaction, TypeOK
    <2>2. /\ initialized' = [initialized EXCEPT ![cur] = FALSE]
          /\ targets' = [targets EXCEPT ![cur] = {}]
        BY <1>1 DEF ResetTransaction
    <2>3. \A b \in Backends : ~initialized'[b] /\ targets'[b] = {}
        BY <1>1, <2>2, SMT DEF ResetTransaction, Counted, Tracked, TypeOK
    <2>4. NoTransaction'
        BY <2>3 DEF NoTransaction
    <2>5. Counted'
        BY <2>1, <2>3, <2>4, SMT DEF Counted
    <2>6. Tracked'
        BY <2>1, <2>3, <2>4, SMT DEF Uninitialize, UninitializeFails, Tracked, TypeOK
    <2>7. heap' \in BOOLEAN /\ stuck' \in BOOLEAN
        <3>1. CASE Uninitialize
            BY <3>1 DEF Uninitialize
        <3>2. CASE UninitializeFails
            BY <3>2, Zenon DEF UninitializeFails, TypeOK
        <3> QED
            BY <2>1, <3>1, <3>2
    <2>8. created' \subseteq Function /\ live' \subseteq created'
        <3>1. CASE Uninitialize
            BY <3>1 DEF Uninitialize
        <3>2. CASE UninitializeFails
            BY <3>2, live' \subseteq live, created' = created DEF UninitializeFails, TypeOK
        <3> QED
            BY <2>1, <3>1, <3>2
    <2>9. \A b \in Backends : initialized'[b] <=> initialized[b] /\ b # cur
        BY <2>2, <2>3, SMT DEF TypeOK
    <2> QED
        BY <2>1, <2>2, <2>5, <2>6, <2>7, <2>8, <2>9, SMT DEF TypeOK
<1>2. CASE ResetNothing
    <2>1. targets' = targets
        BY <1>2, SMT DEF ResetNothing, Tracked, TypeOK
    <2>2. Counted' /\ Tracked'
        BY <1>2, <2>1, SMT DEF ResetNothing, Counted, Tracked, NoTransaction, minhook
    <2> QED
        BY <1>2, <2>1, <2>2, SMT DEF ResetNothing, TypeOK, minhook
<1> QED
    BY <1>1, <1>2

LEMMA EndResetKeeps == HInv /\ EndReset => HInv'
<1> SUFFICES ASSUME HInv, EndReset PROVE HInv'
    OBVIOUS
<1> USE DEF HInv
<1>1. pc = "reset" /\ (ResetTransaction \/ ResetNothing) /\ flags' = flags
    BY DEF EndReset
<1>2. Counted' /\ Tracked'
    BY <1>1, ResetKeeps
<1>3. \A b \in Backends : initialized'[b] <=> initialized[b] /\ b # cur
    BY <1>1, ResetKeeps
<1>4. \A b \in Backends : targets'[b] \subseteq Function
    BY <1>1, ResetKeeps
<1>5. TypeOK' <=> (/\ gate' \in BOOLEAN /\ faulted' \in BOOLEAN
                   /\ payloadState' \in PayloadStates /\ payloadError' \in PayloadErrors
                   /\ hookCount' \in Nat /\ activeBackend' \in Backends \cup {"none"}
                   /\ pc' \in {"idle", "reset", "begin", "add"} /\ cur' \in Backends
                   /\ goal' \in Goals /\ todo' \subseteq Function)
    BY <1>1, ResetKeeps, SMT DEF TypeOK
<1>6. ~gate
    BY <1>1 DEF Complete
<1>7. CASE goal = "begin" /\ pc' = "begin" /\ UNCHANGED <<cur, goal, todo, gate, faulted, control>>
    <2>1. TypeOK'
        BY <1>5, <1>7, SMT DEF TypeOK, control
    <2>2. Placed'
        BY <1>1, <1>3, <1>7, SMT DEF Placed, NoTransaction, control
    <2>3. Complete' /\ Ended'
        BY <1>6, <1>7, SMT DEF Complete, Ended
    <2> QED
        BY <1>2, <2>1, <2>2, <2>3
<1>8. CASE goal = "next" /\ NextBackend /\ UNCHANGED <<gate, faulted, control>>
    <2>1. TypeOK'
        BY <1>4, <1>5, <1>8, SMT
        DEF TypeOK, NextBackend, StartReset, Backends, Goals, control
    <2>2. NoTransaction'
        BY <1>1, <1>3, <1>8, SMT DEF Placed, NoTransaction
    <2>3. Placed'
        BY <1>1, <1>8, <2>2, SMT DEF Placed, NextBackend, StartReset, control
    <2>4. Complete' /\ Ended'
        BY <1>6, <1>8, SMT DEF Complete, Ended, NextBackend, StartReset
    <2> QED
        BY <1>2, <2>1, <2>3, <2>4
<1>9. CASE /\ goal \in {"fault", "unload"} /\ cur = "classic"
           /\ StartReset("xaml", goal) /\ hookCount' = 0
           /\ UNCHANGED <<gate, faulted, payloadState, payloadError, activeBackend>>
    <2>1. TypeOK'
        BY <1>4, <1>5, <1>9, SMT DEF TypeOK, StartReset, Backends
    <2>2. Placed'
        BY <1>1, <1>3, <1>9, SMT DEF Placed, NoTransaction, StartReset, Backends
    <2>3. Complete' /\ Ended'
        BY <1>6, <1>9, SMT DEF Complete, Ended, StartReset
    <2> QED
        BY <1>2, <2>1, <2>2, <2>3
<1>10. CASE /\ goal = "fault" /\ cur = "xaml" /\ pc' = "idle" /\ hookCount' = 0
            /\ gate' = FALSE /\ faulted' = TRUE /\ SetResult("Faulted", "HookCreateFailed")
            /\ UNCHANGED <<cur, goal, todo, activeBackend>>
    <2>1. TypeOK'
        <3>1. payloadState' \in PayloadStates /\ payloadError' \in PayloadErrors
            BY <1>10 DEF SetResult, PayloadStates, PayloadErrors
        <3>2. /\ gate' \in BOOLEAN /\ faulted' \in BOOLEAN /\ hookCount' \in Nat
              /\ pc' \in {"idle", "reset", "begin", "add"}
            BY <1>10
        <3>3. /\ activeBackend' \in Backends \cup {"none"} /\ cur' \in Backends
              /\ goal' \in Goals /\ todo' \subseteq Function
            BY <1>10 DEF TypeOK
        <3> QED
            BY <1>5, <3>1, <3>2, <3>3
    <2>2. NoTransaction'
        BY <1>1, <1>3, <1>10, SMT DEF Placed, NoTransaction
    <2>3. Placed' /\ Ended'
        BY <1>10, <2>2, SMT DEF Placed, Ended, SetResult
    <2>4. Complete'
        BY <1>10, <2>2, SMT DEF Complete, NoTransaction
    <2> QED
        BY <1>2, <2>1, <2>3, <2>4
<1>11. CASE /\ goal = "unload" /\ cur = "xaml" /\ pc' = "idle" /\ hookCount' = 0
            /\ activeBackend' = "none" /\ SetResult("Unloading", "None")
            /\ UNCHANGED <<cur, goal, todo, gate, faulted>>
    <2>1. TypeOK'
        BY <1>5, <1>11, SMT DEF TypeOK, SetResult, PayloadStates, PayloadErrors
    <2>2. NoTransaction'
        BY <1>1, <1>3, <1>11, SMT DEF Placed, NoTransaction, Backends
    <2>3. Placed' /\ Ended'
        BY <1>11, <2>2, SMT DEF Placed, Ended, SetResult
    <2>4. Complete'
        BY <1>6, <1>11, <2>2, SMT DEF Complete, NoTransaction
    <2> QED
        BY <1>2, <2>1, <2>3, <2>4
<1> QED
    BY <1>7, <1>8, <1>9, <1>10, <1>11 DEF EndReset

LEMMA CallbackFaultsKeeps == HInv /\ CallbackFaults => HInv'
<1> SUFFICES ASSUME HInv, CallbackFaults PROVE HInv'
    OBVIOUS
<1> USE DEF HInv, CallbackFaults
<1>1. TypeOK'
    BY DEF PayloadStates, PayloadErrors, TypeOK, SetResult, minhook,
       transactions, place
<1>2. Counted'
    BY DEF NoTransaction, Counted, transactions
<1>3. Tracked'
    BY DEF NoTransaction, Tracked, minhook, transactions
<1>4. Placed'
    BY DEF Placed, Complete, SetResult, transactions, place
<1>5. Complete'
    BY DEF Complete, minhook, transactions
<1>6. Ended'
    BY DEF NoTransaction, Ended, SetResult, transactions, place
<1> QED
    BY <1>1, <1>2, <1>3, <1>4, <1>5, <1>6

LEMMA FreshDllKeeps == HInv /\ FreshDll => HInv'
<1> SUFFICES ASSUME HInv, FreshDll PROVE HInv'
    OBVIOUS
<1> USE DEF HInv, FreshDll
<1>1. TypeOK'
    <2>1. initialized' \in [Backends -> BOOLEAN] /\ targets' \in [Backends -> SUBSET Function]
        OBVIOUS
    <2>2. /\ payloadState' \in PayloadStates /\ payloadError' \in PayloadErrors
          /\ cur' \in Backends /\ goal' \in Goals /\ flags' \subseteq Backends
        BY DEF PayloadStates, PayloadErrors, Goals, Backends, SetResult
    <2>3. /\ created' \subseteq Function /\ live' \subseteq created' /\ todo' \subseteq Function
          /\ users' \in 0..1 /\ hookCount' \in Nat
        BY SMT
    <2>4. /\ activeBackend' \in Backends \cup {"none"}
          /\ pc' \in {"idle", "reset", "begin", "add"}
        OBVIOUS
    <2>5. heap' \in BOOLEAN /\ stuck' \in BOOLEAN /\ gate' \in BOOLEAN /\ faulted' \in BOOLEAN
        OBVIOUS
    <2> HIDE DEF HInv, FreshDll
    <2> QED
        BY <2>1, <2>2, <2>3, <2>4, <2>5 DEF TypeOK
<1>2. Counted'
    BY DEF NoTransaction, Counted
<1>3. Tracked'
    BY DEF NoTransaction, Tracked
<1>4. Placed'
    BY DEF Placed, SetResult
<1>5. Complete'
    BY DEF Complete
<1>6. Ended'
    BY DEF Ended, SetResult
<1> QED
    BY <1>1, <1>2, <1>3, <1>4, <1>5, <1>6

-----------------------------------------------------------------------------
(* The theorems.                                                           *)

LEMMA HStutter == HInv /\ UNCHANGED vars => HInv'
    BY DEF HInv, TypeOK, Counted, Tracked, Placed, Complete, Ended, NoTransaction,
           vars, minhook, transactions, control, place

LEMMA HNext == HInv /\ [Next]_vars => HInv'
    BY HStutter, InitializeKeeps, EnableKeeps, EnableRefusedKeeps, PrepareUnloadKeeps,
       DrainTimesOutKeeps, BeginKeeps, BeginFailsKeeps, AddKeeps, AddFailsKeeps,
       CommitKeeps, CommitFailsKeeps, RemoveKeeps, RemoveFailsKeeps, EndResetKeeps,
       CallbackFaultsKeeps, FreshDllKeeps
    DEF Next

THEOREM HInvHolds == Spec => []HInv
    BY HInit, HNext, PTL DEF Spec

\* At most one transaction has MinHook at a time, a function has a detour only while
\* MinHook has its trampoline, and the counters stay in their ranges.
THEOREM TypeCorrect == Spec => []TypeOK
    BY HInvHolds, PTL DEF HInv

\* PrepareUnload and a failed Enable leave nothing in Explorer, for any sets of
\* functions and whatever MH_RemoveHook returns.
THEOREM NothingIsLeft == Spec => []NothingLeft
<1>1. HInv => NothingLeft
    BY SMT DEF HInv, NothingLeft, Ended, Tracked, TypeOK
<1> QED
    BY <1>1, HInvHolds, PTL

\* The gate opens for a complete backend only, and for one.
THEOREM ActiveMeansComplete == Spec => []ActiveIsComplete
<1>1. HInv => ActiveIsComplete
    BY SMT DEF HInv, ActiveIsComplete, Complete
<1> QED
    BY <1>1, HInvHolds, PTL

\* The number that diagnostics show is that of the functions that are patched.
THEOREM HookCountIsTrue == Spec => []HookCountTrue
<1>1. HInv => HookCountTrue
    <2> SUFFICES ASSUME HInv, pc = "idle", ~stuck PROVE hookCount = Cardinality(live)
        BY DEF HookCountTrue
    <2>1. CASE NoTransaction
        <3>1. live = {} /\ hookCount = 0
            BY <2>1, SMT DEF HInv, Tracked, TypeOK, Ended
        <3> QED
            BY <3>1, FS_EmptySet
    <2>2. CASE ~NoTransaction
        BY <2>2 DEF HInv, NoTransaction, Complete
    <2> QED
        BY <2>1, <2>2
<1> QED
    BY <1>1, HInvHolds, PTL

-----------------------------------------------------------------------------
(* The contract: Init, and one lemma for each kind of step.                *)

USE DEF Detours!vars

LEMMA ContractInit == Init => Detours!Init
    BY DEF Init, Detours!Init, Answer

\* Commands that find nothing to patch or restore.
LEMMA AnswersRefine ==
    ASSUME HInv, Initialize \/ EnableRefused \/ DrainTimesOut \/ CallbackFaults
    PROVE  [Detours!Next]_(Detours!vars)
<1>1. CASE Initialize
    BY <1>1 DEF Initialize, SetResult, minhook, Answer, Detours!Forget, Detours!Next
<1>2. CASE EnableRefused
    BY <1>2 DEF HInv, Complete, EnableRefused, SetResult, minhook, Answer,
       Detours!Fault, Detours!Next
<1>3. CASE DrainTimesOut
    BY <1>3 DEF DrainTimesOut, SetResult, minhook, Answer, Detours!Fault, Detours!Next
<1>4. CASE CallbackFaults
    BY <1>4 DEF CallbackFaults, SetResult, minhook, Answer, Detours!Fault, Detours!Next
<1> QED
    BY <1>1, <1>2, <1>3, <1>4

\* The start of a command, and what MinHook does before it writes to a function.
LEMMA PreparationsRefine ==
    ASSUME HInv,
           Enable \/ PrepareUnload \/ Begin \/ BeginFails \/ Add \/ AddFails \/ RemoveFails
    PROVE  [Detours!Next]_(Detours!vars)
<1>1. CASE PrepareUnload
    BY <1>1 DEF HInv, TypeOK, PrepareUnload, minhook, control, Answer, Detours!Close,
       Detours!Next
<1>2. CASE Enable \/ BeginFails \/ AddFails \/ RemoveFails
    BY <1>2 DEF Enable, BeginFails, AddFails, RemoveFails, minhook, control, Answer
<1>3. CASE Begin \/ Add
    BY <1>3 DEF Begin, Add, control, Answer
<1> QED
    BY <1>1, <1>2, <1>3

\* The gate opens over a backend that has a function and has it patched.
LEMMA CommitRefines ==
    ASSUME HInv, Commit
    PROVE  Detours!Open
<1>1. live' # {} /\ ~gate /\ ~faulted
    BY WantedAssumption DEF HInv, TypeOK, Placed, Complete, Commit
<1> QED
    BY <1>1 DEF Commit, SetResult, Answer, Detours!Open

\* Explorer's functions change.
LEMMA WritesRefine ==
    ASSUME HInv, CommitFails \/ Remove
    PROVE  Detours!Alter
<1>1. ~gate
    BY DEF HInv, Complete, CommitFails, Remove
<1>2. live' # {} => live # {} \/ ~faulted
    BY DEF HInv, Placed, CommitFails, Remove
<1> QED
    BY <1>1, <1>2 DEF CommitFails, Remove, control, Answer, Detours!Alter

\* The end of a Reset restores functions, and answers if it was the last one.
LEMMA EndResetRefines ==
    ASSUME HInv, HInv', EndReset
    PROVE  [Detours!Next]_(Detours!vars)
<1>1. ~gate /\ live' \subseteq live
    BY SMT DEF HInv, Complete, EndReset, ResetTransaction, ResetNothing, Uninitialize,
       UninitializeFails, minhook
<1>2. CASE UNCHANGED <<gate, faulted, payloadState>>
    BY <1>1, <1>2 DEF Answer, Detours!Alter, Detours!Next
<1>3. CASE goal = "fault" /\ gate' = FALSE /\ faulted' = TRUE
           /\ SetResult("Faulted", "HookCreateFailed")
    BY <1>1, <1>3 DEF SetResult, Answer, Detours!Fault, Detours!Next
<1>4. CASE pc' = "idle" /\ SetResult("Unloading", "None") /\ UNCHANGED <<gate, faulted>>
    <2>1. stuck' \/ live' = {}
        BY <1>4 DEF SetResult, HInv, Ended, Tracked, TypeOK
    <2> QED
        BY <1>1, <1>4, <2>1 DEF SetResult, Answer, Detours!Unload, Detours!Next
<1> QED
    BY <1>2, <1>3, <1>4 DEF EndReset, control

\* The backends keep the payload's contract, whichever calls of MinHook fail.
THEOREM ContractHolds == Spec => Contract
<1>1. HInv /\ HInv' /\ [Next]_vars => [Detours!Next]_(Detours!vars)
    <2> SUFFICES ASSUME HInv, HInv', [Next]_vars PROVE [Detours!Next]_(Detours!vars)
        OBVIOUS
    <2>1. CASE UNCHANGED vars
        BY <2>1 DEF vars, minhook, control, Answer
    <2>2. CASE Commit
        BY <2>2, CommitRefines DEF Detours!Next
    <2>3. CASE CommitFails \/ Remove
        BY <2>3, WritesRefine DEF Detours!Next
    <2>4. CASE FreshDll
        BY <2>4 DEF FreshDll, SetResult, Answer, Detours!Fresh, Detours!Next
    <2> QED
        BY <2>1, <2>2, <2>3, <2>4, AnswersRefine, PreparationsRefine, EndResetRefines
        DEF Next
<1> QED
    BY <1>1, ContractInit, HInvHolds, PTL DEF Spec, Contract, Detours!Spec
=============================================================================
